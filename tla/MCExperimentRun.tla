--------------------------- MODULE MCExperimentRun ---------------------------
(* Instances of ExperimentRun. *)
EXTENDS ExperimentRun

Repeat(n) == [param |-> NoParam, values |-> [i \in 1..n |-> i - 1]]
RepeatIndexed(n, p) == [param |-> p, values |-> [i \in 1..n |-> i - 1]]
Scan(p, values) == [param |-> p, values |-> values]

\* No node; three nested nodes with an index parameter; a scan around a plain
\* repeat, two of its values compiled alike; a repeat of nothing.
MCLayouts == {
    <<>>,
    <<RepeatIndexed(2, "rep"), Scan("duration", <<10, 20>>), Scan("phase", <<1, 2>>)>>,
    <<Scan("detuning", <<5, 5, 7>>), Repeat(2)>>,
    <<Repeat(2), Repeat(0), Scan("duration", <<10, 20>>)>>}
=============================================================================
