--------------------------- MODULE MorphismTiming ---------------------------
(***************************************************************************)
(* The two forward passes over a Morphism arena before OASM lowering:      *)
(* analyze_timing (oasm_call_plan/timing.rs) and analyze_epochs            *)
(* (epochs.rs).                                                            *)
(*                                                                         *)
(* A program is [nodes, root]; a node is a record of its kind with its     *)
(* payload resolved: children and bodies are ids of earlier nodes, a       *)
(* duration is the evaluated number of cycles.  Cycles are unbounded       *)
(* integers here: the checked i64 and u64 arithmetic of the code only adds *)
(* errors for timelines longer than the bounds of any instance.            *)
(***************************************************************************)
EXTENDS Integers, Sequences, FiniteSets, SequencesExt, FiniteSetsExt

CONSTANTS
    Operations,          \* the operations the Target Profile has a schema for
    HardInitCycles,      \* clock_hz / 1_000_000
    FixedOverhead, IterationOverhead, LargeCount, LargeIterationOverhead

ASSUME TimingAssumption ==
    {HardInitCycles, FixedOverhead, IterationOverhead, LargeCount, LargeIterationOverhead}
      \subseteq Nat

NodeKinds == {"Wait", "Atomic", "Opaque", "Instantiate", "Serial", "Parallel", "Loop",
              "DefinitionRef"}

IsSequence(s) == s \in Seq({s[i] : i \in DOMAIN s})

\* A program as linking hands it over: an arena whose children and bodies come
\* before their parents (MorphismArenaBuilder), where a composition has children
\* and the count of a loop is positive (lower_repeat_call).
LinkedNode(n, id) ==
    /\ n.kind \in NodeKinds
    /\ n.kind \in {"Wait", "Opaque", "Atomic"} => n.d \in Int
    /\ n.kind = "Wait" => n.physical \in BOOLEAN
    /\ n.kind = "Atomic" => n.hard \in BOOLEAN
    /\ n.kind = "Opaque" => IsSequence(n.calls)
    /\ (n.kind = "Atomic" /\ n.op = "RwgLoad") =>
         /\ n.form = "json" => IsSequence(n.waveforms)
         /\ n.form \in {"static", "linear"} => IsSequence(n.targets)
    /\ n.kind \in {"Serial", "Parallel"} =>
         /\ Len(n.children) \in Nat \ {0} /\ DOMAIN n.children = 1..Len(n.children)
         /\ \A i \in DOMAIN n.children : n.children[i] \in 1..(id - 1)
    /\ n.kind \in {"Instantiate", "Loop"} => n.body \in 1..(id - 1)
    /\ n.kind = "Loop" => n.count \in Nat \ {0}
LinkedProgram(p) ==
    /\ Len(p.nodes) \in Nat /\ DOMAIN p.nodes = 1..Len(p.nodes)
    /\ p.root \in DOMAIN p.nodes
    /\ \A id \in DOMAIN p.nodes : LinkedNode(p.nodes[id], id)

MaxOf(a, b) == IF a >= b THEN a ELSE b

\* LoopTiming::iteration_overhead
LoopIterationOverhead(count) ==
    IF count >= LargeCount THEN LargeIterationOverhead ELSE IterationOverhead

Timing(duration, logical, frontier, logicalFrontier, rewinds, error) ==
    [duration |-> duration, logical |-> logical, frontier |-> frontier,
     logicalFrontier |-> logicalFrontier, rewinds |-> rewinds, error |-> error]
Exact(d) == Timing(d, d, MaxOf(d, 0), MaxOf(d, 0), d < 0, "none")
Failed(error) == Timing(0, 0, 0, 0, FALSE, error)

\* A timed operation whose duration argument is negative is refused by
\* eval_duration_cycles; init and the other operations take fixed cycles.
AtomicTiming(n) ==
    IF n.op \notin Operations THEN Failed("no Atomic Schema")
    ELSE IF n.op = "RwgInitialize" /\ n.hard THEN Exact(HardInitCycles)
    ELSE IF n.d < 0 THEN Failed("negative physical duration") ELSE Exact(n.d)

\* The running sums of the Serial arm; a child is placed at the sum so far.
Followed(acc, t) ==
    Timing(acc.duration + t.duration, acc.logical + t.logical,
           MaxOf(acc.frontier, acc.duration + t.frontier),
           MaxOf(acc.logicalFrontier, acc.logical + t.logicalFrontier),
           acc.rewinds \/ t.rewinds, acc.error)
SerialTiming(ts) ==
    LET Sum[i \in 0..Len(ts)] ==
          IF i = 0 THEN Timing(0, 0, 0, 0, FALSE, "none") ELSE Followed(Sum[i - 1], ts[i])
    IN Sum[Len(ts)]

ParallelTiming(ts) ==
    LET Largest(F(_)) == Max({F(ts[i]) : i \in DOMAIN ts})
    IN Timing(Largest(LAMBDA t : t.duration), Largest(LAMBDA t : t.logical),
              Largest(LAMBDA t : t.frontier), Largest(LAMBDA t : t.logicalFrontier),
              \E i \in DOMAIN ts : ts[i].rewinds, "none")

\* Mutant: the frontier is taken behind the last iteration.
LoopTimingOfOneMore(body, count) ==
    LET Repeated(delta, frontier) == (IF delta >= 0 THEN delta * count ELSE 0) + frontier
        hardware == FixedOverhead + (body.duration + LoopIterationOverhead(count)) * count
    IN IF body.rewinds
       THEN Timing(body.duration * count, body.logical * count,
                   Repeated(body.duration, body.frontier),
                   Repeated(body.logical, body.logicalFrontier), TRUE, "none")
       ELSE IF body.duration < 0 THEN Failed("negative loop body")
       ELSE Timing(hardware, body.logical * count, hardware,
                   MaxOf(body.logical * count, 0), FALSE, "none")

\* A rewinding body is expanded, any other body becomes a hardware loop.
LoopTimingOf(body, count) ==
    LET before == IF count = 0 THEN 0 ELSE count - 1
        Repeated(delta, frontier) == (IF delta >= 0 THEN delta * before ELSE 0) + frontier
        hardware == FixedOverhead + (body.duration + LoopIterationOverhead(count)) * count
    IN IF body.rewinds
       THEN Timing(body.duration * count, body.logical * count,
                   Repeated(body.duration, body.frontier),
                   Repeated(body.logical, body.logicalFrontier), TRUE, "none")
       ELSE IF body.duration < 0 THEN Failed("negative loop body")
       ELSE Timing(hardware, body.logical * count, hardware,
                   MaxOf(body.logical * count, 0), FALSE, "none")

\* A forward pass: every node is given its result from those of earlier nodes.
Forward(p, ResultOf(_, _)) ==
    LET Extended(done, n) == Append(done, ResultOf(done, n))
        Pass[k \in 0..Len(p.nodes)] ==
          IF k = 0 THEN <<>> ELSE Extended(Pass[k - 1], p.nodes[k])
    IN Pass[Len(p.nodes)]

\* The arms of the match over node kinds.
TimingOf(done, n) ==
    LET below == [i \in 1..Len(n.children) |-> done[n.children[i]]]
    IN CASE n.kind = "Wait" -> IF n.physical /\ n.d < 0
                               THEN Failed("negative physical interval") ELSE Exact(n.d)
         [] n.kind = "Atomic" -> AtomicTiming(n)
         [] n.kind = "Opaque" -> IF n.d < 0 THEN Failed("negative opaque duration")
                                 ELSE Exact(n.d)
         [] n.kind = "Instantiate" -> done[n.body]
         [] n.kind = "Serial" -> SerialTiming(below)
         [] n.kind = "Parallel" -> ParallelTiming(below)
         [] n.kind = "Loop" -> LoopTimingOf(done[n.body], n.count)
         [] n.kind = "DefinitionRef" -> Failed("unresolved definition")

\* An error of a node stops the whole analysis.
AnalyzeTiming(p) == Forward(p, TimingOf)

TimingError(t) == \E id \in DOMAIN t : t[id].error # "none"

-----------------------------------------------------------------------------
(* analyze_epochs: the global syncs a node passes; -1 stands for an error. *)

\* Where a cursor is after each of the amounts it moves by.
Cursor(amounts) ==
    LET At[i \in 0..Len(amounts)] == IF i = 0 THEN 0 ELSE At[i - 1] + amounts[i]
    IN At

SyncsOf(done, n) ==
    LET below == [i \in 1..Len(n.children) |-> done[n.children[i]]]
    IN CASE n.kind = "Atomic" -> IF n.op = "GlobalSync" THEN 1 ELSE 0
         [] n.kind = "Instantiate" -> done[n.body]
         [] n.kind = "Serial" -> Cursor(below)[Len(below)]
         [] n.kind = "Parallel" ->
              IF \A i \in DOMAIN below : below[i] = below[1] THEN below[1] ELSE -1
         [] n.kind = "Loop" -> IF done[n.body] # 0 THEN -1 ELSE 0
         [] OTHER -> 0

AnalyzeEpochs(p) == Forward(p, SyncsOf)

EpochError(s) == \E id \in DOMAIN s : s[id] < 0
=============================================================================
