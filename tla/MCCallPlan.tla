----------------------------- MODULE MCCallPlan -----------------------------
(* Small programs for CallPlan: trees of Morphisms, laid out as arenas. *)
EXTENDS CallPlanSemantics

\* A tree is a node whose children or body are trees.
RECURSIVE Arena(_, _), ArenaAll(_, _)
Arena(nodes, tree) ==
    IF tree.kind \in {"Serial", "Parallel"}
    THEN LET below == ArenaAll([nodes |-> nodes, ids |-> <<>>], tree.children)
         IN Append(below.nodes, [tree EXCEPT !.children = below.ids])
    ELSE IF tree.kind \in {"Loop", "Instantiate"}
    THEN LET below == Arena(nodes, tree.body)
         IN Append(below, [tree EXCEPT !.body = Len(below)])
    ELSE Append(nodes, tree)
ArenaAll(acc, trees) ==
    IF trees = <<>> THEN acc
    ELSE LET nodes == Arena(acc.nodes, Head(trees))
         IN ArenaAll([nodes |-> nodes, ids |-> Append(acc.ids, Len(nodes))], Tail(trees))

ProgramOf(tree) == LET nodes == Arena(<<>>, tree) IN [nodes |-> nodes, root |-> Len(nodes)]

Ser(children) == [kind |-> "Serial", children |-> children]
Par(children) == [kind |-> "Parallel", children |-> children]
Loop(n, body) == [kind |-> "Loop", count |-> n, body |-> body]
W(d) == [kind |-> "Wait", d |-> d, physical |-> FALSE]
PW(d) == [kind |-> "Wait", d |-> d, physical |-> TRUE]
Op(op) == [kind |-> "Atomic", op |-> op, d |-> 0, hard |-> FALSE, carrier |-> 100]
On(c, body) == [kind |-> "Instantiate", channel |-> c, body |-> body]
Box(d, boards) == [kind |-> "Opaque", d |-> d,
                   calls |-> [i \in DOMAIN boards |-> [board |-> boards[i], callable |-> "f"]]]
High(c) == On(c, Op("TtlSetHigh"))
Low(c) == On(c, Op("TtlSetLow"))
Pulse(c, d) == On(c, Ser(<<Op("TtlSetHigh"), W(d), Op("TtlSetLow")>>))
Sync == Op("GlobalSync")

MCBoardSeq == <<"main", "rsp0", "rwg0">>
MCBoards == [main |-> [kind |-> "Main", ttlWidth |-> 8], rsp0 |-> [kind |-> "Rsp", ttlWidth |-> 2],
             rwg0 |-> [kind |-> "Rwg", ttlWidth |-> 8]]
MCBindings == [t0 |-> [board |-> "rwg0", local |-> 0, kind |-> "Ttl"],
               t1 |-> [board |-> "rwg0", local |-> 1, kind |-> "Ttl"],
               m0 |-> [board |-> "main", local |-> 0, kind |-> "Ttl"],
               bad |-> [board |-> "rsp0", local |-> 5, kind |-> "Ttl"],
               r0 |-> [board |-> "rwg0", local |-> 0, kind |-> "Rwg"],
               r1 |-> [board |-> "rwg0", local |-> 1, kind |-> "Rwg"],
               p0 |-> [board |-> "rsp0", local |-> 0, kind |-> "Rsp"]]
MCOperations == {"TtlSetHigh", "TtlSetLow", "TtlInitialize", "RwgInitialize", "RwgLoad", "RwgPlay",
                 "RwgRfOn", "RwgRfOff", "RspInitialize", "RspPidConfig", "RspPidStart", "RspPidHold",
                 "RspPidRelease", "RspPidRelink", "RspRfConfig", "GlobalSync", "Opaque"}
MCInstructionCost == [op \in MCOperations |-> 0]

Sbg(c) == IF c = "r1" THEN <<1>> ELSE <<0>>
Target(c, f, a) == [sbg |-> Sbg(c), freq |-> f, amp |-> a, phase |-> <<>>, fct |-> "default"]
Load(c, form, f, a, r) == Op("RwgLoad") @@ [form |-> form, targets |-> <<Target(c, f, a)>>, reset |-> TRUE,
                                         ramp |-> r]
SetState(c, f, a) == On(c, Ser(<<Load(c, "static", f, a, 0), Op("RwgPlay")>>))
Ramp(c, d, f, a) == On(c, Ser(<<Load(c, "linear", f, a, d), Op("RwgPlay"), W(d),
                                Load(c, "endpoint", <<>>, <<>>, 0), Op("RwgPlay")>>))
RwgInit(c, hard) == On(c, [Op("RwgInitialize") EXCEPT !.hard = hard])

Json(c, amp) == On(c, Ser(<<Op("RwgLoad") @@ [form |-> "json",
                     waveforms |-> <<Waveform(<<0>>, Padded(<<3>>, <<>>), amp, <<0>>, FALSE, "default")>>],
                     Op("RwgPlay")>>))
Rsp(op, source) == On("p0", Op(op) @@ [config |-> [source |-> source]])
Call1(call) == Op("Opaque") @@ [call |-> call]

Steps == {High("t0"), Low("t0"), High("t1"), Pulse("t0", 5), Pulse("m0", 7), W(3), W(-3), PW(4), Sync,
          Box(6, <<"rwg0">>), Box(0, <<"main", "rwg0">>),
          Loop(2, Pulse("t0", 1)), Loop(3, Ser(<<Pulse("m0", 5), W(-2)>>)),
          Par(<<Pulse("t0", 5), Pulse("t1", 3)>>),
          Loop(2, Ser(<<Box(4, <<"rwg0">>), W(2)>>))}
TtlPrograms == {Ser(<<a, b, c>>) : a, b, c \in Steps}

RwgSteps == {SetState("r0", <<5>>, <<7>>), SetState("r0", <<0>>, <<>>), SetState("r1", <<6>>, <<2>>),
             Par(<<SetState("r0", <<5>>, <<7>>), SetState("r1", <<4>>, <<7>>)>>),
             Ramp("r0", 40, <<8>>, <<>>), Json("r0", Padded(<<3>>, <<>>)), Json("r0", Padded(<<3>>, <<2>>)),
             On("r0", Op("RwgRfOn")), On("r1", Op("RwgRfOff")), On("r0", Op("RwgPlay")),
             Pulse("t0", 5), W(-40), W(10), Sync, Loop(2, Pulse("t0", 5)),
             Loop(2, Ser(<<SetState("r0", <<5>>, <<3>>), W(70)>>)),
             Loop(2, Ser(<<SetState("r0", <<5>>, <<3>>), W(70), SetState("r0", <<9>>, <<3>>), W(30)>>))}
RwgStart == <<RwgInit("r0", TRUE), RwgInit("r1", FALSE), W(60)>>
RwgPrograms == {Ser(RwgStart \o <<a, W(70), b, W(70), c>>) : a, b, c \in RwgSteps}
               \cup {Ser(RwgStart \o <<a, gap, b>>) : a, b \in RwgSteps, gap \in {W(0), W(25)}}
               \cup {Ser(<<a, b>>) : a \in RwgSteps, b \in {W(10)}}

RspSteps == {On("p0", Op("RspInitialize")), Rsp("RspPidConfig", 1), Rsp("RspPidConfig", -1),
             Rsp("RspPidStart", 0), Rsp("RspPidHold", 0), Rsp("RspPidRelease", 0),
             Rsp("RspPidRelink", 0), Rsp("RspRfConfig", 0), W(20), Sync}
RspPrograms == {Ser(<<a, b, c>>) : a, b, c \in RspSteps}

OddSteps == {High("nowhere"), Pulse("nowhere", 5), High("bad"), High("r0"), On("t0", Op("TtlInitialize")),
             On("t1", Op("TtlInitialize")), Op("Unknown"), PW(-4), Box(-1, <<"main">>),
             Box(3, <<"elsewhere">>), [kind |-> "DefinitionRef"], Par(<<Sync, W(3)>>), Par(<<Sync, Sync>>),
             Loop(2, Sync), Loop(1, Pulse("t0", 5)), Loop(20, Ser(<<Pulse("t0", 5), W(-2)>>)),
             Call1("f"), Call1("g"), Pulse("t0", 5), W(-3), W(9), Loop(128, Pulse("m0", 4)),
             Par(<<Box(6, <<"rwg0">>), Pulse("t1", 8)>>),
             Loop(3, Par(<<Pulse("t0", 1), Pulse("m0", 5)>>)),
             Loop(2, Par(<<Pulse("t0", 0), Pulse("m0", 0), Pulse("t1", 1)>>))}
OddPrograms == {Ser(<<a, b>>) : a, b \in OddSteps}

\* Loops in loops, with something in front of, inside and behind the inner one.
InnerLoops == {Loop(3, Pulse("t0", 5)), Loop(2, Pulse("t0", 0)), Loop(3, Par(<<Pulse("t0", 1), Pulse("m0", 5)>>)),
               Loop(2, Ser(<<W(1), Loop(2, Pulse("t1", 1))>>))}
Beside == {W(0), W(2), Pulse("t1", 2), Pulse("m0", 3), Ser(<<Pulse("t1", 2), W(1)>>)}
NestedPrograms == {Ser(<<Loop(2, Ser(<<a, inner, b>>)), c>>) :
                     inner \in InnerLoops, a, b, c \in Beside}

MCPrograms == {ProgramOf(t) : t \in TtlPrograms \cup RwgPrograms \cup RspPrograms \cup OddPrograms
                                    \cup NestedPrograms}

\* A write at the instant a hardware loop begins.
MCSerialPrograms == {ProgramOf(Ser(<<a, W(3), b, Loop(2, Pulse("t0", 5))>>)) :
                       a, b \in {High("t0"), Low("t0"), High("t1"), W(2)}}
=============================================================================
