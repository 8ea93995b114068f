------------------------- MODULE CallPlanSemantics -------------------------
(***************************************************************************)
(* What a call plan must do: a reference meaning of Morphism programs (when *)
(* each operation happens, every loop unrolled) and of OASM calls (what the *)
(* boards do when they run them, loops included), and the properties that  *)
(* compare the two.                                                        *)
(***************************************************************************)
EXTENDS CallPlan

-----------------------------------------------------------------------------
(* The program.                                                            *)

\* The operations under a node in program order, relative to its start, and the
\* channel morphisms they are part of.
UnfoldingWith(p, T, S) ==
    LET Moved(os, at, epoch) == [i \in 1..Len(os) |-> [os[i] EXCEPT !.at = @ + at, !.epoch = @ + epoch]]
        OpsOf(done, n) ==
          LET here == [node |-> Len(done) + 1, at |-> 0, epoch |-> 0, channel |-> "none"]
              Before(F(_), i) == Cursor([k \in 1..Len(n.children) |-> F(n.children[k])])[i - 1]
              Part(i) == Moved(done[n.children[i]], Before(LAMBDA c : T[c].duration, i),
                               Before(LAMBDA c : S[c], i))
              OnIt(o) == [o EXCEPT !.channel = IF @ = "none" THEN n.channel ELSE @]
              period == T[n.body].duration
                        + IF T[n.body].rewinds THEN 0 ELSE LoopIterationOverhead(n.count)
          IN CASE n.kind \in {"Atomic", "Opaque"} -> <<here>>
               [] n.kind = "Instantiate" ->
                    <<OnIt(here)>> \o [i \in 1..Len(done[n.body]) |-> OnIt(done[n.body][i])]
               [] n.kind = "Serial" -> FoldLeft(LAMBDA acc, i : acc \o Part(i), <<>>,
                                                [i \in 1..Len(n.children) |-> i])
               [] n.kind = "Parallel" -> FoldLeft(LAMBDA acc, c : acc \o done[c], <<>>, n.children)
               [] n.kind = "Loop" -> FoldLeft(LAMBDA acc, i : acc \o Moved(done[n.body], (i - 1) * period, 0),
                                              <<>>, [i \in 1..n.count |-> i])
               [] OTHER -> <<>>
    IN Forward(p, OpsOf)[p.root]
Unfolding(p) == UnfoldingWith(p, AnalyzeTiming(p), AnalyzeEpochs(p))

\* The levels a TTL channel goes through: the writes in the order of time, the
\* last one in program order where several share an instant.
Levels(p, channel) ==
    LET Writes(os) == SelectSeq(os, LAMBDA o :
                        o.channel = channel /\ p.nodes[o.node].kind = "Atomic"
                        /\ p.nodes[o.node].op \in {"TtlSetHigh", "TtlSetLow"})
        When(o) == <<o.epoch, o.at>>
        Kept(sorted) == SelectSeq([i \in DOMAIN sorted |-> i], LAMBDA i :
                          i < Len(sorted) => When(sorted[i]) # When(sorted[i + 1]))
        Level(o) == [epoch |-> o.epoch, at |-> o.at, high |-> p.nodes[o.node].op = "TtlSetHigh"]
        Final(sorted, kept) == [k \in DOMAIN kept |-> Level(sorted[kept[k]])]
        FinalOf(sorted) == Final(sorted, Kept(sorted))
    IN FinalOf(StableSort(Writes(Unfolding(p)), When))

\* A cursor that runs the parts one after the other: where it ends, and the
\* furthest it was.
Go(from, part) == [end |-> from.end + part.end, far |-> MaxOf(from.far, from.end + part.far)]
Travel(parts) ==
    LET After[i \in 0..Len(parts)] ==
          IF i = 0 THEN [end |-> 0, far |-> 0] ELSE Go(After[i - 1], parts[i])
    IN After[Len(parts)]

Reach(done, n) ==
    LET below == [i \in 1..Len(n.children) |-> done[n.children[i]]]
        fixed == AtomicTiming(n).duration
    IN CASE n.kind = "Wait" -> [end |-> n.d, far |-> MaxOf(n.d, 0)]
         [] n.kind = "Opaque" -> [end |-> n.d, far |-> n.d]
         [] n.kind = "Atomic" -> [end |-> fixed, far |-> fixed]
         [] n.kind = "Instantiate" -> done[n.body]
         [] n.kind = "Serial" -> Travel(below)
         [] n.kind = "Parallel" -> [end |-> Max({below[i].end : i \in DOMAIN below}),
                                    far |-> Max({below[i].far : i \in DOMAIN below})]
         [] n.kind = "Loop" -> Travel([i \in 1..n.count |-> done[n.body]])
         [] OTHER -> [end |-> 0, far |-> 0]

\* The furthest point the logical cursor visits, hardware overhead excluded.
Furthest(p) == Forward(p, Reach)[p.root].far

-----------------------------------------------------------------------------
(* The plan.                                                               *)

\* The LoopEnd of the LoopBegin at i.
LoopEndOf(calls, i) ==
    LET Count(f, j) == Cardinality({k \in i..j : calls[k].function = f})
    IN Min({j \in i..Len(calls) : Count("LoopBegin", j) = Count("LoopEnd", j)})

\* The calls a board executes, in order: a loop repeats its body.
Executed(calls) ==
    LET X[i \in 1..(Len(calls) + 1), j \in 0..Len(calls)] ==
          IF i > j THEN <<>>
          ELSE IF calls[i].function # "LoopBegin" THEN <<calls[i]>> \o X[i + 1, j]
          ELSE LET k == LoopEndOf(calls, i)
               IN FlattenSeq([n \in 1..calls[i].args[2] |-> X[i + 1, k - 1]]) \o X[k + 1, j]
    IN X[1, Len(calls)]

ExecutedOn(board) == FlattenSeq([e \in DOMAIN epochs |-> Executed(epochs[e].boards[board])])

\* The levels board b drives on local channel l.
DrivenLevels(board, l) ==
    LET writes == SelectSeq(ExecutedOn(board), LAMBDA c : c.function = "TtlSet" /\ l \in c.args[1])
    IN [i \in DOMAIN writes |-> l \in writes[i].args[2]]

CompiledBoards == IF epochs = <<>> THEN {} ELSE DOMAIN epochs[1].boards
TtlChannels == {c \in DOMAIN Bindings : Bindings[c].kind = "Ttl"}
Done == phase = "done"

-----------------------------------------------------------------------------
(* Properties.                                                             *)

\* While board b runs a hardware loop, all of its events are of that loop: no other
\* event of the board, the markers of a loop around or inside it included, is at
\* the instant it begins or before it ends, unless it is of its body.
LoopsUndisturbed(b) ==
    \A k \in DOMAIN regions :
      LET r == regions[k]
          Of(s) == {i \in DOMAIN s : s[i].board = b}
          markers == {i \in Of(logical.direct) : logical.direct[i].group = r.marker}
          total == FixedOverhead + r.count * (r.body + LoopIterationOverhead(r.count))
          Meets(e) == /\ e.epoch = r.epoch
                      /\ e.offset \in r.start..MaxOf(r.start + r.body, r.start + total - 1)
      IN markers # {} =>
           /\ \A i \in Of(logical.ttl) \ r.ttl : ~Meets(logical.ttl[i])
           /\ \A i \in Of(logical.direct) \ (r.direct \cup markers) : ~Meets(logical.direct[i])

RealisesLevels(c) ==
    LET High(wanted) == [i \in DOMAIN wanted |-> wanted[i].high]
        b == Bindings[c].board
    IN High(Levels(program, c))
         = IF b \in CompiledBoards THEN DrivenLevels(b, Bindings[c].local) ELSE <<>>

\* A board drives each TTL channel through the levels the program asks for, in
\* that order: merging writes of one instant, moving preloads, shifting what
\* follows a loop and laying calls out one after the other neither loses,
\* duplicates nor reorders a level (compile_board, apply_loop_timing), where
\* nothing else is asked of the board while it runs a loop and no loop of the
\* board begins together with one inside it.
TtlLevelsRealised ==
    Done => \A c \in TtlChannels : LoopsUndisturbed(Bindings[c].board) => RealisesLevels(c)

\* "C is A immediately followed by B" for C = A >> B (docs/user/02_core_concepts.md,
\* on the serial operator): a program without parallel branches drives its levels
\* in its order, also where a write meets a hardware loop.
SerialOrderKept ==
    (Done /\ \A id \in DOMAIN program.nodes : program.nodes[id].kind # "Parallel")
      => \A c \in TtlChannels : RealisesLevels(c)

\* No level is driven before its logical timestamp (programs without a hardware
\* loop, whose iterations have no timestamp in the plan).
NeverEarly ==
    (Done /\ regions = <<>>) => \A c \in TtlChannels :
      LET b == Bindings[c].board
          Writes(calls) == SelectSeq(calls, LAMBDA k :
                             k.function = "TtlSet" /\ Bindings[c].local \in k.args[1])
          Times(origin, writes) == [i \in DOMAIN writes |-> origin + writes[i].offset]
          NotBefore(wanted, times) == \A i \in DOMAIN wanted : times[i] >= wanted[i].at
      IN b \in CompiledBoards =>
           NotBefore(Levels(program, c),
                     FlattenSeq([e \in DOMAIN epochs |->
                                   Times(epochs[e].origin, Writes(epochs[e].boards[b]))]))

\* logical_duration_cycles is the furthest logical point the program visits,
\* rewinds and expanded loops included (repeated_frontier in timing.rs).
LogicalDurationIsFurthest ==
    Done => timing[program.root].logicalFrontier = Furthest(program)

\* The operations of an unfolding do not meet its black boxes.
ExclusiveIn(os) ==
    LET N(i) == program.nodes[os[i].node]
        BoardsAt(i) == CASE N(i).kind = "Opaque" -> {N(i).calls[k].board : k \in DOMAIN N(i).calls}
                         [] os[i].channel \in DOMAIN Bindings -> {Bindings[os[i].channel].board}
                         [] OTHER -> {}
        Lasts(i) == timing[os[i].node].frontier
        From1(i) == MaxOf(os[i].at, logical.origins[os[i].epoch])
        Meets(o, i) ==
          /\ os[o].epoch = os[i].epoch
          /\ BoardsAt(o) \cap BoardsAt(i) # {}
          /\ \/ os[i].at + Lasts(i) > os[o].at /\ From1(i) < os[o].at + Lasts(o) /\ Lasts(i) > 0
             \/ N(i).kind = "Atomic" /\ os[i].at \in os[o].at..(os[o].at + Lasts(o) - 1)
    IN \A o, i \in DOMAIN os :
         (o # i /\ N(o).kind = "Opaque" /\ Lasts(o) > 0) => ~Meets(o, i)

\* In a plan a black box has its boards for itself, whatever the iteration of the
\* loops around it: nothing else on the board happens or lasts in its interval
\* (validate_opaque_exclusivity in event_lowering.rs).
OpaqueExclusive == Done => ExclusiveIn(Unfolding(program))

\* Every epoch that the syncs of the program open has an origin and is compiled,
\* and no event is lowered into an epoch that is not: build_call_plan never meets
\* an epoch without an origin (plan_builder.rs), and nothing lowered is lost.
EpochsCovered ==
    /\ error # "epoch has no origin"
    /\ phase \in {"loops", "compile", "done"} => DOMAIN origins = 0..LastEpoch
    /\ Done => /\ Len(epochs) = LastEpoch + 1
               /\ \A s \in {ttl, direct} : \A i \in DOMAIN s : s[i].epoch + 1 \in 1..Len(epochs)

\* Every board takes part in the sync that ends an epoch exactly once, the
\* master fires only when all of them listen, and, unless the program rewinds,
\* nothing of the epoch is left behind the rendezvous; every epoch is there.
Rendezvous ==
    /\ EpochsCovered
    /\ Done => \A e \in DOMAIN epochs :
         LET Calls(b) == epochs[e].boards[b]
             Syncs(b) == {i \in DOMAIN Calls(b) : Calls(b)[i].function \in SyncCalls}
         IN \A b \in CompiledBoards :
              /\ Cardinality(Syncs(b)) = IF e < Len(epochs) THEN 1 ELSE 0
              /\ \A i \in Syncs(b) :
                   /\ ~timing[program.root].rewinds =>
                        \A j \in (i + 1)..Len(Calls(b)) : Calls(b)[j].function = "Wait"
                   /\ Calls(b)[i].function = "TrigSlave" =>
                        \A a \in CompiledBoards : \A k \in Syncs(a) :
                          Calls(b)[i].offset + Calls(b)[i].args[1]
                            >= Calls(a)[k].offset + (IF a = b THEN 0 ELSE FixedCost("WaitMaster"))
                               + GLOBAL_SYNC_MARGIN_CYCLES

\* The waveforms of a load, and the plays of a channel, those in a loop in every
\* pass, with what they must play.
LoadsOf(group, ds) == SelectSeq(ds, LAMBDA e : e.preload /\ e.group = group)
WantedPlays(channel) ==
    LET b == Bindings[channel]
        marked == StableSort(SelectSeq(logical.direct, LAMBDA e :
                    /\ e.board = b.board
                    /\ \/ e.function \in {"LoopBegin", "LoopEnd"}
                       \/ e.function = "RwgPlay" /\ e.order[2] = b.local),
                    LAMBDA e : <<e.epoch, e.offset, FunctionPriority(e.function)>>)
        plays == SelectSeq(Executed(marked), LAMBDA e : e.function = "RwgPlay")
        WaveformsOf(g) == LET l == LoadsOf(g, logical.direct) IN [i \in DOMAIN l |-> l[i].args[1]]
    IN [i \in DOMAIN plays |-> WaveformsOf(plays[i].group)]

\* What the channel holds when a play of it is executed.
PlayedBy(channel) ==
    LET b == Bindings[channel]
        sbgs == {logical.direct[i].args[1].sbg : i \in {j \in DOMAIN logical.direct :
                   logical.direct[j].preload /\ logical.direct[j].board = b.board
                   /\ logical.direct[j].order[2] = b.local}}
        Run(acc, c) ==
          CASE c.function = "RwgLoadWaveform" /\ c.args[1].sbg \in sbgs ->
                 [acc EXCEPT !.held = [@ EXCEPT ![c.args[1].sbg] = c.args[1]]]
            [] c.function = "RwgPlay" /\ b.local \in c.args[1] ->
                 [acc EXCEPT !.played = Append(@, acc.held)]
            [] OTHER -> acc
        empty == [s \in sbgs |-> [sbg |-> s, freq |-> <<>>, amp |-> <<>>, phase |-> <<>>,
                                  reset |-> FALSE, fct |-> "none"]]
    IN FoldLeft(Run, [held |-> empty, played |-> <<>>], ExecutedOn(b.board)).played

\* No load of the channel is in a hardware loop, or the channel has no other.
LoadsUnlooped(channel) ==
    LET b == Bindings[channel]
        loads == {i \in DOMAIN logical.direct :
                    /\ logical.direct[i].preload /\ logical.direct[i].board = b.board
                    /\ logical.direct[i].order[2] = b.local}
    IN \/ \A i \in loads : logical.direct[i].scope = NoScope
       \/ \A i, j \in loads : logical.direct[i].group = logical.direct[j].group

\* Before each play the board has the time for its loads: since the origin of the
\* epoch, and since the last play at another instant; and no channel is played
\* twice at one instant (the scheduler drops both plays of such a handoff).
TimeToLoad(b) ==
    LET plays == {e \in Range(logical.direct) : e.function = "RwgPlay" /\ e.board = b}
        Loads(e) == {i \in DOMAIN logical.direct :
                       LET f == logical.direct[i]
                       IN f.preload /\ f.board = b /\ f.epoch = e.epoch /\ f.offset = e.offset}
        Loading(e) == MapThenSumSet(LAMBDA i : CallCost(logical.direct[i]), Loads(e))
    IN \A e \in plays :
         /\ \A i, j \in Loads(e) : logical.direct[i].order[2] = logical.direct[j].order[2]
                                   => logical.direct[i].group = logical.direct[j].group
         /\ e.offset - logical.origins[e.epoch] >= Loading(e)
         /\ \A f \in plays : (f.epoch = e.epoch /\ f.offset < e.offset) =>
              e.offset - f.offset >= FixedCost("RwgPlay") + Loading(e)

\* Each play triggers the waveforms that were loaded for it, in every pass of a
\* loop (schedule_preloads, coalesce_direct_events), where the board has the time
\* to load them.  A load may be moved out of a loop or into the one before it, so
\* this is about channels with no load in a loop or with no other load to mistake
\* it for, on boards whose loops are undisturbed.
PlaysItsLoad ==
    Done => \A c \in {d \in DOMAIN Bindings : Bindings[d].kind = "Rwg"} :
      LET b == Bindings[c].board
          wanted == WantedPlays(c)
          played == PlayedBy(c)
      IN /\ b \in CompiledBoards
         /\ TimeToLoad(b) /\ LoadsUnlooped(c) /\ LoopsUndisturbed(b)
         => /\ Len(played) = Len(wanted)
            /\ \A i \in DOMAIN wanted : \A k \in DOMAIN wanted[i] :
                 played[i][wanted[i][k].sbg] = wanted[i][k]

\* The loops of a board in an epoch: where each begins in the calls, its LoopEnd,
\* the region the event of its LoopBegin stands for, whether it begins on time
\* and alone, and whether it lies in another.
LoopsOn(e, b) ==
    LET calls == epochs[e].boards[b]
        begins == SelectSeq([i \in DOMAIN calls |-> i], LAMBDA i : calls[i].function = "LoopBegin")
        events == StableSort(SelectSeq(direct, LAMBDA d :
                    d.function = "LoopBegin" /\ d.epoch = e - 1 /\ d.board = b),
                    LAMBDA d : <<d.offset>>)
        RegionOf(d) == regions[CHOOSE k \in DOMAIN regions : regions[k].marker = d.group]
    IN {[begin |-> calls[begins[k]], end |-> calls[LoopEndOf(calls, begins[k])],
         marker |-> events[k].group, body |-> RegionOf(events[k]).body,
         onTime |-> calls[begins[k]].offset = events[k].offset - epochs[e].origin,
         alone |-> \A j \in DOMAIN events \ {k} : events[j].offset # events[k].offset,
         inner |-> events[k].scope # events[k].group] : k \in DOMAIN begins}

\* The plan's timeline of a board advances by what a hardware loop takes when it
\* runs, so that the calls behind the loop are where the board will be, and each
\* iteration has the length of the body (apply_loop_timing).  Where the boards of
\* a loop need different times, the plan of each is that of the longest, and the
\* others are ahead of it by the difference in every pass but the last.  For
\* loops that begin on time and not together with another of the board; a loop
\* inside a loop is not charged, so its calls must fit its logical body.
LoopsAccounted ==
    Done => \A e \in DOMAIN epochs :
      LET loops == UNION {LoopsOn(e, b) : b \in CompiledBoards}
          Period(l) == l.end.offset - l.begin.offset
          Regular(l) == l.onTime /\ l.alone /\ (l.inner => Period(l) = l.body)
          Planned(l) == l.end.offset + l.end.cost - l.begin.offset
          Takes(l, n) == FixedOverhead + n * (Period(l) + LoopIterationOverhead(n))
      IN \A l \in loops :
           LET same == {k \in loops : k.marker = l.marker}
               n == l.begin.args[2]
               longest == Max({Period(k) : k \in same})
           IN (\A k \in same : Regular(k)) =>
                /\ Period(l) >= l.body
                /\ Planned(l) = Takes(l, n) + (n - 1) * (longest - Period(l))

=============================================================================
