--------------------------- MODULE BoardScheduler ---------------------------
(***************************************************************************)
(* Board-local scheduling (oasm_call_plan/scheduler.rs) and the ABI costs  *)
(* it rests on (abi_cost.rs): preloads are moved before the play that uses *)
(* them, calls of one instant are merged, and what is left is laid out one *)
(* call after the other.                                                   *)
(*                                                                         *)
(* A mask is the set of its local ids.  An optional number is <<>> or <<n>>;*)
(* a waveform coefficient is the word written for it, where the cost only  *)
(* tells 0 and -1 from the rest.                                           *)
(***************************************************************************)
EXTENDS Integers, Sequences, FiniteSets, TLC, SequencesExt, FiniteSetsExt

LargestOf(a, b) == IF a >= b THEN a ELSE b
SaturatingSub(a, b) == IF a >= b THEN a - b ELSE 0
GLOBAL_SYNC_MARGIN_CYCLES == 100
NoScope == -1                \* an event outside every hardware loop
BOARD == <<0, 0, 0>>         \* EventOrder::BOARD

\* EventOrder::channel
ChannelOrder(kind, local, sequence) == <<IF kind = "Ttl" THEN 1 ELSE 0, local, sequence>>

\* Sorting by a key is stable, as Rust's sort_by_key.
LexLess(a, b) == \E i \in DOMAIN a : a[i] < b[i] /\ \A j \in 1..(i - 1) : a[j] = b[j]
StableSort(s, Key(_)) ==
    LET order == SortSeq([i \in DOMAIN s |-> i],
                         LAMBDA i, j : LexLess(Key(s[i]) \o <<i>>, Key(s[j]) \o <<j>>))
    IN [i \in DOMAIN s |-> s[order[i]]]

-----------------------------------------------------------------------------
(* ABI costs.                                                              *)

\* fixed_oasm_call_cost
FixedCost(f) ==
    CASE f \in {"LoopBegin", "LoopEnd", "UserDefinedFunc", "Wait"} -> 0
      [] f = "TtlSet" -> 1
      [] f \in {"TtlConfig", "RspPidHold"} -> 2
      [] f = "RspPidStart" -> 3
      [] f = "WaitMaster" -> 8
      [] f = "RspInit" -> 11
      [] f = "RspRfConfig" -> 13
      [] f \in {"RwgPlay", "RspPidRelease", "RspPidRelink"} -> 15
      [] f = "TrigSlave" -> 17
      [] f = "RspSetCarrier" -> 37
      [] f = "RspPidConfig" -> 39
      [] f = "RwgInit" -> 53

ImmediateWriteCost(v) == IF v \in {0, -1} THEN 1 ELSE 2
OptionalWriteCost(c) == IF c = <<>> THEN 0 ELSE ImmediateWriteCost(c[1])
CoefficientsCost(cs) == FoldLeft(LAMBDA acc, c : acc + OptionalWriteCost(c), 0, cs)

LoadWaveformCost(w) ==
    4 + CoefficientsCost(w.freq) + OptionalWriteCost(w.phase) + CoefficientsCost(w.amp)

SetCarrierCost(frequency) == IF frequency = 0 THEN 16 ELSE IF frequency = 250 THEN 17 ELSE 18

\* oasm_call_cost
CallCost(e) ==
    CASE e.function = "RwgSetCarrier" -> SetCarrierCost(e.args[2])
      [] e.function = "RwgRfSwitch" -> Cardinality(e.args[1])
      [] e.function = "RwgLoadWaveform" -> LoadWaveformCost(e.args[1])
      [] OTHER -> FixedCost(e.function)

Charged(e) == [e EXCEPT !.cost = LargestOf(@, CallCost(e))]
ChargedAll(events) == [i \in DOMAIN events |-> Charged(events[i])]

-----------------------------------------------------------------------------
(* Preloads.                                                               *)

\* A channel at an instant.
Instant(e) == <<e.offset, e.order[1], e.order[2]>>
LoadsAt(events, instant) ==
    {events[i].group : i \in {j \in DOMAIN events : events[j].preload
                                                    /\ Instant(events[j]) = instant}}

\* eliminate_superseded_preloads: of the loads of a channel at one instant only
\* the last group stays ...
EliminateSuperseded(events) ==
    SelectSeq(events, LAMBDA e : e.preload => e.group = Max(LoadsAt(events, Instant(e))))
\* ... and the instant is a fused handoff.
FusedHandoffs(events) ==
    {t \in {Instant(events[i]) : i \in {j \in DOMAIN events : events[j].preload}} :
        Cardinality(LoadsAt(events, t)) > 1}

\* remove_fused_handoff_plays
RemoveFusedPlays(events, fused) ==
    SelectSeq(events, LAMBDA e : e.function = "RwgPlay" => Instant(e) \notin fused)

\* schedule_preloads: the loads that share a group, an instant and an order move
\* together.  Latest deadline first, they end where the next load begins, at
\* the deadline, or where the first call in their way starts.
SameLoad(e, f) == e.preload /\ f.preload /\ e.group = f.group /\ e.offset = f.offset
                  /\ e.order = f.order
PlayOf(e, group, deadline) ==
    e.group = group /\ e.offset = deadline /\ e.function = "RwgPlay"

PreloadHeads(events) ==
    LET Head1(i) ==
          /\ events[i].preload
          /\ \A j \in 1..(i - 1) : ~SameLoad(events[j], events[i])
          /\ \E j \in DOMAIN events : PlayOf(events[j], events[i].group, events[i].offset)
    IN StableSort(SelectSeq([i \in DOMAIN events |-> i], Head1),
                  LAMBDA i : <<events[i].offset>> \o events[i].order)

Unlimited == 2^30            \* u64::MAX

SchedulePreloads(events) ==
    LET Place(acc, head) ==
          LET load == events[head]
              members == {i \in DOMAIN events : SameLoad(events[i], load)}
              cost == MapThenSumSet(LAMBDA i : events[i].cost, members)
              latest == IF load.offset <= acc.available THEN load.offset ELSE acc.available
              start == SaturatingSub(latest, cost)
              InTheWay(e) == /\ ~e.preload
                             /\ ~PlayOf(e, load.group, load.offset)
                             /\ start < e.offset + e.cost
                             /\ start + cost > e.offset
              blocked == {acc.events[i].offset : i \in {j \in DOMAIN events : InTheWay(acc.events[j])}}
              finish == IF blocked = {} THEN latest ELSE Min(blocked)
              placed == SaturatingSub(finish, cost)
          IN [events |-> [i \in DOMAIN events |->
                            IF i \in members THEN [acc.events[i] EXCEPT !.offset = placed]
                            ELSE acc.events[i]],
              available |-> placed]
    IN FoldLeft(Place, [events |-> events, available |-> Unlimited],
                Reverse(PreloadHeads(events))).events

-----------------------------------------------------------------------------
(* Coalescing and laying out.                                              *)

CoalescePriority(f) ==
    CASE f = "RwgInit" -> 0 [] f = "TtlConfig" -> 1 [] f = "RwgPlay" -> 2 [] OTHER -> 3

MinOrder(a, b) == IF LexLess(b, a) THEN b ELSE a

\* Mutant: calls of one instant are merged without their masks.
CoalesceKeepingFirst(events) ==
    LET Mergeable(m, e) == /\ e.function \in {"TtlConfig", "RwgInit", "RwgPlay"}
                           /\ m.offset = e.offset
                           /\ m.function = e.function
        Add(acc, e) == IF acc # <<>> /\ Mergeable(Last(acc), e) THEN acc ELSE Append(acc, e)
    IN FoldLeft(Add, <<>>, StableSort(events, LAMBDA e : <<e.offset, CoalescePriority(e.function)>>))

Coalesce(events) ==
    LET Mergeable(m, e) == /\ e.function \in {"TtlConfig", "RwgInit", "RwgPlay"}
                           /\ m.offset = e.offset
                           /\ m.function = e.function
        Merge(m, e) == [m EXCEPT !.cost = LargestOf(@, e.cost), !.order = MinOrder(@, e.order),
                                 !.args = [k \in DOMAIN @ |-> @[k] \cup e.args[k]]]
        Add(acc, e) == IF acc # <<>> /\ Mergeable(Last(acc), e)
                       THEN Append(Front(acc), Merge(Last(acc), e)) ELSE Append(acc, e)
    IN FoldLeft(Add, <<>>, StableSort(events, LAMBDA e : <<e.offset, CoalescePriority(e.function)>>))

FunctionPriority(f) ==
    CASE f = "LoopBegin" -> 0 [] f = "RwgInit" -> 1 [] f \in {"WaitMaster", "TrigSlave"} -> 3
      [] f = "LoopEnd" -> 4 [] OTHER -> 2

\* One partition of schedule_board_events.
SchedulePartition(events) ==
    LET charged == ChargedAll(events)
    IN Coalesce(RemoveFusedPlays(SchedulePreloads(EliminateSuperseded(charged)),
                                 FusedHandoffs(charged)))

ScheduleBoardEvents(partitions, additional) ==
    StableSort(ChargedAll(FlattenSeq([k \in DOMAIN partitions |-> SchedulePartition(partitions[k])])
                          \o additional),
               LAMBDA e : <<e.offset, FunctionPriority(e.function)>> \o e.order)

\* Mutant: a low write does not take back a high one of the same instant.
MergeTtlHighWins(events, kind) ==
    LET AsCall(e) ==
          [epoch |-> e.epoch, offset |-> e.offset, board |-> e.board, function |-> "TtlSet",
           args |-> <<{e.local}, IF e.high THEN {e.local} ELSE {}, kind>>, cost |-> e.cost,
           order |-> e.order, group |-> e.order[3], preload |-> FALSE, scope |-> e.scope]
        Merge(m, e) ==
          [m EXCEPT !.args = <<@[1] \cup {e.local}, IF e.high THEN @[2] \cup {e.local} ELSE @[2], kind>>,
                    !.cost = LargestOf(@, e.cost), !.order = e.order, !.group = e.order[3]]
        Add(acc, e) == IF acc # <<>> /\ Last(acc).offset = e.offset
                       THEN Append(Front(acc), Merge(Last(acc), e)) ELSE Append(acc, AsCall(e))
    IN FoldLeft(Add, <<>>, StableSort(events, LAMBDA e : <<e.offset, e.local>> \o e.order))

\* The TTL writes of one instant become one ttl_set: the last write of a channel
\* in program order wins, and the call is in a loop only if all of them are.
MergeTtl(events, kind) ==
    LET AsCall(e) ==
          [epoch |-> e.epoch, offset |-> e.offset, board |-> e.board, function |-> "TtlSet",
           args |-> <<{e.local}, IF e.high THEN {e.local} ELSE {}, kind>>, cost |-> e.cost,
           order |-> e.order, group |-> e.order[3], preload |-> FALSE, scope |-> e.scope]
        Merge(m, e) ==
          [m EXCEPT !.args = <<@[1] \cup {e.local},
                               IF e.high THEN @[2] \cup {e.local} ELSE @[2] \ {e.local}, kind>>,
                    !.cost = LargestOf(@, e.cost), !.order = e.order, !.group = e.order[3],
                    !.scope = IF @ = e.scope THEN @ ELSE NoScope]
        Add(acc, e) == IF acc # <<>> /\ Last(acc).offset = e.offset
                       THEN Append(Front(acc), Merge(Last(acc), e)) ELSE Append(acc, AsCall(e))
    IN FoldLeft(Add, <<>>, StableSort(events, LAMBDA e : <<e.offset, e.local>> \o e.order))

\* Mutant: a call is emitted as soon as the board is free.
LayOutEagerly(scheduled, initial, duration) ==
    FoldLeft(LAMBDA acc, e :
               [calls |-> Append(acc.calls, [offset |-> acc.cursor, function |-> e.function,
                                             args |-> e.args, cost |-> e.cost]),
                cursor |-> acc.cursor + e.cost],
             [calls |-> <<>>, cursor |-> initial], scheduled).calls

\* A wait to t when the board is early.
WaitTo(acc, t) ==
    IF t > acc.cursor
    THEN Append(acc.calls, [offset |-> acc.cursor, function |-> "Wait",
                            args |-> <<t - acc.cursor>>, cost |-> t - acc.cursor])
    ELSE acc.calls

\* The call of an event: not before its offset, nor before the board is free.
Placed(acc, e) ==
    LET start == LargestOf(e.offset, acc.cursor)
    IN [calls |-> Append(WaitTo(acc, e.offset), [offset |-> start, function |-> e.function,
                                                 args |-> e.args, cost |-> e.cost]),
        cursor |-> start + e.cost]

\* The cursor walk over the scheduled events, and the wait to the end of the epoch.
LayOut(scheduled, initial, duration) ==
    LET Walk[k \in 0..Len(scheduled)] ==
          IF k = 0 THEN [calls |-> <<>>, cursor |-> initial] ELSE Placed(Walk[k - 1], scheduled[k])
    IN WaitTo(Walk[Len(scheduled)], duration)

Relative(events, origin) == [i \in DOMAIN events |-> [events[i] EXCEPT !.offset = @ - origin]]
PrecedesOrigin(events, origin) == \E i \in DOMAIN events : events[i].offset < origin

\* compile_board; an event that precedes the origin is an error of the caller.
CompileBoard(kind, origin, duration, initial, ttl, direct) ==
    LayOut(ScheduleBoardEvents(<<Relative(direct, origin)>>, MergeTtl(Relative(ttl, origin), kind)),
           initial, duration)
=============================================================================
