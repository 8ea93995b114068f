------------------------------ MODULE CallPlan ------------------------------
(***************************************************************************)
(* compile_oasm_call_plan (oasm_call_plan.rs): a linked Morphism program   *)
(* is timed, walked with an explicit stack into TTL and direct events      *)
(* (event_lowering.rs, atomic_lowering.rs), its hardware loops are charged  *)
(* for what their bodies occupy (loop_lowering.rs), and every epoch is     *)
(* compiled board by board (plan_builder.rs).                              *)
(*                                                                         *)
(* The compiler runs alone; one step is one task popped from the stack, one*)
(* loop region, or one epoch.                                              *)
(***************************************************************************)
EXTENDS MorphismTiming, BoardScheduler

CONSTANTS
    Programs,            \* the linked programs, [nodes, root]
    BoardSeq,            \* the addresses of boards, in the order of a BTreeMap
    Boards,              \* target.boards: address -> [kind, ttlWidth]
    Bindings,            \* environment.channels: channel -> [board, local, kind]
    OpaqueBindings,      \* environment.opaque_calls
    InstructionCost,     \* schema.instruction_cost_cycles of an operation
    OpaqueBoard,         \* schema.board of an opaque operation, or "none"
    VisitBudget          \* MAX_REWIND_LOOP_EXPANDED_NODE_VISITS

ASSUME CallPlanAssumption ==
    /\ IsSequence(BoardSeq) /\ DOMAIN Boards \subseteq Range(BoardSeq)
    /\ VisitBudget \in Nat
    /\ \A op \in Operations : InstructionCost[op] \in Nat
    /\ \A p \in Programs : LinkedProgram(p)

VARIABLES
    program, phase, error,
    timing, syncs,                          \* TimingAnalysis, EpochAnalysis
    pending,                                \* the stack, its top first
    ttl, direct, rwg, pidConfigs,           \* what lowering appends to
    regions, opaque, ordinary, origins,
    nextId, visits,
    adjusted, loopDelta,                    \* apply_loop_timing: regions done, total
    logical,                                \* history: the events as they were lowered
    epochs, cursors                         \* build_call_plan

lowering == <<ttl, direct, rwg, pidConfigs, regions, opaque, ordinary, origins, nextId, visits>>
vars == <<program, phase, error, timing, syncs, pending, lowering, adjusted, loopDelta, logical,
          epochs, cursors>>

Visit(id, start, epoch, channel) ==
    [task |-> "Visit", node |-> id, start |-> start, epoch |-> epoch, channel |-> channel]

Fail(why) == /\ phase' = "error" /\ error' = why
             /\ UNCHANGED <<program, timing, syncs, pending, lowering, adjusted, loopDelta, logical,
                            epochs, cursors>>

-----------------------------------------------------------------------------
(* The call, and the analyses.                                             *)

NoProgram == [nodes |-> <<>>, root |-> 0]

Start ==
    /\ phase = "idle"
    /\ program' \in Programs
    /\ phase' = "analyze"
    /\ UNCHANGED <<error, timing, syncs, pending, lowering, adjusted, loopDelta, logical, epochs, cursors>>

Analyze ==
    /\ phase = "analyze"
    /\ LET t == AnalyzeTiming(program)
           s == AnalyzeEpochs(program)
       IN IF TimingError(t) THEN Fail("timing")
          ELSE IF EpochError(s) THEN Fail("epochs")
          ELSE /\ timing' = t /\ syncs' = s /\ phase' = "lower"
               /\ pending' = <<Visit(program.root, 0, 0, "none")>>
               /\ UNCHANGED <<program, error, lowering, adjusted, loopDelta, logical, epochs, cursors>>

-----------------------------------------------------------------------------
(* The traversal.                                                          *)

Top == pending[1]
Node == program.nodes[Top.node]
Visiting(kind) == /\ phase = "lower" /\ pending # <<>> /\ Top.task = "Visit" /\ Node.kind = kind

\* A task is done; the tasks it pushes are popped in the order given.
Continue(tasks) ==
    /\ pending' = tasks \o Tail(pending)
    /\ UNCHANGED <<program, phase, error, timing, syncs, adjusted, loopDelta, logical, epochs, cursors>>

VisitWait ==
    /\ Visiting("Wait")
    /\ IF Top.start + timing[Top.node].duration < origins[Top.epoch]
       THEN Fail("before Epoch origin")
       ELSE Continue(<<>>) /\ UNCHANGED lowering

\* A channel morphism occupies its board from its start, or the origin, to its
\* frontier.
VisitInstantiate ==
    /\ Visiting("Instantiate")
    /\ LET t == Top
           frontier == timing[t.node].frontier
           from == MaxOf(t.start, origins[t.epoch])
           occupies == frontier > 0 /\ t.start + frontier > from
       IN IF occupies /\ Node.channel \notin DOMAIN Bindings THEN Fail("unbound channel")
          ELSE /\ ordinary' = IF ~occupies THEN ordinary
                              ELSE Append(ordinary, [epoch |-> t.epoch, start |-> from,
                                                     end |-> t.start + frontier,
                                                     board |-> Bindings[Node.channel].board,
                                                     loopGroup |-> NoScope])
               /\ Continue(<<Visit(Node.body, t.start, t.epoch, Node.channel)>>)
               /\ UNCHANGED <<ttl, direct, rwg, pidConfigs, regions, opaque, origins, nextId, visits>>

VisitSerial ==
    /\ Visiting("Serial")
    /\ LET cs == Node.children
           moved == Cursor([i \in DOMAIN cs |-> timing[cs[i]].duration])
           passed == Cursor([i \in DOMAIN cs |-> syncs[cs[i]]])
       IN Continue([i \in DOMAIN cs |->
                      Visit(cs[i], Top.start + moved[i - 1], Top.epoch + passed[i - 1], Top.channel)])
    /\ UNCHANGED lowering

VisitParallel ==
    /\ Visiting("Parallel")
    /\ Continue([i \in DOMAIN Node.children |->
                   Visit(Node.children[i], Top.start, Top.epoch, Top.channel)])
    /\ UNCHANGED lowering

\* expanded_body_visit_count; it stops counting beyond the budget.
BodyVisits(id) ==
    LET VisitsOf(done, n) ==
          1 + CASE n.kind \in {"Serial", "Parallel"} ->
                     Cursor([i \in DOMAIN n.children |-> done[n.children[i]]])[Len(n.children)]
                [] n.kind \in {"Instantiate", "Loop"} -> done[n.body]
                [] OTHER -> 0
        total == Forward(program, VisitsOf)[id]
    IN IF total > VisitBudget THEN VisitBudget + 1 ELSE total

\* A body that rewinds is expanded, within a budget for the whole program.
VisitRewindingLoop ==
    /\ Visiting("Loop")
    /\ timing[Node.body].rewinds
    /\ LET total == visits + Node.count * BodyVisits(Node.body)
       IN IF total > VisitBudget THEN Fail("expansion budget")
          ELSE /\ visits' = total
               /\ Continue([i \in 1..Node.count |->
                              Visit(Node.body, Top.start + (i - 1) * timing[Node.body].duration,
                                    Top.epoch, Top.channel)])
               /\ UNCHANGED <<ttl, direct, rwg, pidConfigs, regions, opaque, ordinary, origins, nextId>>

\* Any other body is lowered once, between the marks FinishLoop reads.
VisitHardwareLoop ==
    /\ Visiting("Loop")
    /\ ~timing[Node.body].rewinds
    /\ IF Top.start < 0 THEN Fail("loop before Epoch origin")
       ELSE Continue(<<Visit(Node.body, Top.start, Top.epoch, Top.channel),
                       [task |-> "FinishLoop", start |-> Top.start, epoch |-> Top.epoch,
                        body |-> timing[Node.body].duration, total |-> timing[Top.node].duration,
                        count |-> Node.count, ttl |-> Len(ttl), direct |-> Len(direct),
                        opaque |-> Len(opaque), ordinary |-> Len(ordinary)]>>)
            /\ UNCHANGED lowering

DirectEvent(epoch, offset, board, function, args, cost, order, group) ==
    [epoch |-> epoch, offset |-> offset, board |-> board, function |-> function, args |-> args,
     cost |-> cost, order |-> order, group |-> group, preload |-> FALSE, scope |-> NoScope]

-----------------------------------------------------------------------------
(* Opaque blocks and their exclusivity.                                    *)

VisitOpaque ==
    /\ Visiting("Opaque")
    /\ LET calls == Node.calls
           end == Top.start + timing[Top.node].duration
       IN IF Top.start < 0 THEN Fail("blackbox before Epoch origin")
          ELSE IF \E i \in DOMAIN calls : calls[i].board \notin DOMAIN Boards
          THEN Fail("blackbox board")
          ELSE /\ nextId' = nextId + 1
               /\ direct' = direct \o [i \in DOMAIN calls |->
                    DirectEvent(Top.epoch, Top.start, calls[i].board, "UserDefinedFunc",
                                <<calls[i].callable>>, timing[Top.node].duration, BOARD, nextId)]
               /\ opaque' = opaque \o [i \in DOMAIN calls |->
                    [epoch |-> Top.epoch, start |-> Top.start, end |-> end,
                     board |-> calls[i].board, group |-> nextId]]
               /\ Continue(<<>>)
               /\ UNCHANGED <<ttl, rwg, pidConfigs, regions, ordinary, origins, visits>>

EventConflicts(interval, start, duration) ==
    /\ interval.start # interval.end
    /\ start < interval.end
    /\ start >= interval.start \/ start + duration > interval.start

Overlap(a, b) == /\ a.epoch = b.epoch /\ a.board = b.board
                 /\ a.start < a.end /\ b.start < b.end
                 /\ a.start < b.end /\ b.start < a.end

\* Mutant: only calls are compared with the intervals.
ExclusivityOfCallsOnly(intervals, ordinaries, ttls, directs) ==
    \E i \in DOMAIN intervals : \E j \in DOMAIN directs :
      LET e == directs[j]
          o == intervals[i]
      IN /\ e.epoch = o.epoch /\ e.board = o.board /\ e.scope # o.group /\ e.group # o.group
         /\ EventConflicts(o, e.offset, e.cost)

\* validate_opaque_exclusivity
ExclusivityViolated(intervals, ordinaries, ttls, directs) ==
    \E i \in DOMAIN intervals :
      LET o == intervals[i]
          Near(e) == e.epoch = o.epoch /\ e.board = o.board /\ e.scope # o.group
      IN \/ \E j \in DOMAIN ordinaries :
              ordinaries[j].loopGroup # o.group /\ Overlap(o, ordinaries[j])
         \/ \E j \in (i + 1)..Len(intervals) :
              intervals[j].group # o.group /\ Overlap(o, intervals[j])
         \/ \E j \in DOMAIN directs :
              LET e == directs[j]
              IN /\ Near(e) /\ e.group # o.group
                 /\ ~(e.function = "UserDefinedFunc" /\ e.cost = 0)
                 /\ EventConflicts(o, e.offset, e.cost)
         \/ \E j \in DOMAIN ttls : Near(ttls[j]) /\ EventConflicts(o, ttls[j].offset, ttls[j].cost)

From(s, length) == SubSeq(s, length + 1, Len(s))
BoardsOf(s) == {s[i].board : i \in DOMAIN s}
InBoardOrder(boards) ==
    LET Up[k \in 0..Len(BoardSeq)] ==
          IF k = 0 THEN <<>>
          ELSE IF BoardSeq[k] \in boards THEN Append(Up[k - 1], BoardSeq[k]) ELSE Up[k - 1]
    IN Up[Len(BoardSeq)]

\* The intervals of the body collapse to the envelope of the loop, its events
\* enter the scope of the loop, that of a loop around it included, and every board
\* with an event gets the markers.  (The fields ttl and direct of a region are
\* history: which events are of its body, whatever becomes of their scope.)
FinishLoop ==
    /\ phase = "lower" /\ pending # <<>> /\ Top.task = "FinishLoop"
    /\ LET t == Top
           bodyOpaque == From(opaque, t.opaque)
           bodyOrdinary == From(ordinary, t.ordinary)
           bodyTtl == From(ttl, t.ttl)
           bodyDirect == From(direct, t.direct)
           opaqueBoards == BoardsOf(SelectSeq(bodyOpaque, LAMBDA o : o.start < o.end))
           boards == BoardsOf(bodyTtl) \cup BoardsOf(bodyDirect)
           end == t.start + t.total
           Scoped(s, from) == [i \in DOMAIN s |-> IF i > from THEN [s[i] EXCEPT !.scope = nextId]
                                                  ELSE s[i]]
           Marker(b, offset, function, args, cost) ==
             [DirectEvent(t.epoch, offset, b, function, args, cost, BOARD, nextId)
                EXCEPT !.scope = nextId]
           Markers(b) == <<Marker(b, t.start, "LoopBegin", <<1, t.count>>, 0),
                           Marker(b, t.start + t.body, "LoopEnd", <<>>, t.total - t.body)>>
           Collapsed(bs, F(_)) == [k \in DOMAIN InBoardOrder(bs) |-> F(InBoardOrder(bs)[k])]
       IN IF ExclusivityViolated(bodyOpaque, bodyOrdinary, bodyTtl, bodyDirect)
          THEN Fail("opaque conflict")
          ELSE IF t.total < t.body THEN Fail("loop shorter than its body")
          ELSE /\ nextId' = nextId + 1
               /\ opaque' = SubSeq(opaque, 1, t.opaque) \o Collapsed(opaqueBoards, LAMBDA b :
                    [epoch |-> t.epoch, start |-> t.start, end |-> end, board |-> b, group |-> nextId])
               /\ ordinary' = SubSeq(ordinary, 1, t.ordinary) \o
                    Collapsed(BoardsOf(bodyOrdinary) \cup boards, LAMBDA b :
                      [epoch |-> t.epoch, start |-> t.start, end |-> end, board |-> b,
                       loopGroup |-> nextId])
               /\ regions' = Append(regions, [epoch |-> t.epoch, start |-> t.start, body |-> t.body,
                                              count |-> t.count, marker |-> nextId,
                                              ttl |-> (t.ttl + 1)..Len(ttl),
                                              direct |-> (t.direct + 1)..Len(direct)])
               /\ ttl' = Scoped(ttl, t.ttl)
               /\ direct' = Scoped(direct, t.direct) \o FlattenSeq(Collapsed(boards, Markers))
               /\ Continue(<<>>)
               /\ UNCHANGED <<rwg, pidConfigs, origins, visits>>

-----------------------------------------------------------------------------
(* Atomic operations.                                                      *)

AtomicAt(ops) == Visiting("Atomic") /\ Node.op \in ops /\ Top.start >= 0

\* The first sync of an epoch is the origin of the next; the master is told to
\* wait for the furthest event of the epoch so far.
GlobalSync ==
    /\ AtomicAt({"GlobalSync"})
    /\ LET e == Top.epoch
           Ends(s) == {s[i].offset + s[i].cost : i \in {j \in DOMAIN s : s[j].epoch = e}}
           ends == Ends(direct) \cup Ends(ttl)
           frontier == IF ends = {} THEN Top.start ELSE Max(ends)
           wait == SaturatingSub(frontier, Top.start) + GLOBAL_SYNC_MARGIN_CYCLES
           known == InBoardOrder(DOMAIN Boards)
       IN IF e + 1 \in DOMAIN origins THEN Fail("second sync of an epoch")
          ELSE /\ origins' = [x \in DOMAIN origins \cup {e + 1} |->
                               IF x = e + 1 THEN Top.start ELSE origins[x]]
               /\ direct' = direct \o [k \in DOMAIN known |->
                    LET master == Boards[known[k]].kind = "Main"
                    IN DirectEvent(e, Top.start, known[k], IF master THEN "TrigSlave" ELSE "WaitMaster",
                                   IF master THEN <<wait>> ELSE <<>>, InstructionCost["GlobalSync"],
                                   BOARD, nextId)]
               /\ nextId' = nextId + 1
               /\ Continue(<<>>)
               /\ UNCHANGED <<ttl, rwg, pidConfigs, regions, opaque, ordinary, visits>>

OpaqueOperation ==
    /\ AtomicAt({"Opaque"})
    /\ IF OpaqueBoard = "none" \/ Node.call \notin OpaqueBindings THEN Fail("opaque binding")
       ELSE /\ direct' = Append(direct, DirectEvent(Top.epoch, Top.start, OpaqueBoard,
                                  "UserDefinedFunc", <<Node.call>>, InstructionCost["Opaque"],
                                  BOARD, nextId))
            /\ nextId' = nextId + 1
            /\ Continue(<<>>)
            /\ UNCHANGED <<ttl, rwg, pidConfigs, regions, opaque, ordinary, origins, visits>>

\* Every other operation runs on the channel its template was instantiated on.
ChannelOps == Operations \ {"GlobalSync", "Opaque"}
KindFor(op) ==
    CASE op \in {"TtlSetHigh", "TtlSetLow", "TtlInitialize"} -> {"Ttl"}
      [] op \in {"RwgInitialize", "RwgLoad", "RwgPlay", "RwgRfOn", "RwgRfOff"} -> {"Rwg"}
      [] op = "RspRfConfig" -> {"Ttl", "Rwg", "Rsp"}       \* its kind is not validated
      [] OTHER -> {"Rsp"}
Binding == Bindings[Top.channel]
OnChannel == /\ Top.channel \in DOMAIN Bindings
             /\ Binding.board \in DOMAIN Boards
             /\ Binding.kind \in KindFor(Node.op)
AtomicRejected ==
    /\ Visiting("Atomic")
    /\ IF Top.start < 0 THEN Fail("before Epoch origin")
       ELSE Node.op \in ChannelOps /\ ~OnChannel /\ Fail("no such channel")

Lowering(ops) == AtomicAt(ops) /\ OnChannel

Call(offset, function, args) ==
    DirectEvent(Top.epoch, offset, Binding.board, function, args, InstructionCost[Node.op],
                ChannelOrder(Binding.kind, Binding.local, nextId), nextId)

Lowered(ttls, directs, rwgState, pid) ==
    /\ ttl' = ttl \o ttls
    /\ direct' = direct \o directs
    /\ rwg' = [rwg EXCEPT ![Top.channel] = rwgState]
    /\ pidConfigs' = [pidConfigs EXCEPT ![Top.channel] = pid]
    /\ nextId' = nextId + 1
    /\ Continue(<<>>)
    /\ UNCHANGED <<regions, opaque, ordinary, origins, visits>>
Rwg == rwg[Top.channel]
Pid == pidConfigs[Top.channel]

TtlSet ==
    /\ Lowering({"TtlSetHigh", "TtlSetLow"})
    /\ IF Binding.local >= Boards[Binding.board].ttlWidth \/ Boards[Binding.board].ttlWidth > 64
       THEN Fail("invalid TTL local id")
       ELSE Lowered(<<[epoch |-> Top.epoch, offset |-> Top.start, board |-> Binding.board,
                       local |-> Binding.local, high |-> Node.op # "TtlSetLow",
                       cost |-> InstructionCost[Node.op],
                       order |-> ChannelOrder(Binding.kind, Binding.local, nextId),
                       scope |-> NoScope]>>, <<>>, Rwg, Pid)

TtlInitialize ==
    /\ Lowering({"TtlInitialize"})
    /\ Lowered(<<>>, <<Call(Top.start, "TtlConfig", <<{Binding.local}, {}>>)>>, Rwg, Pid)

\* A channel state of RwgChannelState; a loaded one holds the transition that
\* the play will make: the state it enters, its snapshot and its stop.
RwgState(state, rfOn, next, snapshot, stop, group) ==
    [state |-> state, rfOn |-> rfOn, next |-> next, snapshot |-> snapshot, stop |-> stop,
     group |-> group]
Uninitialized == RwgState("none", FALSE, "none", <<>>, <<>>, NoScope)
PendingState == {"WaveformsLoaded", "Ramping"}

RwgInitialize ==
    /\ Lowering({"RwgInitialize"})
    /\ Lowered(<<>>, (IF Node.hard THEN <<Call(Top.start, "RwgInit", <<>>)>> ELSE <<>>)
                     \o <<Call(Top.start + timing[Top.node].duration, "RwgSetCarrier",
                               <<Binding.local, Node.carrier>>)>>,
               RwgState("Ready", FALSE, "none", <<>>, <<>>, NoScope), Pid)

Present(c) == c # <<>>
Padded(c, d) == <<c, d, <<>>, <<>>>>
Waveform(sbg, freq, amp, initial, reset, fct) ==
    [sbg |-> sbg, freq |-> freq, amp |-> amp, phase |-> initial, reset |-> reset, fct |-> fct]

\* build_static_waveforms
StaticWaveforms(targets, reset) ==
    [i \in DOMAIN targets |->
       LET t == targets[i]
       IN Waveform(t.sbg, Padded(t.freq, <<>>), Padded(t.amp, <<>>),
                   IF Present(t.phase) THEN t.phase ELSE <<0>>, reset, t.fct)]

\* static_snapshot_from_waveforms: known only when no coefficient but the first
\* is in use.
IsStatic(w) == \A cs \in {w.freq, w.amp} :
                 cs # <<>> /\ Present(cs[1]) /\ \A k \in 2..Len(cs) : cs[k] \in {<<>>, <<0>>}
SnapshotOf(waveforms) ==
    [i \in DOMAIN waveforms |->
       LET w == waveforms[i]
       IN [sbg |-> w.sbg, freq |-> w.freq[1], amp |-> w.amp[1],
           phase |-> IF Present(w.phase) THEN w.phase ELSE <<0>>, fct |-> w.fct]]

\* build_linear_ramp_waveforms; a rate is what the ramp changes in its duration.
Rampable(snapshot, targets) ==
    /\ Len(targets) = Len(snapshot)
    /\ \A i \in DOMAIN targets :
         /\ Present(snapshot[i].sbg) /\ Present(snapshot[i].freq) /\ Present(snapshot[i].amp)
         /\ snapshot[i].fct = targets[i].fct
Reached(current, target) == IF Present(target) THEN target ELSE current
RampWaveforms(snapshot, targets) ==
    LET Coefficients(from, to) == IF from = to THEN Padded(<<>>, <<>>)
                                  ELSE Padded(from, <<to[1] - from[1]>>)
    IN [i \in DOMAIN targets |->
          LET c == snapshot[i]
          IN Waveform(c.sbg, Coefficients(c.freq, Reached(c.freq, targets[i].freq)),
                      Coefficients(c.amp, Reached(c.amp, targets[i].amp)), <<0>>, FALSE, c.fct)]
RampStop(snapshot, targets) ==
    [i \in DOMAIN targets |->
       LET c == snapshot[i]
       IN Waveform(c.sbg, Padded(Reached(c.freq, targets[i].freq), <<0>>),
                   Padded(Reached(c.amp, targets[i].amp), <<0>>), <<0>>, FALSE, c.fct)]
RampEnd(snapshot, targets) ==
    [i \in DOMAIN targets |->
       LET c == snapshot[i]
       IN [sbg |-> c.sbg, freq |-> Reached(c.freq, targets[i].freq),
           amp |-> Reached(c.amp, targets[i].amp), phase |-> <<0>>, fct |-> c.fct]]

\* emit_prepared_rwg_loads
LoadWaveforms(waveforms, next, snapshot, stop) ==
    Lowered(<<>>, [i \in DOMAIN waveforms |->
                     [Call(Top.start, "RwgLoadWaveform", <<waveforms[i]>>) EXCEPT !.preload = TRUE]],
            RwgState("WaveformsLoaded", Rwg.rfOn, next, snapshot, stop, nextId), Pid)

\* The channel is initialized and no transition of it is pending.
Loadable == Rwg.state \in {"Ready", "Active", "ActiveUnknown"}

RwgLoadJson ==
    /\ Lowering({"RwgLoad"}) /\ Node.form = "json"
    /\ IF ~Loadable \/ \E i \in DOMAIN Node.waveforms : ~Present(Node.waveforms[i].sbg)
       THEN Fail("RWG load")
       ELSE LET static == \A i \in DOMAIN Node.waveforms : IsStatic(Node.waveforms[i])
            IN LoadWaveforms(Node.waveforms, IF static THEN "Active" ELSE "ActiveUnknown",
                             IF static THEN SnapshotOf(Node.waveforms) ELSE <<>>, <<>>)

RwgLoadStatic ==
    /\ Lowering({"RwgLoad"}) /\ Node.form = "static"
    /\ IF ~Loadable \/ \E i \in DOMAIN Node.targets : ~Present(Node.targets[i].sbg)
       THEN Fail("RWG set_state")
       ELSE LoadWaveforms(StaticWaveforms(Node.targets, Node.reset), "Active", Node.targets, <<>>)

RwgLoadLinear ==
    /\ Lowering({"RwgLoad"}) /\ Node.form = "linear"
    /\ IF Node.ramp <= 0 \/ Rwg.state # "Active" \/ ~Rampable(Rwg.snapshot, Node.targets)
       THEN Fail("RWG linear_ramp")
       ELSE LoadWaveforms(RampWaveforms(Rwg.snapshot, Node.targets), "Ramping",
                          RampEnd(Rwg.snapshot, Node.targets), RampStop(Rwg.snapshot, Node.targets))

RwgLoadEndpoint ==
    /\ Lowering({"RwgLoad"}) /\ Node.form = "endpoint"
    /\ IF Rwg.state # "Ramping" THEN Fail("RWG ramp endpoint")
       ELSE LoadWaveforms(Rwg.stop, "Active", Rwg.snapshot, <<>>)

\* The play belongs to the group of the load it follows.
RwgPlay ==
    /\ Lowering({"RwgPlay"})
    /\ IF Rwg.state # "WaveformsLoaded" THEN Fail("RWG play")
       ELSE Lowered(<<>>, <<[Call(Top.start, "RwgPlay", <<{Binding.local}, {Binding.local}>>)
                               EXCEPT !.group = Rwg.group, !.order[3] = Rwg.group]>>,
                    [Rwg EXCEPT !.state = Rwg.next], Pid)

RwgRfSwitch ==
    /\ Lowering({"RwgRfOn", "RwgRfOff"})
    /\ LET off == Node.op = "RwgRfOff"
       IN IF Rwg.state \in {"none"} \cup PendingState THEN Fail("RWG RF switch")
          ELSE Lowered(<<>>, <<Call(Top.start, "RwgRfSwitch",
                                    <<{Binding.local}, IF off THEN {Binding.local} ELSE {}>>)>>,
                       IF Rwg.state = "Ready" THEN Rwg ELSE [Rwg EXCEPT !.rfOn = ~off], Pid)

RspInitialize ==
    /\ Lowering({"RspInitialize"})
    /\ Lowered(<<>>, <<Call(Top.start, "RspInit", <<>>),
                       Call(Top.start + timing[Top.node].duration, "RspSetCarrier",
                            <<Binding.local, Node.carrier>>)>>, Rwg, Pid)

RspPidConfig ==
    /\ Lowering({"RspPidConfig"})
    /\ Lowered(<<>>, <<Call(Top.start, "RspPidConfig", <<Node.config>>)>>, Rwg, <<Node.config>>)

\* start and hold take the digital source of the last pid_config, release and
\* relink all of it.
RspPidOperation ==
    /\ Lowering({"RspPidStart", "RspPidHold", "RspPidRelease", "RspPidRelink"})
    /\ LET source == Node.op \in {"RspPidStart", "RspPidHold"}
       IN IF Pid = <<>> \/ (source /\ Pid[1].source < 0) THEN Fail("RSP PID")
          ELSE Lowered(<<>>, <<Call(Top.start, Node.op, IF source THEN <<Pid[1].source>> ELSE Pid)>>,
                       Rwg, Pid)

RspRfConfig ==
    /\ Lowering({"RspRfConfig"})
    /\ Lowered(<<>>, <<Call(Top.start, "RspRfConfig", <<Node.config>>)>>, Rwg, Pid)

\* The whole program is checked once more, loops collapsed to their envelopes.
FinishLowering ==
    /\ phase = "lower" /\ pending = <<>>
    /\ IF ExclusivityViolated(opaque, ordinary, ttl, direct) THEN Fail("opaque conflict")
       ELSE /\ phase' = "loops"
            /\ logical' = [ttl |-> ttl, direct |-> direct, origins |-> origins]
            /\ direct' = ChargedAll(direct)     \* the first loop of build_call_plan
            /\ UNCHANGED <<program, error, timing, syncs, pending, ttl, rwg, pidConfigs, regions,
                           opaque, ordinary, origins, nextId, visits, adjusted, loopDelta, epochs, cursors>>

-----------------------------------------------------------------------------
(* apply_loop_timing, one region at a time in the order they were finished. *)

InScope(e, r) == e.epoch = r.epoch /\ e.scope = r.marker
BodyDirect(r, ds) == SelectSeq(ds, LAMBDA e : InScope(e, r) /\ e.group # r.marker)
BodyTtl(r, ts) == SelectSeq(ts, LAMBDA e : InScope(e, r))

RegionStart(r) ==
    LET begins == SelectSeq(direct, LAMBDA e : e.group = r.marker /\ e.function = "LoopBegin")
    IN IF begins = <<>> THEN r.start ELSE begins[1].offset

\* What is not of the loop but falls into its body waits for the body.
PushedBehind(s, r, start, boards) ==
    [i \in DOMAIN s |->
       IF s[i].epoch = r.epoch /\ s[i].board \in boards /\ s[i].scope # r.marker
          /\ s[i].offset \in start..(start + r.body)
       THEN [s[i] EXCEPT !.offset = start + r.body + 1] ELSE s[i]]

\* The TTL writes of the body, one call per board and instant.
MeasuredTtl(r, ts) ==
    LET body == BodyTtl(r, ts)
        Same(i) == {j \in DOMAIN body : body[j].board = body[i].board /\ body[j].offset = body[i].offset}
        heads == SelectSeq([i \in DOMAIN body |-> i], LAMBDA i : i = Min(Same(i)))
        Earliest(i) == body[CHOOSE j \in Same(i) : \A k \in Same(i) : ~LexLess(body[k].order, body[j].order)]
    IN [k \in DOMAIN heads |->
          DirectEvent(r.epoch, body[heads[k]].offset, body[heads[k]].board, "TtlSet", <<>>, 1,
                      Earliest(heads[k]).order, Earliest(heads[k]).order[3])]

\* Mutant: the calls of the body are taken to fit.
OccupiedBodyLogical(r, start, ds, ts) == r.body

\* The occupancy of the body: each board runs its scheduled calls one after the
\* other, and the slowest board counts.
SlowestBoard(scheduled, start, end) ==
    LET CursorOf(b) == FoldLeft(LAMBDA c, e : IF e.board = b THEN MaxOf(e.offset, c) + e.cost ELSE c,
                                start, scheduled)
    IN IF scheduled = <<>> THEN end ELSE Max({CursorOf(b) : b \in BoardsOf(scheduled)})

OccupiedBody(r, start, ds, ts) ==
    LET Partition(body, boards) ==
          [k \in DOMAIN boards |-> SelectSeq(body, LAMBDA e : e.board = boards[k])]
        Scheduled(body) ==
          ScheduleBoardEvents(Partition(body, InBoardOrder(BoardsOf(body))), MeasuredTtl(r, ts))
    IN MaxOf(SaturatingSub(SlowestBoard(Scheduled(BodyDirect(r, ds)), start, start + r.body), start),
             r.body)

\* Each iteration takes bodyDelta more: the LoopEnd lasts longer, and what comes
\* after the body moves.
Extend(r, start, ds, ts, bodyDelta) ==
    LET end == start + r.body
        delta == bodyDelta * r.count
        Later(e) == e.epoch > r.epoch \/ (e.epoch = r.epoch /\ e.offset > end)
        Shifted(e) == IF Later(e) THEN [e EXCEPT !.offset = @ + delta] ELSE e
        EndOfLoop(e) == e.group = r.marker /\ e.function = "LoopEnd"
    IN IF delta = 0 THEN direct' = ds /\ ttl' = ts /\ UNCHANGED <<origins, loopDelta>>
       ELSE /\ direct' = [i \in DOMAIN ds |->
                   IF EndOfLoop(ds[i]) THEN [ds[i] EXCEPT !.cost = @ + SaturatingSub(delta, bodyDelta)]
                   ELSE Shifted(ds[i])]
            /\ ttl' = [i \in DOMAIN ts |-> Shifted(ts[i])]
            /\ origins' = [e \in DOMAIN origins |->
                             IF origins[e] > end THEN origins[e] + delta ELSE origins[e]]
            /\ loopDelta' = loopDelta + delta

ApplyLoopTiming ==
    /\ phase = "loops" /\ adjusted < Len(regions)
    /\ adjusted' = adjusted + 1
    /\ LET r == regions[adjusted + 1]
           Charge(start, ds, ts) == Extend(r, start, ds, ts, OccupiedBody(r, start, ds, ts) - r.body)
           Push(start, boards) == Charge(start, PushedBehind(direct, r, start, boards),
                                         PushedBehind(ttl, r, start, boards))
       IN Push(RegionStart(r), BoardsOf(BodyDirect(r, direct)) \cup BoardsOf(BodyTtl(r, ttl)))
    /\ UNCHANGED <<program, phase, error, timing, syncs, pending, rwg, pidConfigs, regions, opaque,
                   ordinary, nextId, visits, logical, epochs, cursors>>

FinishLoops ==
    /\ phase = "loops" /\ adjusted = Len(regions)
    /\ phase' = "compile"
    /\ UNCHANGED <<program, error, timing, syncs, pending, lowering, adjusted, loopDelta, logical,
                   epochs, cursors>>

-----------------------------------------------------------------------------
(* build_call_plan, one epoch at a time.                                   *)

SyncCalls == {"WaitMaster", "TrigSlave"}
Addresses == InBoardOrder(BoardsOf(ttl) \cup BoardsOf(direct))
ProgramDuration == timing[program.root].frontier + loopDelta
LastEpoch == syncs[program.root]

OfEpoch(s, epoch, board) == SelectSeq(s, LAMBDA e : e.epoch = epoch /\ e.board = board)

\* The master waits until the last slave listens, and a margin.
SyncFrontier(boards) ==
    LET Arrivals(calls) == {calls[i].offset + (IF calls[i].function = "WaitMaster"
                                               THEN FixedCost("WaitMaster") ELSE 0) :
                              i \in {j \in DOMAIN calls : calls[j].function \in SyncCalls}}
        Furthest1(arrivals) == IF arrivals = {} THEN <<>> ELSE <<Max(arrivals)>>
    IN Furthest1(UNION {Arrivals(boards[b]) : b \in DOMAIN boards})

\* Mutant: the master keeps the wait it was lowered with.
MasterWaitsAsLowered(boards) == boards

MasterWaits(boards) ==
    LET Patched(c, frontier) ==
          IF frontier = <<>> \/ c.function # "TrigSlave" THEN c
          ELSE [c EXCEPT !.args = <<SaturatingSub(frontier[1], c.offset) + GLOBAL_SYNC_MARGIN_CYCLES>>]
        AllPatched(frontier) ==
          [b \in DOMAIN boards |-> [i \in DOMAIN boards[b] |-> Patched(boards[b][i], frontier)]]
    IN AllPatched(SyncFrontier(boards))

\* A board starts the next epoch behind the sync call it ended this one with.
CarriedCursor(calls) ==
    LET synced == SelectSeq(calls, LAMBDA c : c.function \in SyncCalls)
    IN IF synced = <<>> THEN 0 ELSE FixedCost(Last(synced).function)

\* The epoch [origin, end) with what its boards compile to.
AppendEpoch(origin, end, compiled) ==
    /\ epochs' = Append(epochs, [origin |-> origin, end |-> end, boards |-> MasterWaits(compiled)])
    /\ cursors' = [b \in DOMAIN cursors |->
                     IF b \in DOMAIN compiled THEN CarriedCursor(compiled[b]) ELSE 0]
    /\ UNCHANGED <<program, phase, error, timing, syncs, pending, lowering, adjusted, loopDelta, logical>>

CompileEpoch ==
    /\ phase = "compile" /\ Len(epochs) <= LastEpoch
    /\ LET id == Len(epochs)
           end == IF id + 1 \in DOMAIN origins THEN origins[id + 1] ELSE ProgramDuration
       IN IF id \notin DOMAIN origins THEN Fail("epoch has no origin")
          ELSE IF end < origins[id] THEN Fail("epoch end precedes its origin")
          ELSE IF ~(Range(Addresses) \subseteq DOMAIN Boards) THEN Fail("board capabilities")
          ELSE IF \E b \in Range(Addresses), s \in {ttl, direct} :
                    PrecedesOrigin(OfEpoch(s, id, b), origins[id])
          THEN Fail("event precedes its epoch origin")
          ELSE AppendEpoch(origins[id], end,
                 [b \in Range(Addresses) |->
                    CompileBoard(Boards[b].kind, origins[id], end - origins[id], cursors[b],
                                 OfEpoch(ttl, id, b), OfEpoch(direct, id, b))])

Finish ==
    /\ phase = "compile" /\ Len(epochs) = LastEpoch + 1
    /\ phase' = "done"
    /\ UNCHANGED <<program, error, timing, syncs, pending, lowering, adjusted, loopDelta, logical,
                   epochs, cursors>>

-----------------------------------------------------------------------------
Init ==
    /\ program = NoProgram
    /\ phase = "idle" /\ error = "none"
    /\ timing = <<>> /\ syncs = <<>> /\ pending = <<>>
    /\ ttl = <<>> /\ direct = <<>>
    /\ rwg = [c \in DOMAIN Bindings |-> Uninitialized]
    /\ pidConfigs = [c \in DOMAIN Bindings |-> <<>>]
    /\ regions = <<>> /\ opaque = <<>> /\ ordinary = <<>>
    /\ origins = [e \in {0} |-> 0]
    /\ nextId = 0 /\ visits = 0
    /\ adjusted = 0 /\ loopDelta = 0
    /\ logical = [ttl |-> <<>>, direct |-> <<>>, origins |-> origins]
    /\ epochs = <<>> /\ cursors = [b \in Range(BoardSeq) |-> 0]

LowerTtl == TtlSet \/ TtlInitialize
LowerRwg == \/ RwgInitialize \/ RwgLoadJson \/ RwgLoadStatic \/ RwgLoadLinear \/ RwgLoadEndpoint
            \/ RwgPlay \/ RwgRfSwitch
LowerRsp == RspInitialize \/ RspPidConfig \/ RspPidOperation \/ RspRfConfig

Lower ==
    \/ VisitWait \/ VisitInstantiate \/ VisitSerial \/ VisitParallel
    \/ VisitRewindingLoop \/ VisitHardwareLoop \/ FinishLoop
    \/ VisitOpaque \/ AtomicRejected \/ GlobalSync \/ OpaqueOperation
    \/ LowerTtl \/ LowerRwg \/ LowerRsp
    \/ FinishLowering

\* The call has returned its plan or its error; in any other state it can go on.
Returned == phase \in {"done", "error"} /\ UNCHANGED vars

Next == \/ Start \/ Analyze \/ Lower \/ ApplyLoopTiming \/ FinishLoops \/ CompileEpoch \/ Finish
        \/ Returned

Spec == Init /\ [][Next]_vars
=============================================================================
