-------------------------- MODULE RuntimeExecution --------------------------
(***************************************************************************)
(* The physical execution of one assembled program:                        *)
(* execute_with_transport in rust/catseq-runtime/src/execution.rs, with    *)
(* the raw-socket transport it drives (transport/raw_socket.rs) and, as    *)
(* its environment, the RTMQ boards behind the wire.                       *)
(*                                                                         *)
(* One host thread prepares, opens the socket, dispatches every frame of   *)
(* every board in order, and then monitors the socket until every board    *)
(* is terminal or the deadline passes.  Boards take frames off the wire,   *)
(* run and answer concurrently; frames may be lost in both directions, the *)
(* socket buffer may overflow, strangers share the wire, and a board may   *)
(* still be running the program of an earlier run that timed out.          *)
(*                                                                         *)
(* A received packet keeps the fields apply_frame looks at.  "gen" is a    *)
(* history field: which run's program sent it.  No host action reads it.   *)
(***************************************************************************)
EXTENDS Integers, Sequences, FiniteSets, DownloadLayout

CONSTANTS
    Boards,           \* addresses of program.boards()
    BoardOrder,       \* program.boards() as a sequence
    IchLen,           \* IchLen[b]: words of b's ICH image
    Stranger,         \* a node on the chassis that no configuration names
    Configs,          \* runtime configurations the caller may pass
    IcaAddressSpace,  \* ICA_ADDRESS_SPACE_WORDS
    MaxNotAcceptedRetries,
    PriorBoards,      \* boards that may still run an earlier program
    RxCapacity,       \* socket buffer, in packets
    MaxResults,       \* bound: result frames one board sends
    MaxFaults,        \* bound: exceptions one board raises
    MaxLost,          \* bound: frames lost on the wire
    MaxMalformed,     \* bound: malformed frames addressed to the host
    Noisy             \* whether others use the wire

ASSUME ProgramAssumption ==
    /\ Boards # {}
    /\ BoardOrder \in [1 .. Len(BoardOrder) -> Boards]
    /\ Len(BoardOrder) \in Nat \ {0}
    /\ \A b \in Boards : \E i \in 1 .. Len(BoardOrder) : BoardOrder[i] = b
    /\ \A i, j \in 1 .. Len(BoardOrder) : BoardOrder[i] = BoardOrder[j] => i = j
    /\ IchLen \in [Boards -> Nat \ {0}]
    /\ Stranger \notin Boards

ASSUME EnvironmentAssumption ==
    /\ \A c \in Configs : Stranger \notin c.boards
    /\ MaxNotAcceptedRetries \in Nat
    /\ PriorBoards \subseteq Boards
    /\ {RxCapacity, MaxResults, MaxFaults, MaxLost, MaxMalformed} \subseteq Nat
    /\ Noisy \in BOOLEAN

VARIABLES
    pc,                  \* where execute_with_transport is
    config,              \* LinuxRawEthernetRuntimeConfig: boards, capacity
    at, frame, rejected, \* the loop variables of dispatch
    evidence,            \* BTreeMap<OasmAddress, BoardExecutionState>
    exceptions,          \* BTreeMap<OasmAddress, DeviceExceptionReport>
    exceptionAddresses,  \* BTreeMap<OasmAddress, u32>
    results,             \* BTreeMap<OasmAddress, Vec<u32>>
    socket,              \* the transport's descriptor
    rx,                  \* packets queued in the socket
    outcome,             \* what execute_with_transport returned
    clock,               \* Instant::now() relative to the deadline
    accepted, taken,     \* frames the kernel took; how many left the wire
    board,               \* what each board is doing
    sent,                \* history: result frames and faults of each board
    completed,           \* history: boards that finished this run's program
    missed,              \* history: packets of each board that were not queued
    lost, malformed      \* wire faults so far

hostVars == <<pc, config, at, frame, rejected, evidence, exceptions,
              exceptionAddresses, results, socket, outcome>>
boardVars == <<board, sent, completed, missed>>
wireVars == <<accepted, taken, lost, malformed>>
vars == <<hostVars, boardVars, wireVars, rx, clock>>

States == {"not_dispatched", "loader_submitted", "launch_submitted",
           "succeeded", "device_failed"}

Codes == {"topology_invalid", "transport_open_failed", "transport_send_failed",
          "transport_receive_failed", "completion_timeout", "device_exception",
          "protocol_violation"}

\* The derived order of BoardExecutionState.
Rank(s) == CASE s = "not_dispatched"   -> 0
             [] s = "loader_submitted" -> 1
             [] s = "launch_submitted" -> 2
             [] s = "succeeded"        -> 3
             [] s = "device_failed"    -> 4

IsTerminal(s) == s \in {"succeeded", "device_failed"}

\* ExecutionCertainty of an evidence map.
DeriveCertainty(ev) ==
    IF \A b \in Boards : ev[b] \in {"not_dispatched", "loader_submitted"}
    THEN "not_started"
    ELSE IF \E b \in Boards : ev[b] = "launch_submitted"
         THEN "indeterminate"
         ELSE "fully_observed"

\* BTreeMap: insert, remove, and what remove returns.  None is an address the
\* model's boards never report: faults are numbered from 1.
Insert(map, k, v) == [x \in DOMAIN map \cup {k} |-> IF x = k THEN v ELSE map[x]]
Remove(map, k) == [x \in DOMAIN map \ {k} |-> map[x]]
None == 0
Removed(map, k) == IF k \in DOMAIN map THEN map[k] ELSE None

Packet(class, flag, tag, node, hi, word, gen) ==
    [class |-> class, flag |-> flag, tag |-> tag, node |-> node,
     hi |-> hi, word |-> word, gen |-> gen]

\* What a board's epilogue and program send (assemble_oasm_calls).
CompletionPacket(b, gen) ==
    Packet("frame", "plain", "operation", b, 0, 0, gen)
ExceptionAddressPacket(b, k, gen) ==
    Packet("frame", "download", "zero", b, 16, k, gen)
ExceptionPacket(b, k, gen) ==
    Packet("frame", "download", "zero", b, 0, k, gen)
ResultPackets(b, k, gen) ==
    { Packet("frame", "plain", "node", b, 0, k, gen),
      Packet("frame", "plain", "operation", b, 1, k, gen),
      Packet("frame", "download", "zero", b, 32, k, gen) }

\* Traffic of others: a foreign envelope or reply route, a frame for a node
\* nobody configured, and an operation acknowledgement without data.
NoisePackets ==
    { Packet("foreign", "plain", "zero", Stranger, 0, 0, "other"),
      CompletionPacket(Stranger, "other") }
    \cup { Packet("frame", "plain", "operation", b, 1, 0, "other") : b \in Boards }

MalformedPacket == Packet("malformed", "plain", "zero", Stranger, 0, 0, "other")

-----------------------------------------------------------------------------
Init ==
    /\ pc = "prepare"
    /\ config \in Configs
    /\ at = 1 /\ frame = 0 /\ rejected = 0
    /\ evidence = [b \in Boards |-> "not_dispatched"]
    /\ exceptions = [b \in {} |-> None]
    /\ exceptionAddresses = [b \in {} |-> None]
    /\ results = [b \in Boards |-> <<>>]
    /\ socket = "closed"
    /\ rx = <<>>
    /\ outcome = "running"
    /\ clock = "early"
    /\ accepted = [b \in Boards |-> <<>>]
    /\ taken = [b \in Boards |-> 0]
    /\ board \in [Boards -> {"idle", "prior"}]
    /\ \A b \in Boards \ PriorBoards : board[b] = "idle"
    /\ sent = [b \in Boards |-> [results |-> 0, faults |-> 0]]
    /\ completed = {} /\ missed = [b \in Boards |-> 0]
    /\ lost = 0 /\ malformed = 0

-----------------------------------------------------------------------------
(* The host thread. *)

\* Every exit returns an outcome; one that opened the transport closes it.
Return(code) ==
    /\ outcome' = code
    /\ pc' = "done"
    /\ socket' = "closed"

\* validate_runtime_handoff, then materialize_download_loader of every board.
HandoffValid ==
    /\ config.boards = Boards
    /\ \A b \in Boards : /\ IchLen[b] <= config.capacity[b]
                         /\ IchLen[b] <= IcaAddressSpace

Prepare ==
    /\ pc = "prepare"
    /\ \/ HandoffValid /\ pc' = "open" /\ UNCHANGED <<socket, outcome>>
       \/ ~HandoffValid /\ Return("topology_invalid")
    /\ UNCHANGED <<config, at, frame, rejected, evidence, exceptions,
                   exceptionAddresses, results, boardVars, wireVars, rx, clock>>

Open ==
    /\ pc = "open"
    /\ \/ pc' = "dispatch" /\ socket' = "open" /\ UNCHANGED outcome
       \/ Return("transport_open_failed")
    /\ UNCHANGED <<config, at, frame, rejected, evidence, exceptions,
                   exceptionAddresses, results, boardVars, wireVars, rx, clock>>

CurrentBoard == BoardOrder[at]
CurrentLaunches == LaunchBearing(IchLen[CurrentBoard], frame)

\* advance_submitted: evidence is only ever raised.
AdvanceSubmitted(b, launchBearing) ==
    LET next == IF launchBearing THEN "launch_submitted" ELSE "loader_submitted"
    IN  evidence' = [evidence EXCEPT ![b] = IF Rank(@) < Rank(next) THEN next ELSE @]

\* The kernel took the current frame.
PutOnWire(b) == accepted' = [accepted EXCEPT ![b] = Append(@, frame)]

\* Mutants of SendOk: one frame too many, and a monitor that starts after the
\* first board.
SendOkPastEnd ==
    /\ pc = "dispatch"
    /\ PutOnWire(CurrentBoard)
    /\ AdvanceSubmitted(CurrentBoard, CurrentLaunches)
    /\ rejected' = 0
    /\ IF frame + 1 <= FrameCount(IchLen[CurrentBoard])
       THEN frame' = frame + 1 /\ UNCHANGED <<at, pc>>
       ELSE IF at < Len(BoardOrder)
            THEN at' = at + 1 /\ frame' = 0 /\ UNCHANGED pc
            ELSE pc' = "monitor" /\ UNCHANGED <<at, frame>>
    /\ UNCHANGED <<config, exceptions, exceptionAddresses, results, socket,
                   outcome, boardVars, taken, lost, malformed, rx, clock>>

SendOkFirstBoardOnly ==
    /\ pc = "dispatch"
    /\ PutOnWire(CurrentBoard)
    /\ AdvanceSubmitted(CurrentBoard, CurrentLaunches)
    /\ rejected' = 0
    /\ IF frame + 1 < FrameCount(IchLen[CurrentBoard])
       THEN frame' = frame + 1 /\ UNCHANGED <<at, pc>>
       ELSE pc' = "monitor" /\ UNCHANGED <<at, frame>>
    /\ UNCHANGED <<config, exceptions, exceptionAddresses, results, socket,
                   outcome, boardVars, taken, lost, malformed, rx, clock>>

\* transport.send returned Ok: the next frame, the next board, or the monitor.
SendOk ==
    /\ pc = "dispatch"
    /\ PutOnWire(CurrentBoard)
    /\ AdvanceSubmitted(CurrentBoard, CurrentLaunches)
    /\ rejected' = 0
    /\ IF frame + 1 < FrameCount(IchLen[CurrentBoard])
       THEN frame' = frame + 1 /\ UNCHANGED <<at, pc>>
       ELSE IF at < Len(BoardOrder)
            THEN at' = at + 1 /\ frame' = 0 /\ UNCHANGED pc
            ELSE pc' = "monitor" /\ UNCHANGED <<at, frame>>
    /\ UNCHANGED <<config, exceptions, exceptionAddresses, results, socket,
                   outcome, boardVars, taken, lost, malformed, rx, clock>>

\* SendRejection::NotAccepted: the kernel did not take the frame.
SendNotAccepted ==
    /\ pc = "dispatch"
    /\ \/ /\ rejected < MaxNotAcceptedRetries
          /\ rejected' = rejected + 1
          /\ UNCHANGED <<pc, socket, outcome>>
       \/ /\ ~(rejected < MaxNotAcceptedRetries)
          /\ Return("transport_send_failed")
          /\ UNCHANGED rejected
    /\ UNCHANGED <<config, at, frame, evidence, exceptions, exceptionAddresses,
                   results, boardVars, wireVars, rx, clock>>

\* Mutant of SendAcceptanceUnknown: the frame is retried.
SendAcceptanceUnknownRetried ==
    /\ pc = "dispatch"
    /\ rejected < MaxNotAcceptedRetries
    /\ \/ PutOnWire(CurrentBoard)
       \/ UNCHANGED accepted
    /\ rejected' = rejected + 1
    /\ UNCHANGED <<pc, config, at, frame, evidence, exceptions, socket, outcome,
                   exceptionAddresses, results, boardVars, taken, lost,
                   malformed, rx, clock>>

\* SendRejection::AcceptanceUnknown: an error or a short write, after which
\* the frame may or may not be on the wire.
SendAcceptanceUnknown ==
    /\ pc = "dispatch"
    /\ \/ PutOnWire(CurrentBoard)
       \/ UNCHANGED accepted
    /\ AdvanceSubmitted(CurrentBoard, CurrentLaunches)
    /\ Return("transport_send_failed")
    /\ UNCHANGED <<config, at, frame, rejected, exceptions, exceptionAddresses,
                   results, boardVars, taken, lost, malformed, rx, clock>>

Dispatch == SendOk \/ SendNotAccepted \/ SendAcceptanceUnknown

-----------------------------------------------------------------------------
AllTerminal == \A b \in Boards : IsTerminal(evidence[b])

\* Mutant of MonitorConclude: one terminal board ends the run.
MonitorConcludeAny ==
    /\ pc = "monitor"
    /\ \E b \in Boards : IsTerminal(evidence[b])
    /\ Return(IF DOMAIN exceptions = {} THEN "success" ELSE "device_exception")
    /\ UNCHANGED <<config, at, frame, rejected, evidence, exceptions,
                   exceptionAddresses, results, boardVars, wireVars, rx, clock>>

\* The head of monitor's loop.
MonitorConclude ==
    /\ pc = "monitor"
    /\ AllTerminal
    /\ Return(IF DOMAIN exceptions = {} THEN "success" ELSE "device_exception")
    /\ UNCHANGED <<config, at, frame, rejected, evidence, exceptions,
                   exceptionAddresses, results, boardVars, wireVars, rx, clock>>

\* Mutant of DeadlinePassed: the deadline is looked at only when idle.
DeadlinePassedWhenIdle == clock = "expired" /\ rx = <<>>

\* now >= deadline, checked at the head of every turn of receive's loop.
DeadlinePassed == clock = "expired"

\* receive answers None: the deadline is checked before the socket is polled,
\* and poll, whose timeout is cut to whole milliseconds, finds nothing.
ReceiveNone ==
    /\ pc = "monitor"
    /\ ~AllTerminal
    /\ DeadlinePassed \/ (clock = "last_millisecond" /\ rx = <<>>)
    /\ Return("completion_timeout")
    /\ UNCHANGED <<config, at, frame, rejected, evidence, exceptions,
                   exceptionAddresses, results, boardVars, wireVars, rx, clock>>

ReceiveError ==
    /\ pc = "monitor"
    /\ ~AllTerminal
    /\ ~DeadlinePassed
    /\ Return("transport_receive_failed")
    /\ UNCHANGED <<config, at, frame, rejected, evidence, exceptions,
                   exceptionAddresses, results, boardVars, wireVars, rx, clock>>

\* monitor took the packet at the head of the socket buffer.
Receive ==
    /\ pc = "monitor"
    /\ ~AllTerminal
    /\ ~DeadlinePassed
    /\ rx # <<>>
    /\ rx' = Tail(rx)
    /\ UNCHANGED <<config, at, frame, rejected, boardVars, wireVars, clock>>

Continue == UNCHANGED <<pc, socket, outcome>>

\* board_for_node: only configured nodes have a board.
Known(p) == p.node \in config.boards

\* payload[0] >> 20, where hi is payload[0] >> 16.
Info(p) == p.hi \div 16

IsDownload(p) == p.class = "frame" /\ p.flag = "download"
IsOperation(p) == p.class = "frame" /\ p.flag # "download" /\ p.tag = "operation"
IsData(p) == p.class = "frame" /\ p.flag # "download" /\ p.tag # "operation"
\* Mutant of IsCompletion: any operation frame completes.
IsCompletionAnyOperation(p) == IsOperation(p)

IsCompletion(p) == IsOperation(p) /\ p.word = 0 /\ p.hi = 0

\* Envelopes, routes and nodes of others, and operation frames without data.
ApplyIgnored ==
    /\ Receive
    /\ LET p == Head(rx)
       IN  \/ p.class = "foreign"
           \/ p.class = "frame" /\ ~Known(p)
           \/ IsOperation(p) /\ p.word = 0 /\ p.hi # 0
    /\ Continue
    /\ UNCHANGED <<evidence, exceptions, exceptionAddresses, results>>

\* A frame for the host's reply route that RtlinkFrame::decode refuses.
ApplyMalformed ==
    /\ Receive
    /\ Head(rx).class = "malformed"
    /\ Return("protocol_violation")
    /\ UNCHANGED <<evidence, exceptions, exceptionAddresses, results>>

\* Mutant of ApplyExceptionAddress: the first address is kept.
ApplyExceptionAddressFirst ==
    /\ Receive
    /\ LET p == Head(rx)
       IN  /\ IsDownload(p) /\ Known(p) /\ Info(p) = 1
           /\ \/ /\ IsTerminal(evidence[p.node])
                 /\ Return("protocol_violation")
                 /\ UNCHANGED exceptionAddresses
              \/ /\ ~IsTerminal(evidence[p.node])
                 /\ exceptionAddresses' =
                        IF p.node \in DOMAIN exceptionAddresses THEN exceptionAddresses
                        ELSE Insert(exceptionAddresses, p.node, p.word)
                 /\ Continue
    /\ UNCHANGED <<evidence, exceptions, results>>

ApplyExceptionAddress ==
    /\ Receive
    /\ LET p == Head(rx)
       IN  /\ IsDownload(p) /\ Known(p) /\ Info(p) = 1
           /\ \/ /\ IsTerminal(evidence[p.node])
                 /\ Return("protocol_violation")
                 /\ UNCHANGED exceptionAddresses
              \/ /\ ~IsTerminal(evidence[p.node])
                 /\ exceptionAddresses' = Insert(exceptionAddresses, p.node, p.word)
                 /\ Continue
    /\ UNCHANGED <<evidence, exceptions, results>>

\* Mutant of ApplyException: the report is stored before the check.
ApplyExceptionUnchecked ==
    /\ Receive
    /\ LET p == Head(rx)
       IN  /\ IsDownload(p) /\ Known(p) /\ Info(p) = 0
           /\ exceptions' = Insert(exceptions, p.node,
                  [flags |-> p.word, address |-> Removed(exceptionAddresses, p.node)])
           /\ exceptionAddresses' = Remove(exceptionAddresses, p.node)
           /\ \/ /\ evidence[p.node] = "succeeded"
                 /\ Return("protocol_violation")
                 /\ UNCHANGED evidence
              \/ /\ evidence[p.node] # "succeeded"
                 /\ evidence' = [evidence EXCEPT ![p.node] = "device_failed"]
                 /\ Continue
    /\ UNCHANGED results

ApplyException ==
    /\ Receive
    /\ LET p == Head(rx)
       IN  /\ IsDownload(p) /\ Known(p) /\ Info(p) = 0
           /\ \/ /\ evidence[p.node] = "succeeded"
                 /\ Return("protocol_violation")
                 /\ UNCHANGED <<evidence, exceptions, exceptionAddresses>>
              \/ /\ evidence[p.node] # "succeeded"
                 /\ evidence' = [evidence EXCEPT ![p.node] = "device_failed"]
                 /\ exceptions' = Insert(exceptions, p.node,
                        [flags |-> p.word,
                         address |-> Removed(exceptionAddresses, p.node)])
                 /\ exceptionAddresses' = Remove(exceptionAddresses, p.node)
                 /\ Continue
    /\ UNCHANGED results

\* Mutant of ApplyCompletion: success after device failure is accepted.
ApplyCompletionAfterFailure ==
    /\ Receive
    /\ LET p == Head(rx)
       IN  /\ IsCompletion(p) /\ Known(p)
           /\ p.node \notin DOMAIN exceptionAddresses
           /\ evidence[p.node] # "succeeded"
           /\ evidence' = [evidence EXCEPT ![p.node] = "succeeded"]
           /\ Continue
    /\ UNCHANGED <<exceptions, exceptionAddresses, results>>

ApplyCompletion ==
    /\ Receive
    /\ LET p == Head(rx)
       IN  /\ IsCompletion(p) /\ Known(p)
           /\ \/ /\ \/ p.node \in DOMAIN exceptionAddresses
                    \/ IsTerminal(evidence[p.node])
                 /\ Return("protocol_violation")
                 /\ UNCHANGED evidence
              \/ /\ p.node \notin DOMAIN exceptionAddresses
                 /\ ~IsTerminal(evidence[p.node])
                 /\ evidence' = [evidence EXCEPT ![p.node] = "succeeded"]
                 /\ Continue
    /\ UNCHANGED <<exceptions, exceptionAddresses, results>>

\* Mutant of ApplyResult: Download info words are dropped.
ApplyResultWithoutInfo ==
    /\ Receive
    /\ LET p == Head(rx)
       IN  /\ Known(p)
           /\ \/ IsDownload(p) /\ Info(p) \notin {0, 1}
              \/ IsOperation(p) /\ p.word # 0
              \/ IsData(p)
           /\ results' = IF IsDownload(p) THEN results
                         ELSE [results EXCEPT ![p.node] =
                                  Append(@, [word |-> p.word, gen |-> p.gen])]
           /\ Continue
    /\ UNCHANGED <<evidence, exceptions, exceptionAddresses>>

\* Result words: only frames tagged with the node are refused once the board
\* is terminal; Download info and operation results are not.
ApplyResult ==
    /\ Receive
    /\ LET p == Head(rx)
       IN  /\ Known(p)
           /\ \/ IsDownload(p) /\ Info(p) \notin {0, 1}
              \/ IsOperation(p) /\ p.word # 0
              \/ IsData(p)
           /\ \/ /\ IsData(p) /\ IsTerminal(evidence[p.node])
                 /\ Return("protocol_violation")
                 /\ UNCHANGED results
              \/ /\ ~(IsData(p) /\ IsTerminal(evidence[p.node]))
                 /\ results' = [results EXCEPT ![p.node] =
                        Append(@, [word |-> p.word, gen |-> p.gen])]
                 /\ Continue
    /\ UNCHANGED <<evidence, exceptions, exceptionAddresses>>

Monitor ==
    \/ MonitorConclude \/ ReceiveNone \/ ReceiveError
    \/ ApplyIgnored \/ ApplyMalformed \/ ApplyExceptionAddress
    \/ ApplyException \/ ApplyCompletion \/ ApplyResult

Host == Prepare \/ Open \/ Dispatch \/ Monitor

-----------------------------------------------------------------------------
(* The environment: the boards, the wire, and time. *)

\* A packet reaches the host only while its socket is open; the kernel drops
\* it when the buffer is full, and the wire may lose it.
ToHost(p) ==
    \/ /\ socket = "open" /\ Len(rx) < RxCapacity
       /\ rx' = Append(rx, p)
       /\ UNCHANGED <<lost, missed>>
    \/ /\ socket # "open" \/ Len(rx) >= RxCapacity
       /\ missed' = [missed EXCEPT ![p.node] = @ + 1]
       /\ UNCHANGED <<rx, lost>>
    \/ /\ lost < MaxLost
       /\ lost' = lost + 1
       /\ missed' = [missed EXCEPT ![p.node] = @ + 1]
       /\ UNCHANGED rx

\* The next frame leaves the wire: the first one halts the core, the last one
\* (EXC resume) starts the downloaded image; a lost one has no effect.
TakeFrame(b) ==
    /\ taken[b] < Len(accepted[b])
    /\ taken' = [taken EXCEPT ![b] = @ + 1]
    /\ LET f == accepted[b][taken[b] + 1]
       IN  \/ /\ board' = [board EXCEPT ![b] =
                     IF f = 0 THEN "halted"
                     ELSE IF f = FrameCount(IchLen[b]) - 1 THEN "running" ELSE @]
              /\ UNCHANGED lost
           \/ /\ lost < MaxLost
              /\ lost' = lost + 1
              /\ UNCHANGED board
    /\ UNCHANGED <<hostVars, sent, completed, missed, accepted, malformed, rx, clock>>

Executing(b) == board[b] \in {"running", "prior"}
Gen(b) == IF board[b] \in {"running", "stopped", "fault"} THEN "this" ELSE "prior"

BoardResult(b) ==
    /\ Executing(b)
    /\ sent[b].results < MaxResults
    /\ sent' = [sent EXCEPT ![b].results = @ + 1]
    /\ \E p \in ResultPackets(b, sent[b].results + 1, Gen(b)) : ToHost(p)
    /\ UNCHANGED <<hostVars, board, completed, accepted, taken, malformed, clock>>

\* intf_send(oper=0); nop(2, H)
BoardComplete(b) ==
    /\ Executing(b)
    /\ ToHost(CompletionPacket(b, Gen(b)))
    /\ completed' = IF board[b] = "running" THEN completed \cup {b} ELSE completed
    /\ board' = [board EXCEPT ![b] = IF @ = "running" THEN "stopped" ELSE "prior_stopped"]
    /\ UNCHANGED <<hostVars, sent, accepted, taken, malformed, clock>>

\* The exception handler: intf_send("lnk", info=1), then intf_send("exc",
\* info=0).  An enabled exception channel also interrupts a held core.
BoardFault(b) ==
    /\ board[b] \in {"running", "stopped", "prior"}
    /\ sent[b].faults < MaxFaults
    /\ sent' = [sent EXCEPT ![b].faults = @ + 1]
    /\ ToHost(ExceptionAddressPacket(b, sent[b].faults + 1, Gen(b)))
    /\ board' = [board EXCEPT ![b] = IF @ = "prior" THEN "prior_fault" ELSE "fault"]
    /\ UNCHANGED <<hostVars, completed, accepted, taken, malformed, clock>>

BoardReportException(b) ==
    /\ board[b] \in {"fault", "prior_fault"}
    /\ ToHost(ExceptionPacket(b, sent[b].faults, Gen(b)))
    /\ board' = [board EXCEPT ![b] = IF @ = "fault" THEN "stopped" ELSE "prior_stopped"]
    /\ UNCHANGED <<hostVars, sent, completed, accepted, taken, malformed, clock>>

BoardStep(b) ==
    TakeFrame(b) \/ BoardResult(b) \/ BoardComplete(b) \/ BoardFault(b)
    \/ BoardReportException(b)

\* Unrelated traffic can go on forever.
Noise ==
    /\ Noisy
    /\ socket = "open" /\ Len(rx) < RxCapacity
    /\ \E p \in NoisePackets : rx' = Append(rx, p)
    /\ UNCHANGED <<hostVars, boardVars, wireVars, clock>>

Malform ==
    /\ malformed < MaxMalformed
    /\ socket = "open" /\ Len(rx) < RxCapacity
    /\ malformed' = malformed + 1
    /\ rx' = Append(rx, MalformedPacket)
    /\ UNCHANGED <<hostVars, boardVars, accepted, taken, lost, clock>>

\* The deadline is fixed after prepare and before open.
Tick ==
    /\ pc # "prepare"
    /\ \/ clock = "early" /\ clock' = "last_millisecond"
       \/ clock = "last_millisecond" /\ clock' = "expired"
    /\ UNCHANGED <<hostVars, boardVars, wireVars, rx>>

\* Followed until the host thread returns: what the boards do afterwards is
\* the "prior" of the next run.
Environment ==
    /\ pc # "done"
    /\ (\E b \in Boards : BoardStep(b)) \/ Noise \/ Malform \/ Tick

\* The thread returned; nothing is owed any more.
Returned == pc = "done" /\ UNCHANGED vars

Next == Host \/ Environment \/ Returned

Spec == Init /\ [][Next]_vars

\* The host thread runs and time passes; the wire and the boards owe nothing.
Fairness == WF_vars(Host) /\ WF_vars(Tick)

FairSpec == Spec /\ Fairness

-----------------------------------------------------------------------------
(* Properties. *)

Words == Nat
PacketType ==
    [class : {"frame", "foreign", "malformed"}, flag : {"download", "plain"},
     tag : {"operation", "node", "zero"}, node : Boards \cup {Stranger},
     hi : Nat, word : Words, gen : {"this", "prior", "other"}]

HostTypeOK ==
    /\ pc \in {"prepare", "open", "dispatch", "monitor", "done"}
    /\ config \in Configs
    /\ at \in 1 .. Len(BoardOrder)
    /\ frame \in Nat /\ frame < FrameCount(IchLen[BoardOrder[at]])
    /\ rejected \in 0 .. MaxNotAcceptedRetries
    /\ evidence \in [Boards -> States]
    /\ DOMAIN exceptions \subseteq Boards
    /\ exceptions \in [DOMAIN exceptions -> [flags : Words, address : Words]]
    /\ DOMAIN exceptionAddresses \subseteq Boards
    /\ exceptionAddresses \in [DOMAIN exceptionAddresses -> Words]
    /\ results \in [Boards -> Seq([word : Words, gen : {"this", "prior", "other"}])]
    /\ socket \in {"open", "closed"}
    /\ outcome \in Codes \cup {"running", "success"}

EnvTypeOK ==
    /\ rx \in Seq(PacketType)
    /\ clock \in {"early", "last_millisecond", "expired"}
    /\ accepted \in [Boards -> Seq(Nat)]
    /\ taken \in [Boards -> Nat]
    /\ board \in [Boards -> {"idle", "prior", "prior_fault", "prior_stopped",
                             "halted", "running", "fault", "stopped"}]
    /\ sent \in [Boards -> [results : Nat, faults : Nat]]
    /\ completed \subseteq Boards
    /\ missed \in [Boards -> Nat]
    /\ lost \in Nat /\ malformed \in Nat

\* Every variable of the host thread and of its environment has its type; in
\* particular dispatch never indexes past a board's frames or the boards.
TypeOK == HostTypeOK /\ EnvTypeOK

\* "Per-board monotonic physical-execution evidence" (execution.rs:23): no
\* step of apply_frame or advance_submitted lowers it, and a terminal state
\* is final even when a contradictory report follows.
EvidenceMonotone ==
    [][\A b \in Boards : /\ Rank(evidence'[b]) >= Rank(evidence[b])
                         /\ IsTerminal(evidence[b]) => evidence'[b] = evidence[b]]_vars

\* RuntimeFailure::validate and RuntimeSuccess::validate hold of what is
\* returned: a board has an exception report exactly when its evidence is
\* device_failed, success means every board succeeded, device_exception that
\* every board is terminal, and a timeout that some board is not.
OutcomeAgreesWithEvidence ==
    /\ DOMAIN exceptions = {b \in Boards : evidence[b] = "device_failed"}
    /\ outcome = "success" => \A b \in Boards : evidence[b] = "succeeded"
    /\ outcome = "device_exception" =>
          AllTerminal /\ \E b \in Boards : evidence[b] = "device_failed"
    /\ outcome \in {"completion_timeout", "transport_receive_failed"} => ~AllTerminal

\* derive_certainty never looks for boards that were not launched: that
\* fully_observed means a terminal report of every board rests on dispatch
\* finishing before the first report is applied.
FullyObservedIsComplete ==
    DeriveCertainty(evidence) = "fully_observed" => AllTerminal

\* A failure with certainty not_started left no launch word on the wire of any
\* board: launch_bearing must mark the frame in which the launch section
\* begins at either parity, and an uncertain send must count as a send.
NotStartedMeansNoLaunch ==
    DeriveCertainty(evidence) = "not_started" =>
        \A b \in Boards : \A i \in DOMAIN accepted[b] :
            \A w \in FrameWords(IchLen[b], accepted[b][i]) : w < LaunchStart(IchLen[b])

\* dispatch puts each frame of a board on the wire at most once and in order,
\* whatever was rejected or left uncertain before ("this exact frame is never
\* retried", execution.rs:411).
FramesOnceInOrder ==
    \A b \in Boards : \A i \in DOMAIN accepted[b] : accepted[b][i] = i - 1

\* "A successful run proves every board reached a trusted success terminal"
\* (execution.rs:194): each board ran the program of this run to its end.
SuccessIsTrusted == outcome = "success" => completed = Boards

\* A success carries, in order, every result of each board whose packets all
\* reached the socket: the completion that ends the run cannot overtake them.
ResultsComplete ==
    outcome = "success" =>
        \A b \in Boards : missed[b] = 0 =>
            /\ Len(results[b]) = sent[b].results
            /\ \A i \in DOMAIN results[b] : results[b][i].word = i

\* A device-exception report pairs the flags of a fault with the address of
\* the same fault, or with none, even when one packet of the board is lost:
\* exception_addresses keeps the latest address and forgets it when used.
AddressCorrelated ==
    \A b \in DOMAIN exceptions :
        missed[b] <= 1 => exceptions[b].address \in {None, exceptions[b].flags}

\* execute_with_transport returns, with the socket closed, however much
\* unrelated traffic arrives and whichever boards stay silent.
Termination == <>(pc = "done" /\ socket = "closed")

\* The run keeps the contract of RunContract.
Verdict ==
    CASE outcome \in {"topology_invalid", "transport_open_failed"} -> "refused"
      [] outcome = "transport_send_failed" -> "dispatch_failed"
      [] outcome \in {"completion_timeout", "transport_receive_failed",
                      "protocol_violation"} -> "unresolved"
      [] OTHER -> outcome

Contract == INSTANCE RunContract WITH verdict <- Verdict

\* Every step of the run is a step its caller's contract allows, or invisible.
ImplementsContract == Contract!ContractSpec

-----------------------------------------------------------------------------
(* The inductive strengthening behind the proofs. *)

\* What dispatch has recorded of board number i when it stands at `at`.
DispatchRecord(i) ==
    LET b == BoardOrder[i]
    IN  /\ i < at => evidence[b] = "launch_submitted"
        /\ i > at => evidence[b] = "not_dispatched" /\ accepted[b] = <<>>
        /\ i = at =>
              /\ Len(accepted[b]) = frame
              /\ evidence[b] = IF frame = 0 THEN "not_dispatched"
                               ELSE IF LaunchBearing(IchLen[b], frame - 1)
                                    THEN "launch_submitted"
                                    ELSE "loader_submitted"

DispatchInv ==
    /\ pc \in {"prepare", "open"} => at = 1 /\ frame = 0
    /\ pc \in {"prepare", "open", "dispatch"} =>
          \A i \in 1 .. Len(BoardOrder) : DispatchRecord(i)
    /\ pc = "monitor" => \A b \in Boards : Rank(evidence[b]) >= 2

\* Terminal evidence appears only once every board has been launched.
ShapeInv ==
    \/ \A b \in Boards : ~IsTerminal(evidence[b])
    \/ \A b \in Boards : Rank(evidence[b]) >= 2

\* The host's record covers every launch-bearing frame on the wire.
LaunchInv ==
    \A b \in Boards : \A i \in DOMAIN accepted[b] :
        LaunchBearing(IchLen[b], accepted[b][i]) => Rank(evidence[b]) >= 2

RunningInv == outcome = "running" <=> pc # "done"

EvidenceInv ==
    DispatchInv /\ ShapeInv /\ LaunchInv /\ RunningInv
    /\ FramesOnceInOrder /\ OutcomeAgreesWithEvidence
=============================================================================
