---------------------- MODULE RuntimeExecutionProofs ----------------------
(***************************************************************************)
(* Proofs about RuntimeExecution for every program, configuration, bound   *)
(* and order of wire and board events.                                     *)
(***************************************************************************)
EXTENDS RuntimeExecution, TLAPS

\* Frames of a loader: there is at least one, the last one bears the launch,
\* and a frame not marked launch_bearing carries no launch word.
LEMMA FrameLayout ==
    ASSUME NEW n \in Nat
    PROVE  /\ FrameCount(n) \in Nat /\ FrameCount(n) >= 1
           /\ LaunchBearing(n, FrameCount(n) - 1)
           /\ \A f \in Nat : ~LaunchBearing(n, f) =>
                 \A w \in FrameWords(n, f) : w < LaunchStart(n)
<1>1. TotalWords(n) = 13 + 3 * n /\ LaunchStart(n) = 7 + 3 * n
  BY DEF TotalWords, LaunchStart, IchDownloadWords, PrologueWords, LaunchWords
<1>2. FrameCount(n) = (14 + 3 * n) \div 2
  BY <1>1 DEF FrameCount
<1>3. 2 * ((14 + 3 * n) \div 2) >= 13 + 3 * n /\ (14 + 3 * n) \div 2 \in Int
  BY SMT
<1>4. QED
  BY <1>1, <1>2, <1>3 DEF LaunchBearing, FrameWords

-----------------------------------------------------------------------------
(* Type correctness. *)

\* The frame dispatch sends next exists, at every position of its loops.
LEMMA FirstFrame ==
    \A i \in 1 .. Len(BoardOrder) : /\ BoardOrder[i] \in Boards
                                    /\ FrameCount(IchLen[BoardOrder[i]]) \in Nat
                                    /\ 0 < FrameCount(IchLen[BoardOrder[i]])
<1> SUFFICES ASSUME NEW i \in 1 .. Len(BoardOrder)
             PROVE  /\ BoardOrder[i] \in Boards
                    /\ FrameCount(IchLen[BoardOrder[i]]) \in Nat
                    /\ 0 < FrameCount(IchLen[BoardOrder[i]])
  OBVIOUS
<1>1. BoardOrder[i] \in Boards /\ IchLen[BoardOrder[i]] \in Nat
  BY ProgramAssumption
<1>2. \A n \in Nat : FrameCount(n) \in Nat /\ FrameCount(n) >= 1
  BY FrameLayout
<1>3. FrameCount(IchLen[BoardOrder[i]]) \in Nat /\ FrameCount(IchLen[BoardOrder[i]]) >= 1
  BY <1>1, <1>2, Zenon
<1>4. QED
  BY <1>1, <1>3

\* A packet for a configured node concerns a board of the program or none.
LEMMA KnownNode ==
    ASSUME TypeOK, NEW p \in PacketType, Known(p)
    PROVE  p.node \in Boards
BY EnvironmentAssumption DEF TypeOK, HostTypeOK, PacketType, Known

\* What the environment sends is a packet.
LEMMA PacketTypes ==
    ASSUME NEW b \in Boards \cup {Stranger}, NEW k \in Nat,
           NEW gen \in {"this", "prior", "other"}
    PROVE  /\ CompletionPacket(b, gen) \in PacketType
           /\ ExceptionAddressPacket(b, k, gen) \in PacketType
           /\ ExceptionPacket(b, k, gen) \in PacketType
           /\ ResultPackets(b, k, gen) \subseteq PacketType
           /\ CompletionPacket(b, gen).node = b
           /\ ExceptionAddressPacket(b, k, gen).node = b
           /\ ExceptionPacket(b, k, gen).node = b
           /\ \A p \in ResultPackets(b, k, gen) : p.node = b
BY DEF CompletionPacket, ExceptionAddressPacket, ExceptionPacket, ResultPackets,
       Packet, PacketType, Words

\* So are unrelated traffic and a frame that does not decode.
LEMMA NoiseTypes == NoisePackets \subseteq PacketType /\ MalformedPacket \in PacketType
BY DEF NoisePackets, MalformedPacket, CompletionPacket, Packet, PacketType, Words

\* A packet sent to the host is queued, dropped or lost.
LEMMA ToHostType ==
    ASSUME TypeOK, NEW p \in PacketType, p.node \in Boards, ToHost(p)
    PROVE  /\ rx' \in Seq(PacketType)
           /\ lost' \in Nat
           /\ missed' \in [Boards -> Nat]
<1>1. rx \in Seq(PacketType) /\ lost \in Nat /\ missed \in [Boards -> Nat]
  BY DEF TypeOK, EnvTypeOK
<1>2. Append(rx, p) \in Seq(PacketType)
  BY <1>1
<1>3. [missed EXCEPT ![p.node] = @ + 1] \in [Boards -> Nat]
  BY <1>1
<1>4. lost + 1 \in Nat
  BY <1>1
<1>5. QED
  BY <1>1, <1>2, <1>3, <1>4 DEF ToHost

\* The types hold when execute_with_transport is called.
LEMMA InitType == Init => TypeOK
<1> SUFFICES ASSUME Init PROVE TypeOK
  OBVIOUS
<1>1. 1 \in 1 .. Len(BoardOrder)
  BY ProgramAssumption
<1>2. HostTypeOK
  BY <1>1, FirstFrame, EnvironmentAssumption DEF Init, HostTypeOK, States, Codes
<1>3. EnvTypeOK
  BY DEF Init, EnvTypeOK
<1>4. QED
  BY <1>2, <1>3 DEF TypeOK

\* The packet monitor takes, and what is left in the socket.
LEMMA ReceiveType ==
    ASSUME TypeOK, Receive
    PROVE  /\ Head(rx) \in PacketType
           /\ rx' \in Seq(PacketType)
           /\ Known(Head(rx)) => Head(rx).node \in Boards
<1>1. rx \in Seq(PacketType) /\ rx # <<>> /\ rx' = Tail(rx)
  BY DEF TypeOK, EnvTypeOK, Receive
<1>2. Head(rx) \in PacketType /\ Tail(rx) \in Seq(PacketType)
  BY <1>1
<1>3. QED
  BY <1>1, <1>2, KnownNode

\* Taking a packet changes neither the board nor the wire side.
LEMMA ReceiveEnvType ==
    ASSUME TypeOK, Receive
    PROVE  EnvTypeOK'
BY ReceiveType DEF Receive, TypeOK, EnvTypeOK, boardVars, wireVars

\* advance_submitted keeps the evidence map's type.
LEMMA AdvanceType ==
    ASSUME TypeOK, NEW b \in Boards, NEW l \in BOOLEAN, AdvanceSubmitted(b, l)
    PROVE  evidence' \in [Boards -> States]
BY DEF AdvanceSubmitted, TypeOK, HostTypeOK, States

\* What accepting a frame adds to the wire of the current board.
LEMMA WireType ==
    ASSUME TypeOK, NEW b \in Boards, PutOnWire(b)
    PROVE  accepted' \in [Boards -> Seq(Nat)]
<1>1. accepted \in [Boards -> Seq(Nat)] /\ frame \in Nat
  BY DEF TypeOK, HostTypeOK, EnvTypeOK
<1>2. Append(accepted[b], frame) \in Seq(Nat)
  BY <1>1
<1>3. QED
  BY <1>1, <1>2 DEF PutOnWire

\* dispatch stands at a board of the program.
LEMMA CurrentType ==
    ASSUME TypeOK
    PROVE  CurrentBoard \in Boards /\ CurrentLaunches \in BOOLEAN
BY FirstFrame DEF TypeOK, HostTypeOK, CurrentBoard, CurrentLaunches, LaunchBearing

\* Each action of the host thread keeps the types.
LEMMA DispatchTypes ==
    ASSUME TypeOK, Dispatch
    PROVE  TypeOK'
<1>1. CurrentBoard \in Boards /\ CurrentLaunches \in BOOLEAN
  BY CurrentType
<1>2. CASE SendOk
  <2>1. evidence' \in [Boards -> States] /\ accepted' \in [Boards -> Seq(Nat)]
    BY <1>1, <1>2, AdvanceType, WireType DEF SendOk
  <2>2. at' \in 1 .. Len(BoardOrder) /\ frame' \in Nat
        /\ frame' < FrameCount(IchLen[BoardOrder[at']])
        /\ pc' \in {"prepare", "open", "dispatch", "monitor", "done"}
    <3>1. at \in 1 .. Len(BoardOrder) /\ frame \in Nat /\ Len(BoardOrder) \in Nat
          /\ frame < FrameCount(IchLen[BoardOrder[at]])
          /\ pc \in {"prepare", "open", "dispatch", "monitor", "done"}
      BY ProgramAssumption DEF TypeOK, HostTypeOK
    <3>2. CASE frame + 1 < FrameCount(IchLen[CurrentBoard])
      BY <1>2, <3>1, <3>2 DEF SendOk, CurrentBoard
    <3>3. CASE ~(frame + 1 < FrameCount(IchLen[CurrentBoard])) /\ at < Len(BoardOrder)
      <4>1. at' = at + 1 /\ frame' = 0 /\ pc' = pc
        BY <1>2, <3>3 DEF SendOk
      <4>2. at + 1 \in 1 .. Len(BoardOrder)
        BY <3>1, <3>3
      <4>3. 0 < FrameCount(IchLen[BoardOrder[at + 1]])
        BY <4>2, FirstFrame
      <4>4. QED
        BY <3>1, <4>1, <4>2, <4>3
    <3>4. CASE ~(frame + 1 < FrameCount(IchLen[CurrentBoard])) /\ ~(at < Len(BoardOrder))
      BY <1>2, <3>1, <3>4 DEF SendOk
    <3>5. QED
      BY <3>2, <3>3, <3>4
  <2>3. rejected' \in 0 .. MaxNotAcceptedRetries
    BY <1>2, EnvironmentAssumption DEF SendOk
  <2>4. HostTypeOK'
    BY <1>2, <2>1, <2>2, <2>3 DEF SendOk, TypeOK, HostTypeOK
  <2>5. EnvTypeOK'
    BY <1>2, <2>1 DEF SendOk, TypeOK, EnvTypeOK, boardVars
  <2>6. QED
    BY <2>4, <2>5 DEF TypeOK
<1>3. CASE SendNotAccepted
  <2>1. HostTypeOK'
    <3>1. UNCHANGED <<config, at, frame, evidence, exceptions,
                      exceptionAddresses, results>>
      BY <1>3 DEF SendNotAccepted
    <3>2. rejected' \in 0 .. MaxNotAcceptedRetries
      BY <1>3, EnvironmentAssumption DEF SendNotAccepted, TypeOK, HostTypeOK
    <3>3. \/ UNCHANGED <<pc, socket, outcome>>
          \/ outcome' = "transport_send_failed" /\ pc' = "done" /\ socket' = "closed"
      BY <1>3 DEF SendNotAccepted, Return
    <3>4. QED
      BY <3>1, <3>2, <3>3 DEF TypeOK, HostTypeOK, Codes
  <2>2. EnvTypeOK'
    BY <1>3 DEF SendNotAccepted, TypeOK, EnvTypeOK, boardVars, wireVars
  <2>3. QED
    BY <2>1, <2>2 DEF TypeOK
<1>4. CASE SendAcceptanceUnknown
  <2>1. evidence' \in [Boards -> States]
    BY <1>1, <1>4, AdvanceType DEF SendAcceptanceUnknown
  <2>2. accepted' \in [Boards -> Seq(Nat)]
    BY <1>1, <1>4, WireType DEF SendAcceptanceUnknown, TypeOK, EnvTypeOK
  <2>3. HostTypeOK'
    <3>1. /\ outcome' = "transport_send_failed" /\ pc' = "done" /\ socket' = "closed"
          /\ UNCHANGED <<config, at, frame, rejected, exceptions,
                         exceptionAddresses, results>>
      BY <1>4 DEF SendAcceptanceUnknown, Return
    <3>2. QED
      BY <2>1, <3>1 DEF TypeOK, HostTypeOK, Codes
  <2>4. EnvTypeOK'
    BY <1>4, <2>2 DEF SendAcceptanceUnknown, TypeOK, EnvTypeOK, boardVars
  <2>5. QED
    BY <2>3, <2>4 DEF TypeOK
<1>5. QED
  BY <1>2, <1>3, <1>4 DEF Dispatch

\* prepare and open keep the types.
LEMMA PreflightTypes ==
    ASSUME TypeOK, Prepare \/ Open
    PROVE  TypeOK'
<1>1. /\ UNCHANGED <<config, at, frame, rejected, evidence, exceptions,
                     exceptionAddresses, results, boardVars, wireVars, rx, clock>>
      /\ pc' \in {"open", "dispatch", "done"}
      /\ socket' \in {socket, "open", "closed"}
      /\ outcome' \in {outcome, "topology_invalid", "transport_open_failed"}
  BY DEF Prepare, Open, Return
<1>2. HostTypeOK'
  BY <1>1 DEF TypeOK, HostTypeOK, Codes
<1>3. EnvTypeOK'
  BY <1>1 DEF TypeOK, EnvTypeOK, boardVars, wireVars
<1>4. QED
  BY <1>2, <1>3 DEF TypeOK

\* monitor's returns without a packet.
LEMMA MonitorReturnTypes ==
    ASSUME TypeOK, MonitorConclude \/ ReceiveNone \/ ReceiveError
    PROVE  TypeOK'
<1>1. /\ UNCHANGED <<config, at, frame, rejected, evidence, exceptions,
                     exceptionAddresses, results, boardVars, wireVars, rx, clock>>
      /\ pc' = "done" /\ socket' = "closed"
      /\ outcome' \in {"success", "device_exception", "completion_timeout",
                        "transport_receive_failed"}
  BY DEF MonitorConclude, ReceiveNone, ReceiveError, Return
<1>2. HostTypeOK'
  BY <1>1 DEF TypeOK, HostTypeOK, Codes
<1>3. EnvTypeOK'
  BY <1>1 DEF TypeOK, EnvTypeOK, boardVars, wireVars
<1>4. QED
  BY <1>2, <1>3 DEF TypeOK

\* apply_frame, with the filters monitor puts before it.
Apply == ApplyIgnored \/ ApplyMalformed \/ ApplyExceptionAddress
         \/ ApplyException \/ ApplyCompletion \/ ApplyResult

\* What every application of a packet does to the rest of the host.
LEMMA ApplyFrameRest ==
    ASSUME Apply
    PROVE  /\ Receive
           /\ UNCHANGED <<config, at, frame, rejected, boardVars, wireVars, clock>>
           /\ \/ UNCHANGED <<pc, socket, outcome>>
              \/ pc' = "done" /\ socket' = "closed" /\ outcome' = "protocol_violation"
<1>1. Receive
  BY DEF Apply, ApplyIgnored, ApplyMalformed, ApplyExceptionAddress,
         ApplyException, ApplyCompletion, ApplyResult
<1>2. Continue \/ Return("protocol_violation")
  BY DEF Apply, ApplyIgnored, ApplyMalformed, ApplyExceptionAddress,
         ApplyException, ApplyCompletion, ApplyResult
<1>3. QED
  BY <1>1, <1>2 DEF Receive, Return, Continue

\* Applying a packet keeps the type of every map apply_frame writes.
LEMMA ApplyTypes ==
    ASSUME TypeOK, Apply
    PROVE  TypeOK'
<1> DEFINE p == Head(rx)
<1>1. Receive /\ EnvTypeOK'
  BY ApplyFrameRest, ReceiveEnvType
<1>2. p \in PacketType /\ (Known(p) => p.node \in Boards)
  BY <1>1, ReceiveType
<1> HIDE DEF p
<1>3. p.word \in Words /\ p.gen \in {"this", "prior", "other"}
  BY <1>2 DEF PacketType
<1>4. evidence' \in [Boards -> States]
  BY DEF Apply, ApplyIgnored, ApplyMalformed, ApplyExceptionAddress,
         ApplyException, ApplyCompletion, ApplyResult, TypeOK, HostTypeOK, States
<1>5. /\ DOMAIN exceptionAddresses' \subseteq Boards
      /\ exceptionAddresses' \in [DOMAIN exceptionAddresses' -> Words]
  <2>1. /\ DOMAIN exceptionAddresses \subseteq Boards
        /\ exceptionAddresses \in [DOMAIN exceptionAddresses -> Words]
    BY DEF TypeOK, HostTypeOK
  <2>2. CASE UNCHANGED exceptionAddresses
    BY <2>1, <2>2
  <2>3. CASE Known(p) /\ exceptionAddresses' = Insert(exceptionAddresses, p.node, p.word)
    <3>1. /\ exceptionAddresses' \in [DOMAIN exceptionAddresses \cup {p.node} -> Words]
          /\ DOMAIN exceptionAddresses' = DOMAIN exceptionAddresses \cup {p.node}
      BY <1>3, <2>1, <2>3 DEF Insert
    <3>2. QED
      BY <1>2, <2>1, <2>3, <3>1
  <2>4. CASE Known(p) /\ exceptionAddresses' = Remove(exceptionAddresses, p.node)
    <3>1. /\ exceptionAddresses' \in [DOMAIN exceptionAddresses \ {p.node} -> Words]
          /\ DOMAIN exceptionAddresses' = DOMAIN exceptionAddresses \ {p.node}
      BY <2>1, <2>4 DEF Remove
    <3>2. QED
      BY <2>1, <3>1
  <2>5. QED
    BY <2>2, <2>3, <2>4
       DEF p, Apply, ApplyIgnored, ApplyMalformed, ApplyExceptionAddress,
           ApplyException, ApplyCompletion, ApplyResult
<1>6. /\ DOMAIN exceptions' \subseteq Boards
      /\ exceptions' \in [DOMAIN exceptions' -> [flags : Words, address : Words]]
  <2>1. /\ DOMAIN exceptions \subseteq Boards
        /\ exceptions \in [DOMAIN exceptions -> [flags : Words, address : Words]]
    BY DEF TypeOK, HostTypeOK
  <2>2. Removed(exceptionAddresses, p.node) \in Words
    BY DEF Removed, None, Words, TypeOK, HostTypeOK
  <2> DEFINE report == [flags |-> p.word, address |-> Removed(exceptionAddresses, p.node)]
  <2>3. report \in [flags : Words, address : Words]
    BY <1>3, <2>2
  <2> HIDE DEF report
  <2>4. CASE UNCHANGED exceptions
    BY <2>1, <2>4
  <2>5. CASE Known(p) /\ exceptions' = Insert(exceptions, p.node, report)
    <3> DEFINE Report == [flags : Words, address : Words]
    <3>1. exceptions \in [DOMAIN exceptions -> Report] /\ report \in Report
      BY <2>1, <2>3
    <3> HIDE DEF Report
    <3>2. /\ exceptions' \in [DOMAIN exceptions \cup {p.node} -> Report]
          /\ DOMAIN exceptions' = DOMAIN exceptions \cup {p.node}
      BY <2>5, <3>1 DEF Insert
    <3>3. /\ DOMAIN exceptions' \subseteq Boards
          /\ exceptions' \in [DOMAIN exceptions' -> Report]
      BY <1>2, <2>1, <2>5, <3>2
    <3>4. QED
      BY <3>3 DEF Report
  <2>6. QED
    BY <2>4, <2>5
       DEF p, report, Apply, ApplyIgnored, ApplyMalformed, ApplyExceptionAddress,
           ApplyException, ApplyCompletion, ApplyResult
<1>7. results' \in [Boards -> Seq([word : Words, gen : {"this", "prior", "other"}])]
  <2> DEFINE R == [word : Words, gen : {"this", "prior", "other"}]
  <2> DEFINE r == [word |-> p.word, gen |-> p.gen]
  <2>1. results \in [Boards -> Seq(R)] /\ r \in R
    BY <1>3 DEF TypeOK, HostTypeOK
  <2> HIDE DEF R, r
  <2>2. CASE UNCHANGED results
    BY <2>1, <2>2 DEF R
  <2>3. CASE Known(p) /\ results' = [results EXCEPT ![p.node] = Append(@, r)]
    <3>1. Append(results[p.node], r) \in Seq(R)
      BY <1>2, <2>1, <2>3
    <3>2. results' \in [Boards -> Seq(R)]
      BY <2>1, <2>3, <3>1
    <3>3. QED
      BY <3>2 DEF R
  <2>4. QED
    BY <2>2, <2>3
       DEF p, r, Apply, ApplyIgnored, ApplyMalformed, ApplyExceptionAddress,
           ApplyException, ApplyCompletion, ApplyResult
<1>8. HostTypeOK'
  BY <1>4, <1>5, <1>6, <1>7, ApplyFrameRest DEF TypeOK, HostTypeOK, Codes
<1>9. QED
  BY <1>1, <1>8 DEF TypeOK

\* The environment leaves the host's variables alone and keeps its own types.
LEMMA BoardTypes ==
    ASSUME TypeOK, NEW b \in Boards, BoardStep(b)
    PROVE  UNCHANGED hostVars /\ EnvTypeOK'
<1> DEFINE BS == {"idle", "prior", "prior_fault", "prior_stopped",
                  "halted", "running", "fault", "stopped"}
<1> DEFINE S == [results : Nat, faults : Nat]
<1>1. /\ board \in [Boards -> BS] /\ sent \in [Boards -> S]
      /\ completed \subseteq Boards /\ lost \in Nat /\ malformed \in Nat
      /\ rx \in Seq(PacketType) /\ accepted \in [Boards -> Seq(Nat)]
      /\ taken \in [Boards -> Nat] /\ missed \in [Boards -> Nat]
      /\ clock \in {"early", "last_millisecond", "expired"}
  BY DEF TypeOK, EnvTypeOK
<1>2. Gen(b) \in {"this", "prior", "other"} /\ b \in Boards \cup {Stranger}
      /\ sent[b].results \in Nat /\ sent[b].faults \in Nat
  BY <1>1 DEF Gen
<1>3. /\ [sent EXCEPT ![b].results = @ + 1] \in [Boards -> S]
      /\ [sent EXCEPT ![b].faults = @ + 1] \in [Boards -> S]
  BY <1>1
<1> DEFINE Rest(q) == /\ rx' \in Seq(PacketType) /\ lost' \in Nat
                      /\ missed' \in [Boards -> Nat]
<1>4. ASSUME NEW q \in PacketType, q.node = b, ToHost(q) PROVE Rest(q)
  BY <1>4, ToHostType
<1>5. CASE TakeFrame(b)
  <2>1. /\ UNCHANGED <<hostVars, sent, completed, missed, accepted, malformed, rx, clock>>
        /\ taken' = [taken EXCEPT ![b] = @ + 1]
        /\ lost' \in {lost, lost + 1}
    BY <1>5 DEF TakeFrame
  <2>2. board' \in [Boards -> BS]
    BY <1>1, <1>5 DEF TakeFrame
  <2>3. taken' \in [Boards -> Nat] /\ lost' \in Nat
    BY <1>1, <2>1
  <2>4. QED
    BY <1>1, <2>1, <2>2, <2>3 DEF EnvTypeOK
<1>6. CASE BoardResult(b)
  <2>1. PICK q \in ResultPackets(b, sent[b].results + 1, Gen(b)) : ToHost(q)
    BY <1>6 DEF BoardResult
  <2>2. sent[b].results + 1 \in Nat
    BY <1>2
  <2>3. q \in PacketType /\ q.node = b
    BY <1>2, <2>1, <2>2, PacketTypes
  <2>4. Rest(q)
    BY <1>4, <2>1, <2>3
  <2>5. /\ UNCHANGED <<hostVars, board, completed, accepted, taken, malformed, clock>>
        /\ sent' \in [Boards -> S]
    BY <1>3, <1>6 DEF BoardResult
  <2>6. QED
    BY <1>1, <2>4, <2>5 DEF EnvTypeOK
<1>7. CASE BoardComplete(b)
  <2> DEFINE q == CompletionPacket(b, Gen(b))
  <2>1. q \in PacketType /\ q.node = b /\ ToHost(q)
    BY <1>2, <1>7, PacketTypes DEF BoardComplete
  <2> HIDE DEF q
  <2>2. Rest(q)
    BY <1>4, <2>1
  <2>3. /\ UNCHANGED <<hostVars, sent, accepted, taken, malformed, clock>>
        /\ completed' \subseteq Boards
    BY <1>1, <1>7 DEF BoardComplete
  <2>4. board' \in [Boards -> BS]
    BY <1>1, <1>7 DEF BoardComplete
  <2>5. QED
    BY <1>1, <2>2, <2>3, <2>4 DEF EnvTypeOK
<1>8. CASE BoardFault(b)
  <2> DEFINE q == ExceptionAddressPacket(b, sent[b].faults + 1, Gen(b))
  <2>0. sent[b].faults + 1 \in Nat
    BY <1>2
  <2>1. q \in PacketType /\ q.node = b /\ ToHost(q)
    BY <1>2, <1>8, <2>0, PacketTypes DEF BoardFault
  <2> HIDE DEF q
  <2>2. Rest(q)
    BY <1>4, <2>1
  <2>3. /\ UNCHANGED <<hostVars, completed, accepted, taken, malformed, clock>>
        /\ sent' \in [Boards -> S]
    BY <1>3, <1>8 DEF BoardFault
  <2>4. board' \in [Boards -> BS]
    BY <1>1, <1>8 DEF BoardFault
  <2>5. QED
    BY <1>1, <2>2, <2>3, <2>4 DEF EnvTypeOK
<1>9. CASE BoardReportException(b)
  <2> DEFINE q == ExceptionPacket(b, sent[b].faults, Gen(b))
  <2>1. q \in PacketType /\ q.node = b /\ ToHost(q)
    BY <1>2, <1>9, PacketTypes DEF BoardReportException
  <2> HIDE DEF q
  <2>2. Rest(q)
    BY <1>4, <2>1
  <2>3. UNCHANGED <<hostVars, sent, completed, accepted, taken, malformed, clock>>
    BY <1>9 DEF BoardReportException
  <2>4. board' \in [Boards -> BS]
    BY <1>1, <1>9 DEF BoardReportException
  <2>5. QED
    BY <1>1, <2>2, <2>3, <2>4 DEF EnvTypeOK
<1>10. QED
  BY <1>5, <1>6, <1>7, <1>8, <1>9 DEF BoardStep

\* So do unrelated traffic and time.
LEMMA EnvironmentTypes ==
    ASSUME TypeOK, Environment
    PROVE  UNCHANGED hostVars /\ EnvTypeOK'
<1>1. CASE \E b \in Boards : BoardStep(b)
  BY <1>1, BoardTypes
<1>2. CASE Noise
  <2>1. PICK q \in NoisePackets : rx' = Append(rx, q)
    BY <1>2 DEF Noise
  <2>2. rx' \in Seq(PacketType)
    BY <2>1, NoiseTypes DEF TypeOK, EnvTypeOK
  <2>3. QED
    BY <1>2, <2>2 DEF Noise, TypeOK, EnvTypeOK, boardVars, wireVars
<1>3. CASE Malform
  <2>1. rx' \in Seq(PacketType)
    BY <1>3, NoiseTypes DEF Malform, TypeOK, EnvTypeOK
  <2>2. QED
    BY <1>3, <2>1 DEF Malform, TypeOK, EnvTypeOK, boardVars
<1>4. CASE Tick
  BY <1>4 DEF Tick, TypeOK, EnvTypeOK, boardVars, wireVars
<1>5. QED
  BY <1>1, <1>2, <1>3, <1>4 DEF Environment

\* HostTypeOK depends on the host's variables only.
LEMMA HostTypeStable ==
    ASSUME HostTypeOK, UNCHANGED hostVars
    PROVE  HostTypeOK'
BY DEF HostTypeOK, hostVars

\* The types are inductive on their own.
LEMMA StepType == TypeOK /\ [Next]_vars => TypeOK'
<1> SUFFICES ASSUME TypeOK, [Next]_vars PROVE TypeOK'
  OBVIOUS
<1>1. CASE Host
  BY <1>1, PreflightTypes, DispatchTypes, MonitorReturnTypes, ApplyTypes
     DEF Host, Monitor, Apply
<1>2. CASE Environment
  BY <1>2, EnvironmentTypes, HostTypeStable DEF TypeOK
<1>3. CASE UNCHANGED vars
  <2>1. UNCHANGED hostVars
    BY <1>3 DEF vars
  <2>2. EnvTypeOK'
    BY <1>3 DEF vars, boardVars, wireVars, TypeOK, EnvTypeOK
  <2>3. QED
    BY <2>1, <2>2, HostTypeStable DEF TypeOK
<1>4. QED
  BY <1>1, <1>2, <1>3 DEF Next, Returned

\* Every variable keeps its type in every run of execute_with_transport: in
\* particular dispatch never leaves a board's frames or the board list.
THEOREM TypeCorrect == Spec => []TypeOK
BY InitType, StepType, PTL DEF Spec

=============================================================================
