--------------------------- MODULE EvidenceProofs ---------------------------
(***************************************************************************)
(* The evidence execute_with_transport reports, for every program,         *)
(* configuration, bound and order of wire and board events.  EvidenceInv   *)
(* (RuntimeExecution) is inductive relative to TypeOK; what the caller may *)
(* conclude from a certainty or an outcome follows from it.                *)
(***************************************************************************)
EXTENDS RuntimeExecutionProofs

\* The order of BoardExecutionState, state by state.
LEMMA RankFacts ==
    \A s \in States :
        /\ Rank(s) \in Int
        /\ Rank(s) >= 2 <=> s \in {"launch_submitted", "succeeded", "device_failed"}
        /\ Rank(s) < 2 <=> s \in {"not_dispatched", "loader_submitted"}
        /\ Rank(s) < 1 <=> s = "not_dispatched"
        /\ Rank("launch_submitted") = 2 /\ Rank("loader_submitted") = 1
        /\ IsTerminal(s) <=> s \in {"succeeded", "device_failed"}
BY DEF States, Rank, IsTerminal

\* launch_bearing frames are a suffix of a board's frames.
LEMMA LaunchSuffix ==
    ASSUME NEW n \in Nat, NEW f \in Nat
    PROVE  /\ LaunchBearing(n, f) \in BOOLEAN
           /\ f > 0 /\ LaunchBearing(n, f - 1) => LaunchBearing(n, f)
           /\ f < FrameCount(n) /\ ~(f + 1 < FrameCount(n)) => LaunchBearing(n, f)
<1>1. LaunchStart(n) = 7 + 3 * n
  BY DEF LaunchStart, IchDownloadWords, PrologueWords
<1>2. FrameCount(n) \in Nat /\ LaunchBearing(n, FrameCount(n) - 1)
  BY FrameLayout
<1>3. ASSUME f < FrameCount(n), ~(f + 1 < FrameCount(n)) PROVE f = FrameCount(n) - 1
  BY <1>2, <1>3
<1>4. QED
  BY <1>1, <1>2, <1>3 DEF LaunchBearing

\* The invariant reads the host's variables and the wire's record only.
LEMMA EvidenceStable ==
    ASSUME EvidenceInv, UNCHANGED <<hostVars, accepted>>
    PROVE  EvidenceInv'
<1>1. UNCHANGED <<pc, at, frame, evidence, exceptions, outcome, accepted>>
  BY DEF hostVars
<1>2. DispatchInv'
  BY <1>1 DEF EvidenceInv, DispatchInv, DispatchRecord
<1>3. ShapeInv' /\ RunningInv'
  BY <1>1 DEF EvidenceInv, ShapeInv, RunningInv
<1>4. LaunchInv' /\ FramesOnceInOrder'
  BY <1>1 DEF EvidenceInv, LaunchInv, FramesOnceInOrder
<1>5. OutcomeAgreesWithEvidence'
  BY <1>1 DEF EvidenceInv, OutcomeAgreesWithEvidence, AllTerminal
<1>6. QED
  BY <1>2, <1>3, <1>4, <1>5 DEF EvidenceInv

\* It holds when execute_with_transport is called.
LEMMA InitEvidence == Init => EvidenceInv
<1> SUFFICES ASSUME Init PROVE EvidenceInv
  OBVIOUS
<1>1. /\ pc = "prepare" /\ at = 1 /\ frame = 0 /\ outcome = "running"
      /\ evidence = [b \in Boards |-> "not_dispatched"]
      /\ accepted = [b \in Boards |-> <<>>]
      /\ exceptions = [b \in {} |-> None]
  BY DEF Init
<1>2. \A i \in 1 .. Len(BoardOrder) : BoardOrder[i] \in Boards
  BY ProgramAssumption
<1>3. DispatchInv
  BY <1>1, <1>2 DEF DispatchInv, DispatchRecord
<1>4. ShapeInv /\ RunningInv
  BY <1>1 DEF ShapeInv, RunningInv, IsTerminal
<1>5. LaunchInv /\ FramesOnceInOrder
  BY <1>1 DEF LaunchInv, FramesOnceInOrder
<1>6. OutcomeAgreesWithEvidence
  BY <1>1 DEF OutcomeAgreesWithEvidence
<1>7. QED
  BY <1>3, <1>4, <1>5, <1>6 DEF EvidenceInv

\* A return that leaves evidence and reports alone needs only its own claim.
LEMMA ReturnEvidence ==
    ASSUME EvidenceInv, UNCHANGED <<evidence, exceptions, accepted>>, pc' = "done",
           outcome' # "running",
           outcome' = "success" => \A b \in Boards : evidence[b] = "succeeded",
           outcome' = "device_exception" =>
               AllTerminal /\ \E b \in Boards : evidence[b] = "device_failed",
           outcome' \in {"completion_timeout", "transport_receive_failed"} => ~AllTerminal
    PROVE  EvidenceInv'
<1>1. DispatchInv' /\ RunningInv'
  BY DEF DispatchInv, RunningInv
<1>2. ShapeInv'
  BY DEF EvidenceInv, ShapeInv
<1>3. LaunchInv' /\ FramesOnceInOrder'
  BY DEF EvidenceInv, LaunchInv, FramesOnceInOrder
<1>4. OutcomeAgreesWithEvidence'
  BY DEF EvidenceInv, OutcomeAgreesWithEvidence, AllTerminal
<1>5. QED
  BY <1>1, <1>2, <1>3, <1>4 DEF EvidenceInv

\* prepare and open.
LEMMA PreflightEvidence ==
    ASSUME EvidenceInv, Prepare \/ Open
    PROVE  EvidenceInv'
<1>1. UNCHANGED <<at, frame, evidence, exceptions, accepted>>
  BY DEF Prepare, Open, wireVars
<1>2. CASE pc' = "done"
  <2>1. outcome' \in {"topology_invalid", "transport_open_failed"}
    BY <1>2 DEF Prepare, Open, Return
  <2>2. QED
    BY <1>1, <1>2, <2>1, ReturnEvidence
<1>3. CASE pc' # "done"
  <2>1. /\ pc \in {"prepare", "open"} /\ pc' \in {"open", "dispatch"}
        /\ outcome' = outcome
    BY <1>3 DEF Prepare, Open, Return
  <2>2. DispatchInv'
    BY <1>1, <2>1 DEF EvidenceInv, DispatchInv, DispatchRecord
  <2>3. ShapeInv' /\ RunningInv'
    BY <1>1, <2>1 DEF EvidenceInv, ShapeInv, RunningInv
  <2>4. LaunchInv' /\ FramesOnceInOrder'
    BY <1>1 DEF EvidenceInv, LaunchInv, FramesOnceInOrder
  <2>5. OutcomeAgreesWithEvidence'
    BY <1>1, <2>1 DEF EvidenceInv, OutcomeAgreesWithEvidence, AllTerminal
  <2>6. QED
    BY <2>2, <2>3, <2>4, <2>5 DEF EvidenceInv
<1>4. QED
  BY <1>2, <1>3

\* monitor's returns without a packet.
LEMMA MonitorReturnEvidence ==
    ASSUME TypeOK, EvidenceInv, MonitorConclude \/ ReceiveNone \/ ReceiveError
    PROVE  EvidenceInv'
<1>1. UNCHANGED <<evidence, exceptions, accepted>> /\ pc' = "done"
  BY DEF MonitorConclude, ReceiveNone, ReceiveError, Return, wireVars
<1>2. DOMAIN exceptions = {b \in Boards : evidence[b] = "device_failed"}
  BY DEF EvidenceInv, OutcomeAgreesWithEvidence
<1>3. CASE MonitorConclude
  <2>1. AllTerminal /\ outcome' = IF DOMAIN exceptions = {} THEN "success"
                                  ELSE "device_exception"
    BY <1>3 DEF MonitorConclude, Return
  <2>2. CASE DOMAIN exceptions = {}
    <3>1. \A b \in Boards : evidence[b] = "succeeded"
      BY <1>2, <2>1, <2>2 DEF AllTerminal, IsTerminal
    <3>2. outcome' = "success"
      BY <2>1, <2>2
    <3>3. QED
      BY <1>1, <3>1, <3>2, ReturnEvidence
  <2>3. CASE DOMAIN exceptions # {}
    <3>1. \E b \in Boards : evidence[b] = "device_failed"
      BY <1>2, <2>3
    <3>2. outcome' = "device_exception"
      BY <2>1, <2>3
    <3>3. QED
      BY <1>1, <2>1, <3>1, <3>2, ReturnEvidence
  <2>4. QED
    BY <2>2, <2>3
<1>4. CASE ReceiveNone \/ ReceiveError
  <2>1. ~AllTerminal /\ outcome' \in {"completion_timeout", "transport_receive_failed"}
    BY <1>4 DEF ReceiveNone, ReceiveError, Return
  <2>2. QED
    BY <1>1, <2>1, ReturnEvidence
<1>5. QED
  BY <1>3, <1>4

-----------------------------------------------------------------------------
(* Dispatch. *)

\* While frames are sent no board is terminal and no report exists; what
\* dispatch recorded of a board follows from its place in the order.
LEMMA DispatchState ==
    ASSUME TypeOK, EvidenceInv, pc = "dispatch"
    PROVE  /\ \A b \in Boards : evidence[b] \in
                 {"not_dispatched", "loader_submitted", "launch_submitted"}
           /\ DOMAIN exceptions = {}
           /\ outcome = "running"
<1>1. \A i \in 1 .. Len(BoardOrder) : DispatchRecord(i)
  BY DEF EvidenceInv, DispatchInv
<1>2. ASSUME NEW b \in Boards
      PROVE  evidence[b] \in {"not_dispatched", "loader_submitted", "launch_submitted"}
  <2>1. PICK i \in 1 .. Len(BoardOrder) : BoardOrder[i] = b
    BY ProgramAssumption
  <2>2. DispatchRecord(i)
    BY <1>1
  <2>3. i \in Int /\ at \in Int
    BY <2>1, ProgramAssumption DEF TypeOK, HostTypeOK
  <2>4. i < at \/ i > at \/ i = at
    BY <2>3
  <2>5. QED
    BY <2>1, <2>2, <2>4 DEF DispatchRecord
<1>3. DOMAIN exceptions = {}
  BY <1>2 DEF EvidenceInv, OutcomeAgreesWithEvidence
<1>4. QED
  BY <1>2, <1>3 DEF EvidenceInv, RunningInv

\* advance_submitted records exactly the frame just sent: an earlier
\* launch-bearing frame of the board implies this one is too.
LEMMA AdvanceRecords ==
    ASSUME TypeOK, EvidenceInv, pc = "dispatch",
           AdvanceSubmitted(CurrentBoard, CurrentLaunches)
    PROVE  /\ evidence' = [evidence EXCEPT ![CurrentBoard] =
                 IF CurrentLaunches THEN "launch_submitted" ELSE "loader_submitted"]
           /\ \A b \in Boards : Rank(evidence[b]) >= 2 => Rank(evidence'[b]) >= 2
<1> DEFINE c == CurrentBoard
<1> DEFINE L == CurrentLaunches
<1>1. c \in Boards /\ L \in BOOLEAN /\ at \in 1 .. Len(BoardOrder)
      /\ evidence \in [Boards -> States]
  BY CurrentType DEF TypeOK, HostTypeOK
<1>2. DispatchRecord(at) /\ BoardOrder[at] = c
  BY <1>1 DEF EvidenceInv, DispatchInv, CurrentBoard
<1>3. IchLen[c] \in Nat /\ frame \in Nat
  BY <1>1, ProgramAssumption DEF TypeOK, HostTypeOK
<1>4. frame > 0 /\ LaunchBearing(IchLen[c], frame - 1) => L
  BY <1>3, LaunchSuffix DEF CurrentLaunches
<1>5. evidence[c] = IF frame = 0 THEN "not_dispatched"
                    ELSE IF LaunchBearing(IchLen[c], frame - 1)
                         THEN "launch_submitted" ELSE "loader_submitted"
  BY <1>2 DEF DispatchRecord
<1>6. frame = 0 \/ frame > 0
  BY <1>3
<1>7. /\ evidence[c] \in {"not_dispatched", "loader_submitted", "launch_submitted"}
      /\ evidence[c] = "launch_submitted" => L
  BY <1>4, <1>5, <1>6
<1> DEFINE nx == IF L THEN "launch_submitted" ELSE "loader_submitted"
<1>8. evidence' = [evidence EXCEPT ![c] = IF Rank(@) < Rank(nx) THEN nx ELSE @]
  BY DEF AdvanceSubmitted
<1> HIDE DEF c, L
<1>9. (IF Rank(evidence[c]) < Rank(nx) THEN nx ELSE evidence[c]) = nx
  BY <1>1, <1>7 DEF Rank
<1>10. evidence' = [evidence EXCEPT ![c] = nx]
  BY <1>8, <1>9
<1>11. ASSUME NEW b \in Boards, Rank(evidence[b]) >= 2 PROVE Rank(evidence'[b]) >= 2
  <2>1. CASE b = c
    <3>1. evidence[c] = "launch_submitted"
      BY <1>7, <1>11, <2>1 DEF Rank
    <3>2. evidence'[c] = "launch_submitted"
      BY <1>1, <1>7, <1>10, <3>1
    <3>3. QED
      BY <2>1, <3>2, <3>1, <1>11
  <2>2. CASE b # c
    BY <1>1, <1>10, <1>11, <2>2
  <2>3. QED
    BY <2>1, <2>2
<1>12. QED
  BY <1>10, <1>11 DEF c, L

\* A frame that was taken by the kernel is the next of its board.
LEMMA WireRecords ==
    ASSUME TypeOK, EvidenceInv, pc = "dispatch", PutOnWire(CurrentBoard),
           AdvanceSubmitted(CurrentBoard, CurrentLaunches)
    PROVE  /\ accepted' = [accepted EXCEPT ![CurrentBoard] =
                              Append(accepted[CurrentBoard], frame)]
           /\ Len(accepted[CurrentBoard]) = frame
           /\ FramesOnceInOrder' /\ LaunchInv'
<1> DEFINE c == CurrentBoard
<1>1. /\ c \in Boards /\ CurrentLaunches \in BOOLEAN /\ at \in 1 .. Len(BoardOrder)
      /\ accepted \in [Boards -> Seq(Nat)] /\ frame \in Nat
      /\ evidence \in [Boards -> States]
  BY CurrentType DEF TypeOK, HostTypeOK, EnvTypeOK
<1>2. DispatchRecord(at) /\ BoardOrder[at] = c
  BY <1>1 DEF EvidenceInv, DispatchInv, CurrentBoard
<1>3. Len(accepted[c]) = frame
  BY <1>2 DEF DispatchRecord
<1>4. accepted' = [accepted EXCEPT ![c] = Append(accepted[c], frame)]
  BY <1>1 DEF PutOnWire
<1>5. /\ evidence' = [evidence EXCEPT ![c] =
                 IF CurrentLaunches THEN "launch_submitted" ELSE "loader_submitted"]
      /\ \A b \in Boards : Rank(evidence[b]) >= 2 => Rank(evidence'[b]) >= 2
  BY AdvanceRecords
<1>6. CurrentLaunches = LaunchBearing(IchLen[c], frame)
  BY DEF CurrentLaunches
<1> HIDE DEF c
<1>7. ASSUME NEW b \in Boards, NEW i \in DOMAIN accepted'[b]
      PROVE  /\ accepted'[b][i] = i - 1
             /\ LaunchBearing(IchLen[b], accepted'[b][i]) => Rank(evidence'[b]) >= 2
  <2>1. CASE b # c \/ i \in DOMAIN accepted[b]
    <3>1. i \in DOMAIN accepted[b] /\ accepted'[b][i] = accepted[b][i]
      BY <1>1, <1>4, <1>7, <2>1
    <3>2. /\ accepted[b][i] = i - 1
          /\ LaunchBearing(IchLen[b], accepted[b][i]) => Rank(evidence[b]) >= 2
      BY <3>1 DEF EvidenceInv, FramesOnceInOrder, LaunchInv
    <3>3. QED
      BY <1>5, <3>1, <3>2
  <2>2. CASE b = c /\ i \notin DOMAIN accepted[b]
    <3>1. accepted'[b] = Append(accepted[c], frame) /\ accepted[c] \in Seq(Nat)
      BY <1>1, <1>4, <2>2
    <3>2. i = frame + 1 /\ accepted'[b][i] = frame
      BY <1>1, <1>3, <1>7, <2>2, <3>1
    <3>3. ASSUME CurrentLaunches PROVE Rank(evidence'[b]) >= 2
      <4>1. evidence'[b] = "launch_submitted"
        BY <1>1, <1>5, <2>2, <3>3
      <4>2. QED
        BY <4>1 DEF Rank
    <3>4. QED
      BY <1>1, <1>6, <2>2, <3>2, <3>3
  <2>3. QED
    BY <2>1, <2>2
<1>8. QED
  BY <1>3, <1>4, <1>7 DEF c, FramesOnceInOrder, LaunchInv

\* A frame was taken: the record of every board moves with the position.
LEMMA SendOkEvidence ==
    ASSUME TypeOK, EvidenceInv, SendOk
    PROVE  EvidenceInv'
<1> DEFINE c == CurrentBoard
<1> DEFINE L == CurrentLaunches
<1> DEFINE nx == IF L THEN "launch_submitted" ELSE "loader_submitted"
<1>1. /\ pc = "dispatch" /\ PutOnWire(c) /\ AdvanceSubmitted(c, L)
      /\ UNCHANGED <<exceptions, outcome>>
  BY DEF SendOk
<1>2. /\ c \in Boards /\ at \in 1 .. Len(BoardOrder) /\ frame \in Nat /\ c = BoardOrder[at]
      /\ accepted \in [Boards -> Seq(Nat)] /\ evidence \in [Boards -> States]
      /\ frame < FrameCount(IchLen[c]) /\ IchLen[c] \in Nat /\ Len(BoardOrder) \in Nat
  BY CurrentType, ProgramAssumption DEF TypeOK, HostTypeOK, EnvTypeOK, CurrentBoard
<1>3. /\ accepted' = [accepted EXCEPT ![c] = Append(accepted[c], frame)]
      /\ Len(accepted[c]) = frame
      /\ FramesOnceInOrder' /\ LaunchInv'
  BY <1>1, WireRecords
<1>4. evidence' = [evidence EXCEPT ![c] = nx]
  BY <1>1, AdvanceRecords
<1>5. /\ \A b \in Boards : evidence[b] \in
             {"not_dispatched", "loader_submitted", "launch_submitted"}
      /\ DOMAIN exceptions = {} /\ outcome = "running"
  BY <1>1, DispatchState
<1>6. \A i \in 1 .. Len(BoardOrder) : DispatchRecord(i)
  BY <1>1 DEF EvidenceInv, DispatchInv
<1>7. L = LaunchBearing(IchLen[c], frame)
  BY DEF CurrentLaunches
<1>8. ~(frame + 1 < FrameCount(IchLen[c])) => L
  BY <1>2, <1>7, LaunchSuffix
<1> HIDE DEF c, L
<1>9. \A b \in Boards : evidence'[b] \in
             {"not_dispatched", "loader_submitted", "launch_submitted"}
  BY <1>2, <1>4, <1>5
<1>10. ASSUME NEW i \in 1 .. Len(BoardOrder), i # at
       PROVE  /\ BoardOrder[i] \in Boards
              /\ evidence'[BoardOrder[i]] = evidence[BoardOrder[i]]
              /\ accepted'[BoardOrder[i]] = accepted[BoardOrder[i]]
  <2>1. BoardOrder[i] \in Boards /\ BoardOrder[i] # c
    BY <1>2, <1>10, ProgramAssumption
  <2>2. QED
    BY <1>2, <1>3, <1>4, <2>1
<1>11. evidence'[c] = nx /\ accepted'[c] = Append(accepted[c], frame)
       /\ Len(accepted'[c]) = frame + 1
  BY <1>2, <1>3, <1>4
<1>12. ASSUME NEW i \in 1 .. Len(BoardOrder)
       PROVE  /\ i < at => evidence'[BoardOrder[i]] = "launch_submitted"
              /\ i > at => evidence'[BoardOrder[i]] = "not_dispatched"
                           /\ accepted'[BoardOrder[i]] = <<>>
  <2>1. DispatchRecord(i) /\ i \in Int /\ at \in Int
    BY <1>2, <1>6
  <2>2. CASE i # at
    BY <1>10, <2>1, <2>2 DEF DispatchRecord
  <2>3. CASE i = at
    BY <2>1, <2>3
  <2>4. QED
    BY <2>2, <2>3
<1>13. DispatchInv'
  <2>1. CASE frame + 1 < FrameCount(IchLen[c])
    <3>1. frame' = frame + 1 /\ UNCHANGED <<at, pc>>
      BY <2>1 DEF SendOk, c
    <3>2. ASSUME NEW i \in 1 .. Len(BoardOrder) PROVE DispatchRecord(i)'
      <4>1. CASE i = at
        <5>1. /\ Len(accepted'[BoardOrder[i]]) = frame + 1
              /\ evidence'[BoardOrder[i]] = nx
          BY <1>2, <1>11, <4>1
        <5>2. frame + 1 # 0 /\ (frame + 1) - 1 = frame
          BY <1>2
        <5>3. LaunchBearing(IchLen[BoardOrder[i]], (frame + 1) - 1) = L
          BY <1>2, <1>7, <4>1, <5>2
        <5>4. at \in Int
          BY <1>2
        <5>5. QED
          BY <3>1, <4>1, <5>1, <5>2, <5>3, <5>4 DEF DispatchRecord
      <4>2. CASE i # at
        BY <1>12, <3>1, <4>2 DEF DispatchRecord
      <4>3. QED
        BY <4>1, <4>2
    <3>3. QED
      BY <1>1, <3>1, <3>2 DEF DispatchInv
  <2>2. CASE ~(frame + 1 < FrameCount(IchLen[c])) /\ at < Len(BoardOrder)
    <3>1. frame' = 0 /\ at' = at + 1 /\ pc' = pc
      BY <2>2 DEF SendOk, c
    <3>2. ASSUME NEW i \in 1 .. Len(BoardOrder) PROVE DispatchRecord(i)'
      <4>1. i \in Int /\ at \in Int
        BY <1>2
      <4>2. CASE i < at
        <5>1. evidence'[BoardOrder[i]] = "launch_submitted" /\ i < at + 1
          BY <1>12, <4>1, <4>2
        <5>2. QED
          BY <3>1, <4>1, <5>1 DEF DispatchRecord
      <4>3. CASE i = at
        <5>1. evidence'[BoardOrder[i]] = "launch_submitted" /\ i < at + 1
          BY <1>2, <1>8, <1>11, <2>2, <4>1, <4>3
        <5>2. QED
          BY <3>1, <4>1, <5>1 DEF DispatchRecord
      <4>4. CASE i > at
        <5>1. /\ evidence'[BoardOrder[i]] = "not_dispatched"
              /\ accepted'[BoardOrder[i]] = <<>> /\ ~(i < at + 1)
          BY <1>12, <4>1, <4>4
        <5>2. Len(accepted'[BoardOrder[i]]) = 0
          BY <5>1
        <5>3. QED
          BY <3>1, <5>1, <5>2 DEF DispatchRecord
      <4>5. QED
        BY <4>1, <4>2, <4>3, <4>4
    <3>3. QED
      BY <1>1, <3>1, <3>2 DEF DispatchInv
  <2>3. CASE ~(frame + 1 < FrameCount(IchLen[c])) /\ ~(at < Len(BoardOrder))
    <3>1. pc' = "monitor"
      BY <2>3 DEF SendOk, c
    <3>2. ASSUME NEW b \in Boards PROVE Rank(evidence'[b]) >= 2
      <4>1. PICK i \in 1 .. Len(BoardOrder) : BoardOrder[i] = b
        BY ProgramAssumption
      <4>2. i < at \/ i = at
        BY <1>2, <2>3, <4>1
      <4>3. evidence'[b] = "launch_submitted"
        BY <1>2, <1>8, <1>11, <1>12, <2>3, <4>1, <4>2
      <4>4. QED
        BY <4>3 DEF Rank
    <3>3. QED
      BY <3>1, <3>2 DEF DispatchInv
  <2>4. QED
    BY <2>1, <2>2, <2>3
<1>14. ShapeInv'
  BY <1>9 DEF ShapeInv, IsTerminal
<1>15. RunningInv'
  <2>1. pc' \in {"dispatch", "monitor"}
    BY <1>1 DEF SendOk
  <2>2. QED
    BY <1>1, <1>5, <2>1 DEF RunningInv
<1>16. OutcomeAgreesWithEvidence'
  BY <1>1, <1>5, <1>9 DEF OutcomeAgreesWithEvidence
<1>17. QED
  BY <1>3, <1>13, <1>14, <1>15, <1>16 DEF EvidenceInv

\* The kernel refused the frame: nothing was recorded.
LEMMA SendNotAcceptedEvidence ==
    ASSUME EvidenceInv, SendNotAccepted
    PROVE  EvidenceInv'
<1>1. UNCHANGED <<at, frame, evidence, exceptions, accepted>>
  BY DEF SendNotAccepted, wireVars
<1>2. CASE pc' = "done" /\ outcome' = "transport_send_failed"
  BY <1>1, <1>2, ReturnEvidence
<1>3. CASE UNCHANGED <<pc, outcome>>
  <2>1. DispatchInv'
    BY <1>1, <1>3 DEF EvidenceInv, DispatchInv, DispatchRecord
  <2>2. ShapeInv' /\ RunningInv'
    BY <1>1, <1>3 DEF EvidenceInv, ShapeInv, RunningInv
  <2>3. LaunchInv' /\ FramesOnceInOrder'
    BY <1>1 DEF EvidenceInv, LaunchInv, FramesOnceInOrder
  <2>4. OutcomeAgreesWithEvidence'
    BY <1>1, <1>3 DEF EvidenceInv, OutcomeAgreesWithEvidence, AllTerminal
  <2>5. QED
    BY <2>1, <2>2, <2>3, <2>4 DEF EvidenceInv
<1>4. QED
  BY <1>2, <1>3 DEF SendNotAccepted, Return

\* The frame may be on the wire: its board is recorded as if it were.
LEMMA SendAcceptanceUnknownEvidence ==
    ASSUME TypeOK, EvidenceInv, SendAcceptanceUnknown
    PROVE  EvidenceInv'
<1>1. /\ pc = "dispatch" /\ AdvanceSubmitted(CurrentBoard, CurrentLaunches)
      /\ PutOnWire(CurrentBoard) \/ UNCHANGED accepted
      /\ pc' = "done" /\ outcome' = "transport_send_failed"
      /\ UNCHANGED exceptions
  BY DEF SendAcceptanceUnknown, Return
<1>2. CurrentBoard \in Boards /\ evidence \in [Boards -> States]
  BY CurrentType DEF TypeOK, HostTypeOK
<1>3. /\ evidence' = [evidence EXCEPT ![CurrentBoard] =
                 IF CurrentLaunches THEN "launch_submitted" ELSE "loader_submitted"]
      /\ \A b \in Boards : Rank(evidence[b]) >= 2 => Rank(evidence'[b]) >= 2
  BY <1>1, AdvanceRecords
<1>4. /\ \A b \in Boards : evidence[b] \in
             {"not_dispatched", "loader_submitted", "launch_submitted"}
      /\ DOMAIN exceptions = {}
  BY <1>1, DispatchState
<1>5. \A b \in Boards : evidence'[b] \in
             {"not_dispatched", "loader_submitted", "launch_submitted"}
  BY <1>2, <1>3, <1>4
<1>6. FramesOnceInOrder' /\ LaunchInv'
  <2>1. CASE PutOnWire(CurrentBoard)
    BY <1>1, <2>1, WireRecords
  <2>2. CASE UNCHANGED accepted
    BY <1>3, <2>2 DEF EvidenceInv, FramesOnceInOrder, LaunchInv
  <2>3. QED
    BY <1>1, <2>1, <2>2
<1>7. DispatchInv' /\ RunningInv'
  BY <1>1 DEF DispatchInv, RunningInv
<1>8. ShapeInv'
  BY <1>5 DEF ShapeInv, IsTerminal
<1>9. OutcomeAgreesWithEvidence'
  BY <1>1, <1>4, <1>5 DEF OutcomeAgreesWithEvidence
<1>10. QED
  BY <1>6, <1>7, <1>8, <1>9 DEF EvidenceInv

-----------------------------------------------------------------------------
(* Monitoring. *)

\* A packet changes no evidence, or makes a board terminal: succeeded only
\* if it was not terminal, device_failed only if it had not succeeded.
LEMMA ApplyCases ==
    ASSUME TypeOK, Apply
    PROVE  \/ UNCHANGED <<evidence, exceptions>>
           \/ /\ UNCHANGED <<pc, outcome>>
              /\ \E b \in Boards :
                    \/ /\ ~IsTerminal(evidence[b])
                       /\ evidence' = [evidence EXCEPT ![b] = "succeeded"]
                       /\ exceptions' = exceptions
                    \/ /\ evidence[b] # "succeeded"
                       /\ evidence' = [evidence EXCEPT ![b] = "device_failed"]
                       /\ DOMAIN exceptions' = DOMAIN exceptions \cup {b}
<1> DEFINE p == Head(rx)
<1>1. Receive
  BY ApplyFrameRest
<1>2. Known(p) => p.node \in Boards
  BY <1>1, ReceiveType
<1> HIDE DEF p
<1>3. CASE ApplyIgnored \/ ApplyMalformed \/ ApplyExceptionAddress \/ ApplyResult
  BY <1>3 DEF ApplyIgnored, ApplyMalformed, ApplyExceptionAddress, ApplyResult
<1>4. CASE ApplyException
  <2>1. Known(p) /\ p.node \in Boards
    BY <1>2, <1>4 DEF ApplyException, p
  <2>2. \/ UNCHANGED <<evidence, exceptions>>
        \/ /\ evidence[p.node] # "succeeded"
           /\ evidence' = [evidence EXCEPT ![p.node] = "device_failed"]
           /\ exceptions' = Insert(exceptions, p.node,
                  [flags |-> p.word, address |-> Removed(exceptionAddresses, p.node)])
           /\ UNCHANGED <<pc, outcome>>
    BY <1>4 DEF ApplyException, Continue, p
  <2>3. ASSUME NEW r, exceptions' = Insert(exceptions, p.node, r)
        PROVE  DOMAIN exceptions' = DOMAIN exceptions \cup {p.node}
    BY <2>3 DEF Insert
  <2>4. QED
    BY <2>1, <2>2, <2>3
<1>5. CASE ApplyCompletion
  <2>1. Known(p) /\ p.node \in Boards
    BY <1>2, <1>5 DEF ApplyCompletion, p
  <2>2. \/ UNCHANGED <<evidence, exceptions>>
        \/ /\ ~IsTerminal(evidence[p.node])
           /\ evidence' = [evidence EXCEPT ![p.node] = "succeeded"]
           /\ UNCHANGED <<exceptions, pc, outcome>>
    BY <1>5 DEF ApplyCompletion, Continue, p
  <2>3. QED
    BY <2>1, <2>2
<1>6. QED
  BY <1>3, <1>4, <1>5 DEF Apply

\* Reports are applied only after every board was launched.
LEMMA ApplyEvidence ==
    ASSUME TypeOK, EvidenceInv, Apply
    PROVE  EvidenceInv'
<1>1. /\ pc = "monitor" /\ UNCHANGED <<at, frame, accepted>>
      /\ \/ UNCHANGED <<pc, outcome>>
         \/ pc' = "done" /\ outcome' = "protocol_violation"
  BY ApplyFrameRest DEF Receive, wireVars
<1>2. /\ evidence \in [Boards -> States] /\ evidence' \in [Boards -> States]
      /\ \A b \in Boards : Rank(evidence[b]) >= 2
      /\ outcome = "running"
  BY <1>1, ApplyTypes DEF TypeOK, HostTypeOK, EvidenceInv, DispatchInv, RunningInv
<1>3. CASE UNCHANGED <<evidence, exceptions>>
  <2>1. CASE pc' = "done" /\ outcome' = "protocol_violation"
    BY <1>1, <1>3, <2>1, ReturnEvidence
  <2>2. CASE UNCHANGED <<pc, outcome>>
    <3>1. DispatchInv'
      BY <1>1, <1>3, <2>2 DEF EvidenceInv, DispatchInv
    <3>2. ShapeInv' /\ RunningInv'
      BY <1>3, <2>2 DEF EvidenceInv, ShapeInv, RunningInv
    <3>3. LaunchInv' /\ FramesOnceInOrder'
      BY <1>1, <1>3 DEF EvidenceInv, LaunchInv, FramesOnceInOrder
    <3>4. OutcomeAgreesWithEvidence'
      BY <1>3, <2>2 DEF EvidenceInv, OutcomeAgreesWithEvidence, AllTerminal
    <3>5. QED
      BY <3>1, <3>2, <3>3, <3>4 DEF EvidenceInv
  <2>3. QED
    BY <1>1, <2>1, <2>2
<1>4. CASE UNCHANGED <<pc, outcome>> /\ ~UNCHANGED <<evidence, exceptions>>
  <2>1. PICK b \in Boards :
           \/ /\ ~IsTerminal(evidence[b])
              /\ evidence' = [evidence EXCEPT ![b] = "succeeded"]
              /\ exceptions' = exceptions
           \/ /\ evidence[b] # "succeeded"
              /\ evidence' = [evidence EXCEPT ![b] = "device_failed"]
              /\ DOMAIN exceptions' = DOMAIN exceptions \cup {b}
    BY <1>4, ApplyCases
  <2>2. ASSUME NEW x \in Boards PROVE Rank(evidence'[x]) >= 2
    <3>1. CASE x = b
      <4>1. evidence'[x] \in {"succeeded", "device_failed"}
        BY <1>2, <2>1, <3>1
      <4>2. QED
        BY <4>1 DEF Rank
    <3>2. CASE x # b
      <4>1. evidence'[x] = evidence[x]
        BY <1>2, <2>1, <3>2
      <4>2. QED
        BY <1>2, <4>1
    <3>3. QED
      BY <3>1, <3>2
  <2>3. DispatchInv' /\ ShapeInv' /\ RunningInv'
    BY <1>1, <1>2, <1>4, <2>2 DEF DispatchInv, ShapeInv, RunningInv
  <2>4. LaunchInv' /\ FramesOnceInOrder'
    BY <1>1, <2>2 DEF EvidenceInv, LaunchInv, FramesOnceInOrder
  <2>5. DOMAIN exceptions' = {x \in Boards : evidence'[x] = "device_failed"}
    <3>1. DOMAIN exceptions = {x \in Boards : evidence[x] = "device_failed"}
      BY DEF EvidenceInv, OutcomeAgreesWithEvidence
    <3>2. QED
      BY <1>2, <2>1, <3>1 DEF IsTerminal
  <2>6. OutcomeAgreesWithEvidence'
    BY <1>2, <1>4, <2>5 DEF OutcomeAgreesWithEvidence
  <2>7. QED
    BY <2>3, <2>4, <2>6 DEF EvidenceInv
<1>5. QED
  BY <1>3, <1>4, ApplyCases

\* No step of the boards, the wire or the clock touches what the host recorded.
LEMMA EnvironmentFrame ==
    ASSUME TypeOK, Environment
    PROVE  UNCHANGED <<hostVars, accepted>>
<1>1. UNCHANGED hostVars
  BY EnvironmentTypes
<1>2. UNCHANGED accepted
  BY DEF Environment, BoardStep, TakeFrame, BoardResult, BoardComplete, BoardFault,
         BoardReportException, Noise, Malform, Tick, wireVars
<1>3. QED
  BY <1>1, <1>2

\* EvidenceInv is inductive relative to the types.
LEMMA StepEvidence == TypeOK /\ EvidenceInv /\ [Next]_vars => EvidenceInv'
<1> SUFFICES ASSUME TypeOK, EvidenceInv, [Next]_vars PROVE EvidenceInv'
  OBVIOUS
<1>1. CASE Prepare \/ Open
  BY <1>1, PreflightEvidence
<1>2. CASE Dispatch
  BY <1>2, SendOkEvidence, SendNotAcceptedEvidence, SendAcceptanceUnknownEvidence
     DEF Dispatch
<1>3. CASE MonitorConclude \/ ReceiveNone \/ ReceiveError
  BY <1>3, MonitorReturnEvidence
<1>4. CASE Apply
  BY <1>4, ApplyEvidence
<1>5. CASE Environment
  BY <1>5, EnvironmentFrame, EvidenceStable
<1>6. CASE UNCHANGED vars
  BY <1>6, EvidenceStable DEF vars, wireVars
<1>7. QED
  BY <1>1, <1>2, <1>3, <1>4, <1>5, <1>6 DEF Next, Host, Monitor, Apply, Returned

\* The strengthening holds in every run.
LEMMA EvidenceInvariant == Spec => []EvidenceInv
<1>1. Spec => []TypeOK
  BY TypeCorrect
<1>2. QED
  BY <1>1, InitEvidence, StepEvidence, PTL DEF Spec

-----------------------------------------------------------------------------
(* What the caller may conclude. *)

\* What RuntimeFailure::validate and RuntimeSuccess::validate demand holds of
\* every evidence map and exception map execute_with_transport returns.
THEOREM OutcomeValid == Spec => []OutcomeAgreesWithEvidence
<1>1. EvidenceInv => OutcomeAgreesWithEvidence
  BY DEF EvidenceInv
<1>2. QED
  BY <1>1, EvidenceInvariant, PTL

\* derive_certainty answers fully_observed only when every board reported.
THEOREM FullyObservedTrue == Spec => []FullyObservedIsComplete
<1>1. TypeOK /\ EvidenceInv => FullyObservedIsComplete
  <2> SUFFICES ASSUME TypeOK, EvidenceInv, DeriveCertainty(evidence) = "fully_observed"
               PROVE  AllTerminal
    BY DEF FullyObservedIsComplete
  <2>1. /\ \E b \in Boards : evidence[b] \notin {"not_dispatched", "loader_submitted"}
        /\ \A b \in Boards : evidence[b] # "launch_submitted"
    BY DEF DeriveCertainty
  <2>2. evidence \in [Boards -> States]
    BY DEF TypeOK, HostTypeOK
  <2>3. CASE \A b \in Boards : ~IsTerminal(evidence[b])
    BY <2>1, <2>2, <2>3 DEF IsTerminal, States
  <2>4. CASE \A b \in Boards : Rank(evidence[b]) >= 2
    BY <2>1, <2>2, <2>4, RankFacts DEF AllTerminal
  <2>5. QED
    BY <2>3, <2>4 DEF EvidenceInv, ShapeInv
<1>2. QED
  BY <1>1, TypeCorrect, EvidenceInvariant, PTL

\* A run whose certainty is not_started put no launch word of any board on
\* the wire, for every length of every board's image.
THEOREM NotStartedTrue == Spec => []NotStartedMeansNoLaunch
<1>1. TypeOK /\ EvidenceInv => NotStartedMeansNoLaunch
  <2> SUFFICES ASSUME TypeOK, EvidenceInv, DeriveCertainty(evidence) = "not_started",
                      NEW b \in Boards, NEW i \in DOMAIN accepted[b],
                      NEW w \in FrameWords(IchLen[b], accepted[b][i])
               PROVE  w < LaunchStart(IchLen[b])
    BY DEF NotStartedMeansNoLaunch
  <2>1. evidence[b] \in {"not_dispatched", "loader_submitted"}
    BY DEF DeriveCertainty
  <2>2. ~(Rank(evidence[b]) >= 2)
    BY <2>1 DEF Rank
  <2>3. ~LaunchBearing(IchLen[b], accepted[b][i])
    BY <2>2 DEF EvidenceInv, LaunchInv
  <2>4. IchLen[b] \in Nat
    BY ProgramAssumption
  <2>5. accepted[b] \in Seq(Nat)
    BY DEF TypeOK, EnvTypeOK
  <2>6. accepted[b][i] \in Nat
    BY <2>5
  <2>7. QED
    BY <2>3, <2>4, <2>6, FrameLayout
<1>2. QED
  BY <1>1, TypeCorrect, EvidenceInvariant, PTL

\* dispatch never sends a frame twice, skips one or swaps two.
THEOREM FramesInOrder == Spec => []FramesOnceInOrder
<1>1. EvidenceInv => FramesOnceInOrder
  BY DEF EvidenceInv
<1>2. QED
  BY <1>1, EvidenceInvariant, PTL

\* Every step raises or keeps the evidence of every board, and terminal
\* evidence is final.
THEOREM EvidenceOnlyRises == Spec => EvidenceMonotone
<1> DEFINE Rises == \A b \in Boards :
                       /\ Rank(evidence'[b]) >= Rank(evidence[b])
                       /\ IsTerminal(evidence[b]) => evidence'[b] = evidence[b]
<1>1. TypeOK /\ EvidenceInv /\ [Next]_vars => Rises
  <2> SUFFICES ASSUME TypeOK, EvidenceInv, [Next]_vars PROVE Rises
    OBVIOUS
  <2>1. evidence \in [Boards -> States] /\ \A s \in States : Rank(s) \in Int
    BY RankFacts DEF TypeOK, HostTypeOK
  <2>2. CASE UNCHANGED evidence
    BY <2>1, <2>2
  <2>3. CASE SendOk \/ SendAcceptanceUnknown
    <3> DEFINE nx == IF CurrentLaunches THEN "launch_submitted" ELSE "loader_submitted"
    <3>1. /\ pc = "dispatch" /\ CurrentBoard \in Boards
          /\ evidence' = [evidence EXCEPT ![CurrentBoard] =
                             IF Rank(@) < Rank(nx) THEN nx ELSE @]
      BY <2>3, CurrentType DEF SendOk, SendAcceptanceUnknown, AdvanceSubmitted
    <3>2. \A b \in Boards : ~IsTerminal(evidence[b])
      BY <3>1, DispatchState DEF IsTerminal
    <3>3. nx \in States
      BY DEF States
    <3> HIDE DEF nx
    <3>4. ASSUME NEW b \in Boards PROVE Rank(evidence'[b]) >= Rank(evidence[b])
      BY <2>1, <3>1, <3>3
    <3>5. QED
      BY <3>2, <3>4
  <2>4. CASE Apply /\ ~UNCHANGED evidence
    <3>1. PICK b \in Boards :
             \/ /\ ~IsTerminal(evidence[b])
                /\ evidence' = [evidence EXCEPT ![b] = "succeeded"]
             \/ /\ evidence[b] # "succeeded"
                /\ evidence' = [evidence EXCEPT ![b] = "device_failed"]
      BY <2>4, ApplyCases
    <3>2. ASSUME NEW x \in Boards
          PROVE  /\ Rank(evidence'[x]) >= Rank(evidence[x])
                 /\ IsTerminal(evidence[x]) => evidence'[x] = evidence[x]
      <4>1. CASE x # b
        <5>1. evidence'[x] = evidence[x]
          BY <2>1, <3>1, <4>1
        <5>2. QED
          BY <2>1, <5>1
      <4>2. CASE x = b
        <5>1. evidence[b] \in States
          BY <2>1
        <5>2. \/ ~IsTerminal(evidence[b]) /\ evidence'[b] = "succeeded"
              \/ evidence[b] # "succeeded" /\ evidence'[b] = "device_failed"
          BY <2>1, <3>1
        <5>3. QED
          BY <4>2, <5>1, <5>2 DEF IsTerminal, Rank, States
      <4>3. QED
        BY <4>1, <4>2
    <3>3. QED
      BY <3>2
  <2>5. Dispatch \/ Apply \/ UNCHANGED evidence
    <3>1. CASE Environment
      BY <3>1, EnvironmentFrame DEF hostVars
    <3>2. CASE Prepare \/ Open \/ MonitorConclude \/ ReceiveNone \/ ReceiveError
      BY <3>2 DEF Prepare, Open, MonitorConclude, ReceiveNone, ReceiveError
    <3>3. CASE UNCHANGED vars
      BY <3>3 DEF vars, hostVars
    <3>4. QED
      BY <3>1, <3>2, <3>3 DEF Next, Host, Monitor, Apply, Returned
  <2>6. SendNotAccepted => UNCHANGED evidence
    BY DEF SendNotAccepted
  <2>7. QED
    BY <2>2, <2>3, <2>4, <2>5, <2>6 DEF Dispatch
<1>2. QED
  BY <1>1, TypeCorrect, EvidenceInvariant, PTL DEF Spec, EvidenceMonotone

-----------------------------------------------------------------------------
(* RuntimeExecution implements RunContract, the contract its caller sees,  *)
(* under the mapping of outcomes to verdicts (Verdict).                    *)

\* The verdict of a run that has not returned, and of each return.
LEMMA VerdictOf ==
    /\ outcome = "running" => Verdict = "running"
    /\ outcome \in {"topology_invalid", "transport_open_failed"} => Verdict = "refused"
    /\ outcome = "transport_send_failed" => Verdict = "dispatch_failed"
    /\ outcome \in {"completion_timeout", "transport_receive_failed",
                    "protocol_violation"} => Verdict = "unresolved"
    /\ outcome = "success" => Verdict = "success"
    /\ outcome = "device_exception" => Verdict = "device_exception"
BY DEF Verdict

\* While the thread monitors, every board was launched.
LEMMA MonitorLaunched ==
    ASSUME TypeOK, EvidenceInv, pc = "monitor"
    PROVE  Contract!AllLaunched /\ Verdict = "running"
<1>1. \A b \in Boards : Rank(evidence[b]) >= 2 /\ evidence[b] \in States
  BY DEF TypeOK, HostTypeOK, EvidenceInv, DispatchInv
<1>2. \A b \in Boards : evidence[b] \in {"launch_submitted", "succeeded", "device_failed"}
  BY <1>1, RankFacts
<1>3. outcome = "running"
  BY DEF EvidenceInv, RunningInv
<1>4. QED
  BY <1>2, <1>3, VerdictOf DEF Contract!AllLaunched, Contract!Launched, Contract!Terminal

\* A step that changes neither evidence nor outcome is invisible.
LEMMA Invisible ==
    ASSUME UNCHANGED <<evidence, outcome>>
    PROVE  UNCHANGED Contract!contractVars
BY DEF Contract!contractVars, Verdict

\* Recording a frame is a Raise of the contract, or changes nothing.
LEMMA AdvanceRaises ==
    ASSUME TypeOK, EvidenceInv, pc = "dispatch",
           AdvanceSubmitted(CurrentBoard, CurrentLaunches)
    PROVE  UNCHANGED evidence \/ Contract!Raise(CurrentBoard)
<1> DEFINE c == CurrentBoard
<1>1. c \in Boards /\ evidence \in [Boards -> States]
  BY CurrentType DEF TypeOK, HostTypeOK
<1>2. evidence[c] \in {"not_dispatched", "loader_submitted", "launch_submitted"}
  BY <1>1, DispatchState
<1> DEFINE nx == IF CurrentLaunches THEN "launch_submitted" ELSE "loader_submitted"
<1>3. evidence' = [evidence EXCEPT ![c] = IF Rank(@) < Rank(nx) THEN nx ELSE @]
  BY DEF AdvanceSubmitted
<1>4. nx \in {"loader_submitted", "launch_submitted"}
  OBVIOUS
<1> HIDE DEF c, nx
<1>5. CASE Rank(evidence[c]) < Rank(nx)
  <2>1. evidence' = [evidence EXCEPT ![c] = nx]
    BY <1>3, <1>5
  <2>2. \/ evidence[c] = "not_dispatched" /\ nx = "loader_submitted"
        \/ evidence[c] \in {"not_dispatched", "loader_submitted"} /\ nx = "launch_submitted"
    BY <1>2, <1>4, <1>5 DEF Rank
  <2>3. QED
    BY <2>1, <2>2 DEF Contract!Raise, c
<1>6. CASE ~(Rank(evidence[c]) < Rank(nx))
  BY <1>1, <1>3, <1>6
<1>7. QED
  BY <1>5, <1>6

\* Each step of the run is a step of the contract or invisible to it.
LEMMA ContractStep ==
    TypeOK /\ EvidenceInv /\ EvidenceInv' /\ [Next]_vars
        => [Contract!ContractNext]_(Contract!contractVars)
<1> SUFFICES ASSUME TypeOK, EvidenceInv, EvidenceInv', [Next]_vars
             PROVE  Contract!ContractNext \/ UNCHANGED Contract!contractVars
  OBVIOUS
<1>1. CASE Prepare \/ Open
  <2>1. CASE UNCHANGED outcome
    BY <1>1, <2>1, Invisible DEF Prepare, Open
  <2>2. CASE outcome' \in {"topology_invalid", "transport_open_failed"}
    <3>1. /\ pc \in {"prepare", "open"} /\ UNCHANGED evidence
      BY <1>1 DEF Prepare, Open
    <3>2. at = 1 /\ frame = 0 /\ \A i \in 1 .. Len(BoardOrder) : DispatchRecord(i)
      BY <3>1 DEF EvidenceInv, DispatchInv
    <3>3. ASSUME NEW b \in Boards PROVE evidence[b] = "not_dispatched"
      <4>1. PICK i \in 1 .. Len(BoardOrder) : BoardOrder[i] = b
        BY ProgramAssumption
      <4>2. i = 1 \/ i > 1
        BY <4>1, ProgramAssumption
      <4>3. QED
        BY <3>2, <4>1, <4>2 DEF DispatchRecord
    <3>4. Verdict = "running" /\ Verdict' = "refused"
      <4>1. outcome = "running"
        BY <3>1 DEF EvidenceInv, RunningInv
      <4>2. QED
        BY <2>2, <4>1 DEF Verdict
    <3>5. QED
      BY <3>1, <3>3, <3>4 DEF Contract!ContractNext, Contract!Refuse
  <2>3. QED
    BY <1>1, <2>1, <2>2 DEF Prepare, Open, Return
<1>2. CASE SendOk
  <2>1. pc = "dispatch" /\ UNCHANGED outcome /\ CurrentBoard \in Boards
        /\ AdvanceSubmitted(CurrentBoard, CurrentLaunches)
    BY <1>2, CurrentType DEF SendOk
  <2>2. CASE UNCHANGED evidence
    BY <2>1, <2>2, Invisible
  <2>3. CASE Contract!Raise(CurrentBoard)
    <3>1. Verdict = "running" /\ UNCHANGED Verdict
      BY <2>1, DispatchState, VerdictOf DEF Verdict
    <3>2. QED
      BY <2>1, <2>3, <3>1 DEF Contract!ContractNext, Contract!Submit
  <2>4. QED
    BY <2>1, <2>2, <2>3, AdvanceRaises
<1>3. CASE SendNotAccepted \/ SendAcceptanceUnknown
  <2>1. /\ pc = "dispatch"
        /\ outcome' \in {outcome, "transport_send_failed"}
        /\ UNCHANGED evidence
             \/ (outcome' = "transport_send_failed" /\ AdvanceSubmitted(CurrentBoard, CurrentLaunches))
    BY <1>3 DEF SendNotAccepted, SendAcceptanceUnknown, Return
  <2>2. outcome = "running" /\ \A b \in Boards : evidence[b] \notin {"succeeded", "device_failed"}
    BY <2>1, DispatchState
  <2>3. UNCHANGED evidence
        \/ (outcome' = "transport_send_failed" /\ \E b \in Boards : Contract!Raise(b))
    BY <2>1, CurrentType, AdvanceRaises
  <2>4. CASE outcome' = "transport_send_failed"
    <3>1. Verdict = "running" /\ Verdict' = "dispatch_failed"
      BY <2>2, <2>4 DEF Verdict
    <3>2. QED
      BY <2>2, <2>3, <3>1 DEF Contract!ContractNext, Contract!AbortDispatch, Contract!Terminal
  <2>5. CASE outcome' # "transport_send_failed"
    BY <2>1, <2>3, <2>5, Invisible
  <2>6. QED
    BY <2>4, <2>5
<1>4. CASE MonitorConclude
  <2>1. /\ pc = "monitor" /\ AllTerminal /\ UNCHANGED evidence
        /\ outcome' \in {"success", "device_exception"}
    BY <1>4 DEF MonitorConclude, Return
  <2>2. Verdict = "running" /\ Verdict' = outcome'
    BY <2>1, MonitorLaunched DEF Verdict
  <2>3. outcome' = IF \A b \in Boards : evidence[b] = "succeeded"
                   THEN "success" ELSE "device_exception"
    BY <2>1 DEF EvidenceInv, OutcomeAgreesWithEvidence, AllTerminal
  <2>4. QED
    BY <2>1, <2>2, <2>3 DEF Contract!ContractNext, Contract!Conclude, Contract!Terminal,
                            AllTerminal, IsTerminal
<1>5. CASE ReceiveNone \/ ReceiveError \/ (Apply /\ outcome' = "protocol_violation"
                                           /\ UNCHANGED evidence)
  <2>1. /\ pc = "monitor" /\ ~AllTerminal /\ UNCHANGED evidence
        /\ outcome' \in {"completion_timeout", "transport_receive_failed",
                          "protocol_violation"}
    BY <1>5, ApplyFrameRest DEF ReceiveNone, ReceiveError, Return, Receive
  <2>2. Contract!AllLaunched /\ Verdict = "running" /\ Verdict' = "unresolved"
    BY <2>1, MonitorLaunched DEF Verdict
  <2>3. QED
    BY <2>1, <2>2 DEF Contract!ContractNext, Contract!AbortMonitor, Contract!Terminal,
                      AllTerminal, IsTerminal
<1>6. CASE Apply /\ UNCHANGED outcome
  <2>1. pc = "monitor" /\ Contract!AllLaunched /\ Verdict = "running"
    BY <1>6, ApplyFrameRest, MonitorLaunched DEF Receive
  <2>2. CASE UNCHANGED evidence
    BY <1>6, <2>2, Invisible
  <2>3. CASE ~UNCHANGED evidence
    <3>1. PICK b \in Boards :
             \/ /\ ~IsTerminal(evidence[b])
                /\ evidence' = [evidence EXCEPT ![b] = "succeeded"]
             \/ /\ evidence[b] # "succeeded"
                /\ evidence' = [evidence EXCEPT ![b] = "device_failed"]
      BY <1>6, <2>3, ApplyCases
    <3>2. evidence[b] \in {"launch_submitted", "succeeded", "device_failed"}
          /\ evidence \in [Boards -> States]
      BY <2>1 DEF Contract!AllLaunched, Contract!Launched, Contract!Terminal,
                  TypeOK, HostTypeOK
    <3>3. evidence[b] # "device_failed"
      BY <2>3, <3>1, <3>2 DEF IsTerminal
    <3>4. evidence[b] = "launch_submitted"
      BY <3>1, <3>2, <3>3 DEF IsTerminal
    <3>5. UNCHANGED Verdict
      BY <1>6 DEF Verdict
    <3>6. Contract!Observe(b)
      BY <2>1, <3>1, <3>4, <3>5 DEF Contract!Observe, Contract!Terminal
    <3>7. QED
      BY <3>6 DEF Contract!ContractNext
  <2>4. QED
    BY <2>2, <2>3
<1>7. CASE Environment \/ UNCHANGED vars
  <2>1. UNCHANGED <<evidence, outcome>>
    BY <1>7, EnvironmentFrame DEF vars, hostVars
  <2>2. QED
    BY <2>1, Invisible
<1>8. CASE Apply
  <2>1. UNCHANGED outcome \/ outcome' = "protocol_violation"
    BY <1>8, ApplyFrameRest
  <2>2. outcome = "running"
    BY <1>8, ApplyFrameRest DEF Receive, EvidenceInv, RunningInv
  <2>3. outcome' = "protocol_violation" => UNCHANGED evidence
    BY <1>8, <2>2, ApplyCases
  <2>4. QED
    BY <1>5, <1>6, <1>8, <2>1, <2>3
<1>9. QED
  BY <1>1, <1>2, <1>3, <1>4, <1>5, <1>7, <1>8
     DEF Next, Host, Dispatch, Monitor, Apply, Returned

\* execute_with_transport implements RunContract: whatever the wire, the
\* boards and the clock do, its caller sees evidence that only rises, no
\* terminal report before every launch, and one verdict the evidence supports.
THEOREM RunImplementsContract == Spec => ImplementsContract
<1>1. Init => Contract!ContractInit
  BY DEF Init, Contract!ContractInit, Verdict
<1>2. QED
  BY <1>1, TypeCorrect, EvidenceInvariant, ContractStep, PTL
     DEF Spec, ImplementsContract, Contract!ContractSpec

=============================================================================
