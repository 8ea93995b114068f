---------------------------- MODULE RunContract ----------------------------
(***************************************************************************)
(* What one physical run promises its caller: the evidence model of        *)
(* rust/catseq-runtime/src/execution.rs (BoardExecutionState,              *)
(* ExecutionCertainty, RuntimeSuccess, RuntimeFailure) without sockets,    *)
(* frames or boards.                                                       *)
(*                                                                         *)
(* Evidence of a board only rises.  Terminal evidence is recorded only     *)
(* after the launch of every board has been submitted, and never changes.  *)
(* A run ends once, with a verdict its evidence supports.                  *)
(***************************************************************************)
CONSTANT Boards

VARIABLES evidence, verdict

contractVars == <<evidence, verdict>>

Submitted == {"not_dispatched", "loader_submitted", "launch_submitted"}
Terminal == {"succeeded", "device_failed"}

Launched(b) == evidence[b] \in Terminal \cup {"launch_submitted"}
AllLaunched == \A b \in Boards : Launched(b)

ContractInit ==
    /\ evidence = [b \in Boards |-> "not_dispatched"]
    /\ verdict = "running"

\* A frame of b was, or may have been, accepted by the transport.
Raise(b) ==
    \/ /\ evidence[b] = "not_dispatched"
       /\ evidence' = [evidence EXCEPT ![b] = "loader_submitted"]
    \/ /\ evidence[b] \in {"not_dispatched", "loader_submitted"}
       /\ evidence' = [evidence EXCEPT ![b] = "launch_submitted"]

Submit(b) == verdict = "running" /\ Raise(b) /\ UNCHANGED verdict

\* A trusted terminal report of b.
Observe(b) ==
    /\ verdict = "running"
    /\ AllLaunched
    /\ evidence[b] = "launch_submitted"
    /\ \E s \in Terminal : evidence' = [evidence EXCEPT ![b] = s]
    /\ UNCHANGED verdict

\* Preflight and open fail before anything was submitted.
Refuse ==
    /\ verdict = "running"
    /\ \A b \in Boards : evidence[b] = "not_dispatched"
    /\ verdict' = "refused"
    /\ UNCHANGED evidence

\* Dispatch stops at a frame whose submission failed, or may have failed.
AbortDispatch ==
    /\ verdict = "running"
    /\ \A b \in Boards : evidence[b] \notin Terminal
    /\ verdict' = "dispatch_failed"
    /\ UNCHANGED evidence \/ \E b \in Boards : Raise(b)

\* Monitoring stops short of a terminal report of every board.
AbortMonitor ==
    /\ verdict = "running"
    /\ AllLaunched
    /\ \E b \in Boards : evidence[b] \notin Terminal
    /\ verdict' = "unresolved"
    /\ UNCHANGED evidence

Conclude ==
    /\ verdict = "running"
    /\ \A b \in Boards : evidence[b] \in Terminal
    /\ verdict' = IF \A b \in Boards : evidence[b] = "succeeded"
                  THEN "success" ELSE "device_exception"
    /\ UNCHANGED evidence

ContractNext ==
    \/ \E b \in Boards : Submit(b) \/ Observe(b)
    \/ Refuse \/ AbortDispatch \/ AbortMonitor \/ Conclude

ContractSpec == ContractInit /\ [][ContractNext]_contractVars
=============================================================================
