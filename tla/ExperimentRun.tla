--------------------------- MODULE ExperimentRun ---------------------------
(***************************************************************************)
(* BaseExp.run (catseq/experiment/base_exp.py) with its traversal          *)
(* (descartes.py), its run control (run_control.py), its devices           *)
(* (device.py), ParaDict and the H5 writer.                                *)
(*                                                                         *)
(* Three actors: the thread in run(); the compile thread of the executor,  *)
(* which compiles one point ahead; and a user who pauses, resumes, stops   *)
(* and calls run() again.  A program is the parameters it was compiled     *)
(* from.  Every call to a collaborator (compiler, runtime, device,         *)
(* analyzer, file) may raise.                                              *)
(***************************************************************************)
EXTENDS ScanLayout

CONSTANTS
    Layouts,      \* what config_generator may declare
    DeviceCount,  \* input devices, in the order of DeviceList.devices
    MaxRuns       \* bound: calls of run()

ASSUME ExperimentAssumption ==
    /\ DeviceCount \in Nat \ {0} /\ MaxRuns \in Nat
    /\ \A layout \in Layouts :
         /\ Len(layout) \in Nat /\ DOMAIN layout = 1..Len(layout)
         /\ \A i \in DOMAIN layout :
              /\ Len(layout[i].values) \in Nat
              /\ DOMAIN layout[i].values = 1..Len(layout[i].values)
         /\ \A i, j \in Setters(layout) : layout[i].param = layout[j].param => i = j

Devices == 1..DeviceCount

\* Every ExpParams the layouts can build.
ParamNames == UNION {{layout[i].param : i \in DOMAIN layout} : layout \in Layouts}
ParamValues == UNION {UNION {{layout[i].values[k] : k \in DOMAIN layout[i].values} :
                                i \in DOMAIN layout} : layout \in Layouts}
AllParams == UNION {[names -> ParamValues] : names \in SUBSET ParamNames}

None == "none"
NoFuture == [state |-> "none", params |-> EmptyParams]
NoReport == [run |-> 0, error |-> None, cleanup |-> {}, attempts |-> 0]

VARIABLES
    pc,             \* where run() is
    active, paused, stopRequested,   \* RunControl
    waiting,        \* the checkpoint sleeps in Condition.wait
    nodes,          \* the generator's nodes
    frames,         \* its loops: [index, outer], outer the params restored
    params,         \* DescartesGenerator._params
    stopped,        \* DescartesGenerator._stopped
    executionIndex, \* DescartesGenerator._execution_index
    recorded,       \* ParaDict: the points attempted
    compiled,       \* the program of the current point
    next,           \* _next_compilation is not None
    future,         \* the compilation submitted last
    orphan,         \* a compilation the executor left running
    devicesStarted, openDevices,     \* _device_run_started, devices opened
    rows,           \* rows in each device's result
    h5Opened, file, \* _h5_opened, the H5 file
    report,         \* what H5Writer.write left in it
    runError,       \* what run() will raise
    cleanupErrors,  \* the failures of this _cleanup
    lastErrors,     \* self._cleanup_errors, each with its run
    outcome,        \* what the last run() raised, or "ok"
    runs,           \* calls of run()
    sinceStop       \* history: points recorded since the stop request

controlVars == <<active, paused, stopRequested, waiting>>
scanVars == <<nodes, frames, params, stopped, executionIndex>>
compileVars == <<compiled, next, future, orphan>>
deviceVars == <<devicesStarted, openDevices, rows>>
fileVars == <<h5Opened, file, report>>
errorVars == <<runError, cleanupErrors, lastErrors, outcome>>
vars == <<pc, controlVars, scanVars, recorded, compileVars, deviceVars,
          fileVars, errorVars, runs, sinceStop>>

Init ==
    /\ pc = "idle"
    /\ active = FALSE /\ paused = FALSE /\ stopRequested = FALSE /\ waiting = FALSE
    /\ nodes = <<>> /\ frames = <<>> /\ params = EmptyParams
    /\ stopped = FALSE /\ executionIndex = 0
    /\ recorded = <<>>
    /\ compiled = EmptyParams /\ next = FALSE /\ future = NoFuture /\ orphan = FALSE
    /\ devicesStarted = FALSE /\ openDevices = {} /\ rows = [d \in Devices |-> 0]
    /\ h5Opened = FALSE /\ file = "absent" /\ report = NoReport
    /\ runError = None /\ cleanupErrors = {} /\ lastErrors = {} /\ outcome = None
    /\ runs = 0 /\ sinceStop = 0

-----------------------------------------------------------------------------
(* RunControl: the user's side. *)

controlUnchanged == <<pc, scanVars, recorded, compileVars, deviceVars, fileVars,
                      errorVars, runs, sinceStop>>

RequestPause ==
    /\ paused' = TRUE
    /\ UNCHANGED <<active, stopRequested, waiting, controlUnchanged>>

\* Mutant of Resume: the sleeping checkpoint is not notified.
ResumeWithoutNotify ==
    /\ paused' = FALSE
    /\ UNCHANGED <<active, stopRequested, waiting, controlUnchanged>>

Resume ==
    /\ paused' = FALSE /\ waiting' = FALSE
    /\ UNCHANGED <<active, stopRequested, controlUnchanged>>

\* Mutant of RequestStop: the sleeping checkpoint is not notified.
StopWithoutNotify ==
    /\ stopRequested' = TRUE
    /\ UNCHANGED <<active, paused, waiting, controlUnchanged>>

RequestStop ==
    /\ stopRequested' = TRUE /\ waiting' = FALSE
    /\ UNCHANGED <<active, paused, controlUnchanged>>

\* Mutant of ShouldContinue: a stop request ends only the runs that start later.
ShouldContinueWhenActive == active

ShouldContinue == active /\ ~stopRequested

-----------------------------------------------------------------------------
(* Set up. *)

\* An exception inside the traversal runs the finally clauses of its loops.
Raise(error, label) ==
    /\ runError' = error
    /\ pc' = label
    /\ UNCHANGED <<cleanupErrors, lastErrors, outcome>>

\* BaseExp.run up to H5Writer.open, which refuses a path that exists and may
\* also fail on the attributes of the file it has just created.
BeginRun ==
    /\ pc = "idle" /\ runs < MaxRuns
    /\ runs' = runs + 1
    /\ \/ /\ file = "absent"
          /\ file' = "open" /\ h5Opened' = TRUE
          /\ pc' = "start_devices" /\ runError' = None
       \/ /\ file = "absent"
          /\ file' = "open" /\ runError' = "open" /\ pc' = "close" /\ UNCHANGED h5Opened
       \/ /\ runError' = "open" /\ pc' = "close" /\ UNCHANGED <<file, h5Opened>>
    /\ cleanupErrors' = {} /\ outcome' = None
    /\ UNCHANGED <<controlVars, scanVars, recorded, compileVars, deviceVars, report,
                   lastErrors, sinceStop>>

\* DeviceList.start_run: the devices up to the first post_init that raises,
\* whose result is already empty.
StartDevices ==
    /\ pc = "start_devices"
    /\ devicesStarted' = TRUE
    /\ \E k \in 0..DeviceCount :
         /\ openDevices' = openDevices \cup 1..k
         /\ rows' = [d \in Devices |-> IF d <= k + 1 THEN 0 ELSE rows[d]]
         /\ IF k = DeviceCount
            THEN pc' = "configure" /\ UNCHANGED errorVars
            ELSE Raise("devices", "close")
    /\ UNCHANGED <<controlVars, scanVars, recorded, compileVars, fileVars, runs, sinceStop>>

\* Where call_next leads: into the next node's loop, or to final_exp.
Descend(ns, fs, ps) ==
    /\ IF Len(fs) = Len(ns) THEN pc' = "final" /\ frames' = fs
       ELSE pc' = "loop" /\ frames' = Append(fs, [index |-> 0, outer |-> ps])
    /\ params' = ps

\* prepare_run, a new generator, config_generator, the analyzers' order and
\* dependencies; then RunControl.start and the first call_next.
Configure ==
    /\ pc = "configure"
    /\ \/ \E ns \in Layouts :
            /\ nodes' = ns /\ Descend(ns, <<>>, EmptyParams)
            /\ stopped' = FALSE /\ executionIndex' = 0
            /\ active' = TRUE
            /\ UNCHANGED errorVars
       \/ Raise("configure", "close") /\ UNCHANGED <<scanVars, active>>
    /\ UNCHANGED <<paused, stopRequested, waiting, recorded, compileVars, deviceVars,
                   fileVars, runs, sinceStop>>

-----------------------------------------------------------------------------
(* The traversal: RunControl.checkpoint, _repeat, _scan and _final_exp. *)

\* A checkpoint that returns FALSE: every loop returns None.
StopTraversal ==
    /\ ~ShouldContinue
    /\ stopped' = TRUE /\ frames' = <<>> /\ params' = EmptyParams
    /\ pc' = "shutdown"
    /\ UNCHANGED <<nodes, executionIndex, waiting, errorVars>>

\* A checkpoint that sleeps until it is notified.
Sleep ==
    /\ ShouldContinue /\ paused
    /\ waiting' = TRUE
    /\ UNCHANGED <<pc, scanVars, errorVars>>

Depth == Len(frames)

\* An exception in a loop or in the point restores what the loops had saved.
RaiseInTraversal(error) ==
    /\ Raise(error, "shutdown")
    /\ frames' = <<>> /\ params' = EmptyParams
    /\ UNCHANGED <<nodes, stopped, executionIndex>>

\* Mutant of Returned: the end of a loop ends the loop around it as well.
ReturnedToCaller(fs, ps) ==
    /\ frames' = <<>> /\ params' = EmptyParams /\ pc' = "shutdown"

\* call_next returned to the innermost of the loops fs, or to run().
Returned(fs, ps) ==
    IF fs = <<>> THEN frames' = <<>> /\ params' = ps /\ pc' = "shutdown"
    ELSE /\ frames' = [fs EXCEPT ![Len(fs)].index = @ + 1]
         /\ params' = ps /\ pc' = "loop"

\* The end of a loop and its streaming and local analysis.
EndLoop ==
    /\ frames[Depth].index = Size(nodes, Depth)
    /\ \/ /\ Returned(SubSeq(frames, 1, Depth - 1), frames[Depth].outer)
          /\ UNCHANGED <<nodes, stopped, executionIndex, errorVars>>
       \/ RaiseInTraversal("analyze")
    /\ UNCHANGED waiting

Iterate ==
    /\ ShouldContinue /\ ~paused
    /\ Descend(nodes, frames, WithValue(frames[Depth].outer, nodes[Depth], frames[Depth].index))
    /\ UNCHANGED <<nodes, stopped, executionIndex, waiting, errorVars>>

Loop ==
    /\ pc = "loop" /\ ~waiting
    /\ \/ EndLoop
       \/ /\ frames[Depth].index < Size(nodes, Depth)
          /\ StopTraversal \/ Sleep \/ Iterate
    /\ UNCHANGED <<active, paused, stopRequested, recorded, compileVars, deviceVars,
                   fileVars, runs, sinceStop>>

FinalCheckpoint ==
    /\ pc = "final" /\ ~waiting
    /\ \/ StopTraversal
       \/ Sleep
       \/ /\ ShouldContinue /\ ~paused /\ pc' = "attempt"
          /\ UNCHANGED <<scanVars, waiting, errorVars>>
    /\ UNCHANGED <<active, paused, stopRequested, recorded, compileVars, deviceVars,
                   fileVars, runs, sinceStop>>

-----------------------------------------------------------------------------
(* One point: _final_exp after its checkpoint, and _execute_point. *)

Current == recorded[Len(recorded)]
pointUnchanged == <<controlVars, recorded, fileVars, runs, sinceStop>>

\* Mutant of RecordPoint: the execution index is not counted.
RecordPointUncounted ==
    /\ recorded' = Append(recorded, [coords |-> [i \in DOMAIN frames |-> frames[i].index],
                                     params |-> params, index |-> executionIndex])
    /\ executionIndex' = executionIndex
    /\ sinceStop' = IF stopRequested THEN sinceStop + 1 ELSE sinceStop

RecordPoint ==
    /\ recorded' = Append(recorded, [coords |-> [i \in DOMAIN frames |-> frames[i].index],
                                     params |-> params, index |-> executionIndex])
    /\ executionIndex' = executionIndex + 1
    /\ sinceStop' = IF stopRequested THEN sinceStop + 1 ELSE sinceStop

\* Mutant of Attempt: the compilation made ahead is not used.
AttemptAfresh ==
    /\ pc = "attempt" /\ RecordPoint
    /\ pc' = "compile" /\ next' = FALSE
    /\ UNCHANGED <<controlVars, nodes, frames, params, stopped, compiled, future, orphan,
                   deviceVars, fileVars, errorVars, runs>>

\* ParaDict.append_point, then the choice at the head of _execute_point.
Attempt ==
    /\ pc = "attempt" /\ RecordPoint
    /\ pc' = IF next THEN "await" ELSE "compile"
    /\ next' = FALSE
    /\ UNCHANGED <<controlVars, nodes, frames, params, stopped, compiled, future, orphan,
                   deviceVars, fileVars, errorVars, runs>>

CompileNow ==
    /\ pc = "compile"
    /\ \/ compiled' = Current.params /\ pc' = "prepare" /\ UNCHANGED <<scanVars, errorVars>>
       \/ RaiseInTraversal("compile") /\ UNCHANGED compiled
    /\ UNCHANGED <<pointUnchanged, next, future, orphan, deviceVars>>

\* Future.result: the program, or the exception of the compile thread.
AwaitCompilation ==
    /\ pc = "await"
    /\ \/ /\ future.state = "done"
          /\ compiled' = future.params /\ pc' = "prepare"
          /\ UNCHANGED <<scanVars, errorVars>>
       \/ /\ future.state = "failed"
          /\ RaiseInTraversal("compile") /\ UNCHANGED compiled
    /\ UNCHANGED <<pointUnchanged, next, future, orphan, deviceVars>>

Submit(coords) ==
    /\ future' = [state |-> "queued", params |-> ParamsAt(nodes, coords)]
    /\ next' = TRUE

\* apply_scan_params_to_devices and init_device, then the compilation ahead.
PrepareDevices ==
    /\ pc = "prepare"
    /\ \/ /\ pc' = "run"
          /\ \/ \E position \in DOMAIN nodes :
                  /\ IsPosition(nodes, Current.coords, position)
                  /\ Submit(NextCoordinates(nodes, Current.coords, position))
             \/ /\ \A position \in DOMAIN nodes : ~IsPosition(nodes, Current.coords, position)
                /\ UNCHANGED <<next, future>>
          /\ UNCHANGED <<scanVars, errorVars>>
       \/ RaiseInTraversal("devices") /\ UNCHANGED <<next, future>>
    /\ UNCHANGED <<pointUnchanged, compiled, orphan, deviceVars>>

RunSequence ==
    /\ pc = "run"
    /\ \/ pc' = "read" /\ UNCHANGED <<scanVars, errorVars>>
       \/ RaiseInTraversal("runtime")
    /\ UNCHANGED <<pointUnchanged, compileVars, deviceVars>>

\* Mutant of ReadDevices: a device that cannot be read is passed over.
ReadSomeDevices ==
    /\ pc = "read" /\ pc' = "analyze"
    /\ \E k \in 0..DeviceCount :
         rows' = [d \in Devices |-> IF d <= k THEN rows[d] + 1 ELSE rows[d]]
    /\ UNCHANGED <<pointUnchanged, scanVars, compileVars, devicesStarted, openDevices, errorVars>>

\* DeviceList.read: a row of each device up to the first that raises.
ReadDevices ==
    /\ pc = "read"
    /\ \E k \in 0..DeviceCount :
         /\ rows' = [d \in Devices |-> IF d <= k THEN rows[d] + 1 ELSE rows[d]]
         /\ IF k = DeviceCount
            THEN pc' = "analyze" /\ UNCHANGED <<scanVars, errorVars>>
            ELSE RaiseInTraversal("devices")
    /\ UNCHANGED <<pointUnchanged, compileVars, devicesStarted, openDevices>>

\* final_analyzer and the analyzers' streaming_analyze.
AnalyzePoint ==
    /\ pc = "analyze"
    /\ \/ Returned(frames, params) /\ UNCHANGED <<nodes, stopped, executionIndex, errorVars>>
       \/ RaiseInTraversal("analyze")
    /\ UNCHANGED <<pointUnchanged, compileVars, deviceVars>>

-----------------------------------------------------------------------------
(* The compile thread. *)

workerUnchanged == <<pc, controlVars, scanVars, recorded, compiled, next, deviceVars,
                     fileVars, errorVars, runs, sinceStop>>

Busy == future.state \in {"queued", "running"}

StartCompilation ==
    /\ future.state = "queued"
    /\ future' = [future EXCEPT !.state = "running"]
    /\ UNCHANGED <<orphan, workerUnchanged>>

EndCompilation ==
    /\ \/ /\ future.state = "running"
          /\ \E s \in {"done", "failed"} : future' = [future EXCEPT !.state = s]
          /\ UNCHANGED orphan
       \/ orphan /\ orphan' = FALSE /\ UNCHANGED future
    /\ UNCHANGED workerUnchanged

-----------------------------------------------------------------------------
(* The end of run(). *)

\* ThreadPoolExecutor.shutdown: it waits where no compilation is ahead; a
\* queued compilation is cancelled, a running one is left behind.
Shutdown ==
    /\ pc = "shutdown"
    /\ next \/ ~Busy
    /\ next' = FALSE /\ future' = NoFuture
    /\ orphan' = (orphan \/ future.state = "running")
    /\ pc' = IF runError = None THEN "conclude" ELSE "close"
    /\ UNCHANGED <<controlVars, scanVars, recorded, compiled, deviceVars, fileVars,
                   errorVars, runs, sinceStop>>

\* The analyzers' final analyze.
Conclude ==
    /\ pc = "conclude"
    /\ \/ pc' = "close" /\ UNCHANGED errorVars
       \/ Raise("analyze", "close")
    /\ UNCHANGED <<controlVars, scanVars, recorded, compileVars, deviceVars, fileVars,
                   runs, sinceStop>>

\* The first half of _cleanup: RunControl.finish, the experiment's finish and
\* DeviceList.post_close, which ends at the first device that raises.
CloseRun ==
    /\ pc = "close" /\ pc' = "persist"
    /\ active' = FALSE /\ paused' = FALSE /\ waiting' = FALSE
    /\ \E finishFails \in BOOLEAN, k \in IF devicesStarted THEN 0..DeviceCount ELSE {DeviceCount} :
         /\ openDevices' = IF devicesStarted THEN openDevices \ 1..k ELSE openDevices
         /\ cleanupErrors' = (IF finishFails THEN {"finish"} ELSE {})
                             \cup (IF k < DeviceCount THEN {"post_close"} ELSE {})
    /\ lastErrors' = IF cleanupErrors' = {} THEN lastErrors ELSE {runs} \X cleanupErrors'
    /\ devicesStarted' = FALSE
    /\ UNCHANGED <<stopRequested, scanVars, recorded, compileVars, rows, fileVars,
                   runError, outcome, runs, sinceStop>>

\* Mutant of Persist: a failed write leaves the file open.
PersistInOneAttempt(writeFails, closeFails) ==
    /\ file' = IF writeFails \/ closeFails THEN file ELSE "closed"
    /\ report' = IF writeFails THEN report
                 ELSE [run |-> runs, error |-> runError, cleanup |-> lastErrors,
                       attempts |-> Len(recorded)]
    /\ cleanupErrors' = cleanupErrors \cup (IF writeFails THEN {"write"} ELSE {})
                        \cup (IF closeFails THEN {"h5_close"} ELSE {})

\* H5Writer.write and H5Writer.close, each attempted.
Persist(writeFails, closeFails) ==
    /\ file' = IF closeFails THEN file ELSE "closed"
    /\ report' = IF writeFails THEN report
                 ELSE [run |-> runs, error |-> runError, cleanup |-> lastErrors,
                       attempts |-> Len(recorded)]
    /\ cleanupErrors' = cleanupErrors \cup (IF writeFails THEN {"write"} ELSE {})
                        \cup (IF closeFails THEN {"h5_close"} ELSE {})

\* The rest of _cleanup and what run() raises.
EndRun ==
    /\ pc = "persist" /\ pc' = "idle"
    /\ IF h5Opened THEN \E writeFails, closeFails \in BOOLEAN : Persist(writeFails, closeFails)
       ELSE UNCHANGED <<file, report, cleanupErrors>>
    /\ h5Opened' = FALSE
    /\ lastErrors' = {runs} \X cleanupErrors'
    /\ outcome' = IF runError # None THEN runError
                  ELSE IF cleanupErrors' # {} THEN "cleanup" ELSE "ok"
    /\ UNCHANGED <<controlVars, scanVars, recorded, compileVars, deviceVars, runError,
                   runs, sinceStop>>

-----------------------------------------------------------------------------
Host ==
    \/ StartDevices \/ Configure \/ Loop \/ FinalCheckpoint
    \/ Attempt \/ CompileNow \/ AwaitCompilation \/ PrepareDevices
    \/ RunSequence \/ ReadDevices \/ AnalyzePoint
    \/ Shutdown \/ Conclude \/ CloseRun \/ EndRun
Worker == StartCompilation \/ EndCompilation
User == BeginRun \/ RequestPause \/ Resume \/ RequestStop
Next == Host \/ Worker \/ User

Spec == Init /\ [][Next]_vars

\* Both threads are scheduled and no collaborator blocks; the user owes nothing.
FairSpec == Spec /\ WF_vars(Host) /\ WF_vars(Worker)

-----------------------------------------------------------------------------
(* Properties. *)

Labels == {"idle", "start_devices", "configure", "loop", "final", "attempt", "compile",
           "await", "prepare", "run", "read", "analyze", "shutdown", "conclude",
           "close", "persist"}

\* What the runtime executes was compiled from the parameters of the point
\* that ParaDict recorded last, whether it was compiled at the point or ahead
\* of it: _next_scan_point predicts the traversal.
ProgramOfPoint ==
    pc \in {"run", "read", "analyze"} => compiled = ParamsAt(nodes, Current.coords)

\* ParaDict holds the attempted points in the order of the nested loops, none
\* skipped or repeated, each with its own parameters and index; a compilation
\* ahead never adds one.
TraversalInOrder ==
    \A k \in DOMAIN recorded :
        /\ PointRank(nodes, recorded[k].coords) = k - 1
        /\ recorded[k].index = k - 1
        /\ recorded[k].params = ParamsAt(nodes, recorded[k].coords)

\* The compiler is never entered from two threads: not by the point and the
\* compilation ahead of it, and not by a later run() while an earlier one left
\* a compilation behind, because the H5 file is opened exclusively.  And "an unused
\* speculative compilation does not delay failure or cancellation cleanup": run()
\* never waits in shutdown for the compile thread.
OneCompilation ==
    /\ pc = "compile" => ~Busy /\ ~orphan
    /\ ~(Busy /\ orphan)
    /\ pc = "shutdown" => next \/ ~Busy

\* A stop request, however it races with the checkpoints, lets at most the
\* point that has passed its checkpoint be attempted.
StopWithinOnePoint == sinceStop <= 1

\* Device results line up with ParaDict: between points every device has one
\* row for each attempted point; a failure leaves at most the last one short.
RowsMatchAttempts ==
    /\ pc \in {"loop", "final", "conclude"} => \A d \in Devices : rows[d] = Len(recorded)
    /\ pc \in {"shutdown", "close", "persist"} =>
          \A d \in Devices : rows[d] \in {Len(recorded) - 1, Len(recorded)}

\* A run that raises nothing and was not stopped attempted every point of its
\* scan.
OkMeansComplete ==
    outcome = "ok" /\ pc = "idle" /\ ~stopped =>
        Len(recorded) = Cardinality(Points(nodes))

\* Once run() returns, whatever failed: no compilation is pending, the
\* original failure is the one raised and written, and a run that opened its
\* H5 file has closed it unless close itself failed, and the devices unless
\* post_close failed.
CleanupComplete ==
    pc = "idle" /\ runs > 0 =>
        /\ ~active /\ ~next /\ ~Busy /\ ~devicesStarted
        /\ runError # "open" =>
              /\ openDevices # {} => "post_close" \in cleanupErrors
              /\ file = "open" => "h5_close" \in cleanupErrors
        /\ runError # None => outcome = runError
        /\ report.run = runs => report.error = runError /\ report.attempts = Len(recorded)

\* A stop request ends the run even where a checkpoint sleeps in a pause.
StopEndsRun == stopRequested ~> pc = "idle"

\* A run that is not kept paused ends.
UnpausedRunEnds == <>[]~paused => []<>(pc = "idle")
=============================================================================
