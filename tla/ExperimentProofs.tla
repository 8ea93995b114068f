-------------------------- MODULE ExperimentProofs --------------------------
(***************************************************************************)
(* BaseExp.run for every layout of nodes, every number of devices and of   *)
(* runs: the compile thread never delays or overlaps the host, a stop is   *)
(* obeyed within one point, the device rows line up with ParaDict, and     *)
(* every program that runs is the program of its point.                    *)
(***************************************************************************)
EXTENDS ExperimentRun, TLAPS

\* Who may be waiting for the compile thread: somebody holds the future of
\* every compilation that is not over, and an orphan keeps the file in place.
ThreadInv ==
    /\ future = [state |-> future.state, params |-> future.params]
    /\ {next, orphan} \subseteq BOOLEAN
    /\ Busy => next \/ pc = "await"
    /\ next => pc \in {"run", "read", "analyze", "loop", "final", "attempt", "shutdown"}
    /\ orphan => pc \in {"conclude", "close", "persist", "idle"}
    /\ orphan \/ pc \notin {"idle", "close", "persist"} => file # "absent"

\* No compilation has started.
LEMMA InitThread ==
    ASSUME Init
    PROVE  ThreadInv
  BY DEF Init, ThreadInv, Busy, NoFuture

\* One case for each action.
LEMMA StepThread ==
    ASSUME ThreadInv, [Next]_vars
    PROVE  ThreadInv'
<1> USE DEF ThreadInv, Busy
<1>1. CASE BeginRun
  BY <1>1 DEF BeginRun, compileVars
<1>2. CASE StartDevices
  BY <1>2 DEF StartDevices, Raise, compileVars, fileVars
<1>3. CASE Configure
  BY <1>3 DEF Configure, Descend, Raise, compileVars, fileVars
<1>4. CASE Loop
  BY <1>4 DEF Loop, EndLoop, Returned, StopTraversal, Sleep, Iterate, Descend,
              RaiseInTraversal, Raise, compileVars, fileVars, Depth
<1>5. CASE FinalCheckpoint
  BY <1>5 DEF FinalCheckpoint, StopTraversal, Sleep, compileVars, fileVars
<1>6. CASE Attempt
  BY <1>6 DEF Attempt, fileVars
<1>7. CASE CompileNow
  BY <1>7 DEF CompileNow, RaiseInTraversal, Raise, pointUnchanged, fileVars
<1>8. CASE AwaitCompilation
  BY <1>8 DEF AwaitCompilation, RaiseInTraversal, Raise, pointUnchanged, fileVars
<1>9. CASE PrepareDevices
  BY <1>9 DEF PrepareDevices, Submit, RaiseInTraversal, Raise, pointUnchanged, fileVars
<1>10. CASE RunSequence
  BY <1>10 DEF RunSequence, RaiseInTraversal, Raise, pointUnchanged, compileVars, fileVars
<1>11. CASE ReadDevices
  BY <1>11 DEF ReadDevices, RaiseInTraversal, Raise, pointUnchanged, compileVars, fileVars
<1>12. CASE AnalyzePoint
  BY <1>12 DEF AnalyzePoint, Returned, RaiseInTraversal, Raise, pointUnchanged,
               compileVars, fileVars
<1>13. CASE Shutdown
  BY <1>13 DEF Shutdown, NoFuture, fileVars
<1>14. CASE Conclude
  BY <1>14 DEF Conclude, Raise, compileVars, fileVars
<1>15. CASE CloseRun
  BY <1>15 DEF CloseRun, compileVars, fileVars
<1>16. CASE EndRun
  BY <1>16 DEF EndRun, Persist, compileVars
<1>17. CASE Worker
  <2>1. UNCHANGED <<pc, next, file>>
    BY <1>17 DEF Worker, StartCompilation, EndCompilation, workerUnchanged, fileVars
  <2>2. CASE StartCompilation
    <3>1. future' = [state |-> "running", params |-> future.params] /\ orphan' = orphan
      BY <2>2 DEF StartCompilation
    <3> QED BY <2>1, <2>2, <3>1 DEF StartCompilation
  <2>3. CASE EndCompilation
    <3>1. CASE orphan' = FALSE /\ UNCHANGED future
      BY <2>1, <3>1
    <3>2. ASSUME future.state = "running", NEW s \in {"done", "failed"},
                 future' = [future EXCEPT !.state = s], UNCHANGED orphan
          PROVE  ThreadInv'
      <4>1. future' = [state |-> s, params |-> future.params]
        BY <3>2
      <4> QED BY <2>1, <3>2, <4>1
    <3> QED BY <2>3, <3>1, <3>2 DEF EndCompilation
  <2> QED BY <1>17, <2>2, <2>3 DEF Worker
<1>18. CASE RequestPause \/ Resume \/ RequestStop
  BY <1>18 DEF RequestPause, Resume, RequestStop, controlUnchanged, compileVars, fileVars
<1>19. CASE UNCHANGED vars
  BY <1>19 DEF vars, compileVars, fileVars
<1> QED BY <1>1, <1>2, <1>3, <1>4, <1>5, <1>6, <1>7, <1>8, <1>9, <1>10, <1>11, <1>12,
           <1>13, <1>14, <1>15, <1>16, <1>17, <1>18, <1>19 DEF Next, Host, User

\* run() never waits for a compilation nobody will use, and the compiler is
\* never entered from two threads.
THEOREM CompileThread == Spec => []OneCompilation
<1>1. ThreadInv => OneCompilation
  BY DEF ThreadInv, OneCompilation, Busy
<1> QED BY InitThread, StepThread, <1>1, PTL DEF Spec

-----------------------------------------------------------------------------
(* Stop requests. *)

\* A point that has passed its checkpoint is the first since the request.
StopInv ==
    /\ sinceStop \in {0, 1}
    /\ ~stopRequested \/ pc = "attempt" => sinceStop = 0

\* Only Attempt records a point, and only FinalCheckpoint leads to it.
LEMMA StepStop ==
    ASSUME StopInv, [Next]_vars
    PROVE  StopInv'
<1> USE DEF StopInv
<1>1. CASE BeginRun \/ StartDevices \/ Configure
  BY <1>1 DEF BeginRun, StartDevices, Configure, Descend, Raise, controlVars
<1>2. CASE Loop
  BY <1>2 DEF Loop, EndLoop, Returned, StopTraversal, Sleep, Iterate, Descend,
              RaiseInTraversal, Raise
<1>3. CASE FinalCheckpoint
  BY <1>3 DEF FinalCheckpoint, StopTraversal, Sleep, ShouldContinue
<1>4. CASE Attempt
  BY <1>4 DEF Attempt, RecordPoint, controlVars
<1>5. CASE CompileNow \/ AwaitCompilation \/ PrepareDevices
  BY <1>5 DEF CompileNow, AwaitCompilation, PrepareDevices, RaiseInTraversal, Raise,
              pointUnchanged, controlVars
<1>6. CASE RunSequence \/ ReadDevices \/ AnalyzePoint
  BY <1>6 DEF RunSequence, ReadDevices, AnalyzePoint, Returned, RaiseInTraversal, Raise,
              pointUnchanged, controlVars
<1>7. CASE Shutdown \/ Conclude \/ CloseRun \/ EndRun
  BY <1>7 DEF Shutdown, Conclude, CloseRun, EndRun, Raise, controlVars
<1>8. CASE Worker
  BY <1>8 DEF Worker, StartCompilation, EndCompilation, workerUnchanged, controlVars
<1>9. CASE RequestPause \/ Resume \/ RequestStop
  BY <1>9 DEF RequestPause, Resume, RequestStop, controlUnchanged
<1>10. CASE UNCHANGED vars
  BY <1>10 DEF vars, controlVars
<1> QED BY <1>1, <1>2, <1>3, <1>4, <1>5, <1>6, <1>7, <1>8, <1>9, <1>10 DEF Next, Host, User

\* A stop request is obeyed within one point.
THEOREM StopObeyed == Spec => []StopWithinOnePoint
<1>1. Init => StopInv
  BY DEF Init, StopInv
<1>2. StopInv => StopWithinOnePoint
  BY DEF StopInv, StopWithinOnePoint
<1> QED BY <1>1, <1>2, StepStop, PTL DEF Spec

-----------------------------------------------------------------------------
(* Parameters. *)

\* What the outermost k nodes set.
Partial(layout, coords, k) ==
    [p \in {layout[i].param : i \in {j \in Setters(layout) : j <= k}} |->
        layout[Setter(layout, p)].values[coords[Setter(layout, p)] + 1]]

\* Each parameter has one node.
LEMMA SetterUnique ==
    ASSUME NEW layout \in Layouts, NEW i \in Setters(layout)
    PROVE  Setter(layout, layout[i].param) = i
<1> DEFINE s == Setter(layout, layout[i].param)
<1>1. s \in Setters(layout) /\ layout[s].param = layout[i].param
  BY DEF Setter
<1> QED BY <1>1, ExperimentAssumption

\* The outermost k nodes depend on no deeper coordinate.
LEMMA PartialPrefix ==
    ASSUME NEW layout \in Layouts, NEW k \in Nat, NEW c, NEW d,
           \A i \in 1..Len(layout) : i <= k => c[i] = d[i]
    PROVE  Partial(layout, c, k) = Partial(layout, d, k)
<1>1. ASSUME NEW p \in {layout[i].param : i \in {j \in Setters(layout) : j <= k}}
      PROVE  c[Setter(layout, p)] = d[Setter(layout, p)]
  <2>1. PICK i \in Setters(layout) : i <= k /\ p = layout[i].param
    BY <1>1
  <2>2. i \in 1..Len(layout)
    BY ExperimentAssumption DEF Setters
  <2> QED BY <2>1, <2>2, SetterUnique
<1> QED BY <1>1 DEF Partial

\* One more node: what WithValue adds.
LEMMA PartialStep ==
    ASSUME NEW layout \in Layouts, NEW c, NEW k \in 1..Len(layout)
    PROVE  WithValue(Partial(layout, c, k - 1), layout[k], c[k]) = Partial(layout, c, k)
<1>0. /\ DOMAIN layout = 1..Len(layout) /\ Len(layout) \in Nat
      /\ \A j \in Setters(layout) : j \in Nat
  BY ExperimentAssumption DEF Setters
<1> DEFINE names(m) == {layout[i].param : i \in {j \in Setters(layout) : j <= m}}
<1>1. CASE layout[k].param = NoParam
  <2>1. k \notin Setters(layout)
    BY <1>1 DEF Setters
  <2>2. {j \in Setters(layout) : j <= k - 1} = {j \in Setters(layout) : j <= k}
    BY <1>0, <2>1
  <2> QED BY <1>1, <2>2 DEF WithValue, Partial
<1>2. CASE layout[k].param # NoParam
  <2>1. k \in Setters(layout)
    BY <1>0, <1>2 DEF Setters
  <2>2. names(k) = names(k - 1) \cup {layout[k].param}
    BY <1>0, <2>1
  <2>3. Setter(layout, layout[k].param) = k
    BY <2>1, SetterUnique
  <2>4. DOMAIN Partial(layout, c, k - 1) = names(k - 1)
    BY DEF Partial
  <2>5. ASSUME NEW p \in names(k)
        PROVE  (IF p = layout[k].param THEN layout[k].values[c[k] + 1]
                ELSE Partial(layout, c, k - 1)[p])
               = layout[Setter(layout, p)].values[c[Setter(layout, p)] + 1]
    <3>1. CASE p = layout[k].param
      BY <2>3, <3>1
    <3>2. CASE p # layout[k].param
      <4>1. p \in names(k - 1)
        BY <2>2, <2>5, <3>2
      <4> QED BY <3>2, <4>1 DEF Partial
    <3> QED BY <3>1, <3>2
  <2>6. WithValue(Partial(layout, c, k - 1), layout[k], c[k])
        = [p \in names(k) |-> IF p = layout[k].param THEN layout[k].values[c[k] + 1]
                              ELSE Partial(layout, c, k - 1)[p]]
    BY <1>2, <2>2, <2>4 DEF WithValue
  <2>7. Partial(layout, c, k)
        = [p \in names(k) |-> layout[Setter(layout, p)].values[c[Setter(layout, p)] + 1]]
    BY DEF Partial
  <2> HIDE DEF names
  <2> QED BY <2>5, <2>6, <2>7
<1> QED BY <1>1, <1>2

\* All nodes together set the parameters of the point; none set nothing.
LEMMA PartialEnds ==
    ASSUME NEW layout \in Layouts, NEW c
    PROVE  /\ Partial(layout, c, Len(layout)) = ParamsAt(layout, c)
           /\ Partial(layout, c, 0) = EmptyParams
<1>0. \A j \in Setters(layout) : j \in 1..Len(layout)
  BY ExperimentAssumption DEF Setters
<1>1. {j \in Setters(layout) : j <= Len(layout)} = Setters(layout)
  BY <1>0, ExperimentAssumption
<1>2. {j \in Setters(layout) : j <= 0} = {}
  BY <1>0, ExperimentAssumption
<1>3. {layout[i].param : i \in {}} = {}
  OBVIOUS
<1>4. Partial(layout, c, Len(layout)) = ParamsAt(layout, c)
  BY <1>1 DEF Partial, ParamsAt
<1>5. Partial(layout, c, 0) = EmptyParams
  BY <1>2, <1>3 DEF Partial, EmptyParams
<1> QED BY <1>4, <1>5

\* The parameters of any prefix of a point are among AllParams.
LEMMA PartialType ==
    ASSUME NEW layout \in Layouts, NEW k \in Nat, NEW c,
           \A i \in 1..Len(layout) : i <= k => c[i] \in Nat /\ c[i] < Size(layout, i)
    PROVE  Partial(layout, c, k) \in AllParams
<1> DEFINE names == {layout[i].param : i \in {j \in Setters(layout) : j <= k}}
<1>1. names \subseteq ParamNames
  BY DEF Setters, ParamNames
<1>2. ASSUME NEW p \in names
      PROVE  layout[Setter(layout, p)].values[c[Setter(layout, p)] + 1] \in ParamValues
  <2>1. PICK i \in Setters(layout) : i <= k /\ p = layout[i].param
    BY <1>2
  <2>2. i \in 1..Len(layout) /\ i \in DOMAIN layout
    BY ExperimentAssumption DEF Setters
  <2>3. c[i] + 1 \in DOMAIN layout[i].values
    BY <2>1, <2>2, ExperimentAssumption DEF Size
  <2>4. Setter(layout, p) = i
    BY <2>1, SetterUnique
  <2> QED BY <2>2, <2>3, <2>4 DEF ParamValues
<1>3. Partial(layout, c, k) \in [names -> ParamValues]
  BY <1>2 DEF Partial
<1> QED BY <1>1, <1>3 DEF AllParams


-----------------------------------------------------------------------------
(* The traversal and the point compiled ahead. *)

PointLabels == {"compile", "await", "prepare", "run", "read", "analyze"}
ScanLabels == {"loop", "final", "attempt"} \cup PointLabels

Coords(fs) == [i \in DOMAIN fs |-> fs[i].index]

Frame == [index : Nat, outer : AllParams]

ScanTypes ==
    /\ frames \in Seq(Frame)
    /\ params \in AllParams
    /\ recorded \in Seq([coords : Seq(Nat), params : AllParams, index : Nat])
    /\ executionIndex \in Nat

\* The loops are at the coordinates their indexes say, each with the
\* parameters of the loops around it.
LoopsInv ==
    pc \in ScanLabels =>
        /\ nodes \in Layouts /\ Depth <= Len(nodes)
        /\ \A i \in 1..Depth : frames[i].outer = Partial(nodes, Coords(frames), i - 1)
        /\ \A i \in 1..Depth : i < Depth \/ pc # "loop" => frames[i].index < Size(nodes, i)
        /\ pc = "loop" => Depth > 0 /\ frames[Depth].index <= Size(nodes, Depth)
        /\ pc # "loop" => Depth = Len(nodes) /\ params = ParamsAt(nodes, Coords(frames))

\* The current point is where the loops are, and the program is its program.
PointInv ==
    pc \in PointLabels =>
        /\ recorded # <<>>
        /\ Current.coords = Coords(frames)
        /\ Current.params = ParamsAt(nodes, Current.coords)
        /\ pc = "await" => future.params = ParamsAt(nodes, Current.coords)
        /\ pc \in {"prepare", "run", "read", "analyze"} =>
              compiled = ParamsAt(nodes, Current.coords)

Target(position) == NextCoordinates(nodes, Current.coords, position)

\* The loops lead to the target: they are on their way down to it, or the
\* innermost one is exhausted and must return first.
Leads(position) ==
    \/ /\ Depth >= position
       /\ \A j \in 1..Depth : frames[j].index = Target(position)[j]
    \/ /\ Depth > position
       /\ \A j \in 1..(Depth - 1) : frames[j].index = Current.coords[j]
       /\ frames[Depth].index = Size(nodes, Depth)

AheadOf(position) ==
    /\ IsPosition(nodes, Current.coords, position)
    /\ future.params = ParamsAt(nodes, Target(position))
    /\ pc = "loop" => Leads(position)
    /\ pc \in {"final", "attempt"} => Coords(frames) = Target(position)

\* The compilation ahead is that of the point the loops reach next.
AheadInv ==
    next /\ pc # "shutdown" =>
        /\ recorded # <<>> /\ DOMAIN Current.coords = DOMAIN nodes
        /\ \A i \in DOMAIN nodes : Current.coords[i] < Size(nodes, i)
        /\ \E position \in DOMAIN nodes : AheadOf(position)

ScanInv == ScanTypes /\ LoopsInv /\ PointInv /\ AheadInv

\* The first state of a scan.
LEMMA InitScan ==
    ASSUME Init
    PROVE  ScanInv
<1>1. EmptyParams \in AllParams
  <2>1. EmptyParams \in [{} -> ParamValues]
    BY DEF EmptyParams
  <2> QED BY <2>1 DEF AllParams
<1>2. ScanTypes
  BY <1>1 DEF Init, ScanTypes
<1>3. LoopsInv /\ PointInv /\ AheadInv
  BY DEF Init, LoopsInv, PointInv, AheadInv, ScanLabels, PointLabels
<1> QED BY <1>2, <1>3 DEF ScanInv

\* Steps that leave the traversal and the compilations' parameters alone.
LEMMA IdleScan ==
    ASSUME ScanInv, UNCHANGED <<pc, nodes, frames, params, executionIndex, recorded,
                                compiled, next>>,
           future'.params = future.params
    PROVE  ScanInv'
  BY DEF ScanInv, ScanTypes, LoopsInv, PointInv, AheadInv, AheadOf, Leads, Target,
         Depth, Current

\* Steps outside the traversal.
LEMMA OutsideScan ==
    ASSUME ScanInv, ScanTypes', pc' \notin ScanLabels, next' => pc' = "shutdown"
    PROVE  ScanInv'
  BY DEF ScanInv, LoopsInv, PointInv, AheadInv, ScanLabels

\* The end of the traversal, normal or not.
LEMMA LeaveScan ==
    ASSUME ScanInv, frames' = <<>>, params' = EmptyParams, pc' = "shutdown",
           UNCHANGED <<executionIndex, recorded>>
    PROVE  ScanInv'
<1>1. EmptyParams \in AllParams
  <2>1. EmptyParams \in [{} -> ParamValues]
    BY DEF EmptyParams
  <2> QED BY <2>1 DEF AllParams
<1>2. ScanTypes'
  BY <1>1 DEF ScanInv, ScanTypes
<1> QED BY <1>2, OutsideScan DEF ScanLabels, PointLabels

\* The shape of a layout.
LEMMA LayoutFacts ==
    ASSUME NEW layout \in Layouts
    PROVE  /\ Len(layout) \in Nat /\ DOMAIN layout = 1..Len(layout)
           /\ \A i \in 1..Len(layout) : Size(layout, i) \in Nat
  BY ExperimentAssumption DEF Size

\* The shape of the loops.
LEMMA FrameFacts ==
    ASSUME frames \in Seq(Frame)
    PROVE  /\ Len(frames) \in Nat /\ DOMAIN frames = 1..Len(frames)
           /\ DOMAIN Coords(frames) = 1..Len(frames)
           /\ \A i \in 1..Len(frames) :
                /\ frames[i].index \in Nat /\ frames[i].outer \in AllParams
                /\ Coords(frames)[i] = frames[i].index
<1>1. Len(frames) \in Nat /\ DOMAIN frames = 1..Len(frames)
  OBVIOUS
<1>2. ASSUME NEW i \in 1..Len(frames)
      PROVE  frames[i].index \in Nat /\ frames[i].outer \in AllParams
  <2>1. frames[i] \in Frame
    OBVIOUS
  <2> QED BY <2>1 DEF Frame
<1>3. DOMAIN Coords(frames) = 1..Len(frames)
  BY <1>1 DEF Coords
<1>4. \A i \in 1..Len(frames) : Coords(frames)[i] = frames[i].index
  BY <1>1 DEF Coords
<1> QED BY <1>1, <1>2, <1>3, <1>4

\* Going down: the loop below starts where the target is.
LEMMA IterateScan ==
    ASSUME ScanInv, ThreadInv, pc = "loop", Iterate,
           frames[Depth].index < Size(nodes, Depth),
           UNCHANGED <<recorded, compiled, next, future>>
    PROVE  ScanInv'
<1> DEFINE c == Coords(frames)
           ps == WithValue(frames[Depth].outer, nodes[Depth], frames[Depth].index)
<1>1. /\ nodes \in Layouts /\ Len(nodes) \in Nat /\ DOMAIN nodes = 1..Len(nodes)
      /\ Depth \in 1..Len(nodes) /\ Len(frames) = Depth /\ DOMAIN frames = 1..Depth
      /\ frames \in Seq(Frame)
      /\ \A i \in 1..Depth : frames[i].index \in Nat /\ frames[i].index < Size(nodes, i)
      /\ \A i \in 1..Depth : c[i] = frames[i].index
  <2>1. frames \in Seq(Frame)
    BY DEF ScanInv, ScanTypes
  <2>2. /\ nodes \in Layouts /\ Depth <= Len(nodes) /\ Depth > 0
        /\ \A i \in 1..Depth : i < Depth => frames[i].index < Size(nodes, i)
    BY DEF ScanInv, LoopsInv, ScanLabels
  <2> QED BY <2>1, <2>2, FrameFacts, LayoutFacts DEF Depth
<1>2. ps = Partial(nodes, c, Depth)
  <2>1. frames[Depth].outer = Partial(nodes, c, Depth - 1)
    BY <1>1 DEF ScanInv, LoopsInv, ScanLabels
  <2>2. WithValue(Partial(nodes, c, Depth - 1), nodes[Depth], c[Depth]) = Partial(nodes, c, Depth)
    BY <1>1, PartialStep
  <2> HIDE DEF c
  <2> QED BY <1>1, <2>1, <2>2
<1>3. ps \in AllParams
  BY <1>1, <1>2, PartialType
<1>4. params' = ps /\ nodes' = nodes /\ executionIndex' = executionIndex
  BY DEF Iterate, Descend
<1> HIDE DEF ps
<1>7. Depth # Len(nodes) => Depth + 1 \in 1..Len(nodes)
  <2>1. Depth \in 1..Len(nodes) /\ Len(nodes) \in Nat
    BY <1>1
  <2> QED BY <2>1
<1>5. CASE Depth = Len(nodes)
  <2>1. pc' = "final" /\ frames' = frames
    BY <1>5, <1>1 DEF Iterate, Descend
  <2>2. ps = ParamsAt(nodes, c)
    BY <1>1, <1>2, <1>5, PartialEnds
  <2>3. ScanTypes'
    BY <1>3, <1>4, <2>1 DEF ScanInv, ScanTypes
  <2>4. LoopsInv'
    <3>1. Depth' = Depth
      BY <2>1 DEF Depth
    <3> QED BY <1>1, <1>4, <1>5, <2>1, <2>2, <3>1 DEF ScanInv, LoopsInv, ScanLabels
  <2>5. PointInv'
    BY <2>1 DEF PointInv, PointLabels
  <2>6. AheadInv'
    <3> SUFFICES ASSUME next PROVE AheadInv'
      BY DEF AheadInv
    <3>1. PICK position \in DOMAIN nodes : AheadOf(position)
      BY DEF ScanInv, AheadInv
    <3>2. \A j \in 1..Depth : frames[j].index = Target(position)[j]
      BY <1>1, <3>1 DEF AheadOf, Leads
    <3>3. Coords(frames) = Target(position)
      BY <1>1, <1>5, <3>2 DEF Coords, Target, NextCoordinates
    <3>4. AheadOf(position)'
      BY <1>4, <2>1, <3>1, <3>3 DEF AheadOf, Target, Current
    <3> QED BY <1>4, <2>1, <3>1, <3>4 DEF ScanInv, AheadInv, Current
  <2> QED BY <2>3, <2>4, <2>5, <2>6 DEF ScanInv
<1>6. CASE Depth # Len(nodes)
  <2>1. pc' = "loop" /\ frames' = Append(frames, [index |-> 0, outer |-> ps])
    BY <1>6, <1>1 DEF Iterate, Descend, ps
  <2>a. [index |-> 0, outer |-> ps] \in Frame
    BY <1>3 DEF Frame
  <2>2. /\ Len(frames') = Depth + 1 /\ DOMAIN frames' = 1..(Depth + 1)
        /\ \A i \in 1..Depth : frames'[i] = frames[i]
        /\ frames'[Depth + 1] = [index |-> 0, outer |-> ps]
    BY <1>1, <2>1, <2>a
  <2>3. ScanTypes'
    BY <1>1, <1>3, <1>4, <2>1, <2>a DEF ScanInv, ScanTypes
  <2>4. \A i \in 1..Depth : Coords(frames')[i] = c[i]
    BY <2>2, <1>1 DEF Coords
  <2>5. ASSUME NEW i \in 1..(Depth + 1)
        PROVE  frames'[i].outer = Partial(nodes, Coords(frames'), i - 1)
    <3>1. Partial(nodes, Coords(frames'), i - 1) = Partial(nodes, c, i - 1)
      <4>1. i - 1 \in Nat /\ \A j \in 1..Len(nodes) : j <= i - 1 => Coords(frames')[j] = c[j]
        BY <1>1, <2>4
      <4> QED BY <1>1, <4>1, PartialPrefix
    <3>2. CASE i = Depth + 1
      BY <1>1, <1>2, <2>2, <3>1, <3>2
    <3>3. CASE i # Depth + 1
      BY <1>1, <2>2, <3>1, <3>3 DEF ScanInv, LoopsInv, ScanLabels
    <3> QED BY <3>2, <3>3
  <2>6. LoopsInv'
    <3>1. Size(nodes, Depth + 1) \in Nat
      BY <1>1, <1>6, <1>7, LayoutFacts
    <3>2. nodes' \in Layouts /\ Depth' = Depth + 1 /\ Depth' <= Len(nodes')
      <4>1. Depth' = Depth + 1
        BY <2>2 DEF Depth
      <4>2. Depth + 1 \in 1..Len(nodes) /\ nodes \in Layouts /\ Len(nodes) \in Nat
        BY <1>1, <1>6, <1>7
      <4>3. Depth + 1 <= Len(nodes)
        BY <4>2
      <4> QED BY <1>4, <4>1, <4>2, <4>3
    <3>3. \A i \in 1..Depth' : frames'[i].outer = Partial(nodes', Coords(frames'), i - 1)
      BY <1>4, <2>5, <3>2
    <3>4. \A i \in 1..Depth' : i < Depth' => frames'[i].index < Size(nodes', i)
      BY <1>1, <1>4, <2>2, <3>2
    <3>5. Depth' > 0 /\ frames'[Depth'].index <= Size(nodes', Depth')
      BY <1>1, <1>4, <2>2, <3>1, <3>2
    <3> QED BY <2>1, <3>2, <3>3, <3>4, <3>5 DEF LoopsInv
  <2>7. PointInv'
    BY <2>1 DEF PointInv, PointLabels
  <2>8. AheadInv'
    <3> SUFFICES ASSUME next PROVE AheadInv'
      BY DEF AheadInv
    <3>1. PICK position \in DOMAIN nodes : AheadOf(position)
      BY DEF ScanInv, AheadInv
    <3>2. Depth >= position /\ \A j \in 1..Depth : frames[j].index = Target(position)[j]
      BY <1>1, <3>1 DEF AheadOf, Leads
    <3>3. Target(position)[Depth + 1] = 0
      <4>1. Depth + 1 \in DOMAIN nodes /\ Depth + 1 > position /\ position \in Nat
        <5>1. position \in 1..Len(nodes) /\ Len(nodes) \in Nat /\ Depth \in Nat /\ Depth >= position
          BY <1>1, <3>2
        <5>2. Depth + 1 \in DOMAIN nodes
          BY <1>1, <1>6, <1>7
        <5> QED BY <5>1, <5>2
      <4>2. Depth + 1 # position /\ ~(Depth + 1 < position)
        <5>1. Depth \in Nat
          BY <1>1
        <5> QED BY <4>1, <5>1
      <4> QED BY <4>1, <4>2 DEF Target, NextCoordinates
    <3>4. Target(position)' = Target(position)
      BY <1>4 DEF Target, Current
    <3>5. Leads(position)'
      <4>1. Depth' = Depth + 1
        BY <2>2 DEF Depth
      <4>2. position \in Nat
        BY <1>1
      <4>3. \A j \in 1..(Depth + 1) : frames'[j].index = Target(position)[j]
        BY <1>1, <2>2, <3>2, <3>3
      <4> QED BY <1>1, <3>2, <3>4, <4>1, <4>2, <4>3 DEF Leads
    <3>6. AheadOf(position)'
      BY <1>4, <2>1, <3>1, <3>4, <3>5 DEF AheadOf, Current
    <3> QED BY <1>4, <2>1, <3>1, <3>6 DEF ScanInv, AheadInv, Current
  <2> QED BY <2>3, <2>6, <2>7, <2>8 DEF ScanInv
<1> QED BY <1>5, <1>6


\* Where the current point is.
LEMMA CurrentFacts ==
    ASSUME ScanTypes, recorded # <<>>
    PROVE  /\ Len(recorded) \in Nat \ {0}
           /\ Current \in [coords : Seq(Nat), params : AllParams, index : Nat]
           /\ \A i \in DOMAIN Current.coords : Current.coords[i] \in Nat
<1> DEFINE P == [coords : Seq(Nat), params : AllParams, index : Nat]
<1>1. recorded \in Seq(P)
  BY DEF ScanTypes
<1> HIDE DEF P
<1>2. Len(recorded) \in Nat \ {0} /\ recorded[Len(recorded)] \in P
  BY <1>1
<1>3. Current \in P
  BY <1>2 DEF Current
<1>4. Current.coords \in Seq(Nat)
  BY <1>3 DEF P
<1>5. \A i \in DOMAIN Current.coords : Current.coords[i] \in Nat
  BY <1>4
<1> QED BY <1>2, <1>3, <1>5 DEF P

\* Coming back: the innermost of the loops fs goes on to its next iteration,
\* which is the target's, or is exhausted on the way to it.
LEMMA ReturnScan ==
    ASSUME ScanInv, nodes \in Layouts, NEW fs \in Seq(Frame), NEW ps \in AllParams,
           Len(fs) \in 1..Len(nodes),
           \A i \in 1..Len(fs) : /\ fs[i].outer = Partial(nodes, Coords(fs), i - 1)
                                 /\ fs[i].index < Size(nodes, i),
           next => \E position \in DOMAIN nodes :
                       /\ position <= Len(fs)
                       /\ IsPosition(nodes, Current.coords, position)
                       /\ future.params = ParamsAt(nodes, Target(position))
                       /\ \A j \in 1..Len(fs) : fs[j].index = Current.coords[j],
           pc # "shutdown", Returned(fs, ps),
           UNCHANGED <<nodes, executionIndex, recorded, compiled, next, future>>
    PROVE  ScanInv'
<1> DEFINE d == Len(fs)
<1>1. /\ Len(nodes) \in Nat /\ DOMAIN nodes = 1..Len(nodes) /\ d \in 1..Len(nodes) /\ d \in Nat
      /\ d >= 1 /\ d <= Len(nodes)
      /\ \A i \in 1..Len(nodes) : Size(nodes, i) \in Nat
  BY LayoutFacts
<1>2. fs # <<>> /\ DOMAIN fs = 1..d
  BY <1>1
<1>3. /\ frames' = [fs EXCEPT ![d].index = @ + 1]
      /\ params' = ps /\ pc' = "loop"
  BY <1>2 DEF Returned
<1>4. \A i \in 1..d : fs[i] \in Frame
  BY <1>2
<1>5. \A i \in 1..d : fs[i].index \in Nat /\ fs[i].outer \in AllParams
  BY <1>4 DEF Frame
<1>6. [fs[d] EXCEPT !.index = @ + 1] = [index |-> fs[d].index + 1, outer |-> fs[d].outer]
  BY <1>1, <1>4 DEF Frame
<1>7. [index |-> fs[d].index + 1, outer |-> fs[d].outer] \in Frame
  BY <1>1, <1>5 DEF Frame
<1>8. frames' = [i \in 1..d |-> IF i = d THEN [index |-> fs[d].index + 1, outer |-> fs[d].outer]
                                ELSE fs[i]]
  BY <1>1, <1>2, <1>3, <1>6
<1>9. /\ frames' \in Seq(Frame) /\ Len(frames') = d /\ Depth' = d /\ DOMAIN frames' = 1..d
      /\ \A i \in 1..d : i # d => frames'[i] = fs[i]
      /\ frames'[d] = [index |-> fs[d].index + 1, outer |-> fs[d].outer]
  BY <1>1, <1>4, <1>7, <1>8 DEF Depth
<1> HIDE DEF d
<1>10. /\ \A i \in 1..d : frames'[i].outer = fs[i].outer
       /\ \A i \in 1..d : i # d => frames'[i].index = fs[i].index
       /\ frames'[d].index = fs[d].index + 1
  BY <1>9
<1>11. ScanTypes'
  BY <1>3, <1>9 DEF ScanInv, ScanTypes
<1>12. LoopsInv'
  <2>1. ASSUME NEW i \in 1..d
        PROVE  frames'[i].outer = Partial(nodes', Coords(frames'), i - 1)
    <3>1. i - 1 \in Nat /\ \A j \in 1..Len(nodes) : j <= i - 1 => j \in 1..d /\ j # d
      BY <1>1
    <3>2. \A j \in 1..Len(nodes) : j <= i - 1 => Coords(frames')[j] = Coords(fs)[j]
      BY <1>2, <1>9, <1>10, <3>1 DEF Coords
    <3>3. Partial(nodes, Coords(frames'), i - 1) = Partial(nodes, Coords(fs), i - 1)
      BY <3>1, <3>2, PartialPrefix
    <3> QED BY <1>10, <3>3 DEF d
  <2>2. \A i \in 1..d : i < d => frames'[i].index < Size(nodes', i)
    BY <1>1, <1>10 DEF d
  <2>3. frames'[d].index <= Size(nodes', d)
    <3>1. fs[d].index < Size(nodes, d) /\ fs[d].index \in Nat /\ Size(nodes, d) \in Nat
      BY <1>1, <1>5 DEF d
    <3> QED BY <1>10, <3>1
  <2>4. nodes' \in Layouts /\ Depth' = d /\ d <= Len(nodes') /\ d > 0
    BY <1>1, <1>9
  <2> HIDE DEF Depth
  <2> QED BY <1>3, <2>1, <2>2, <2>3, <2>4 DEF LoopsInv
<1>13. PointInv'
  BY <1>3 DEF PointInv, PointLabels
<1>14. AheadInv'
  <2> SUFFICES ASSUME next PROVE AheadInv'
    BY DEF AheadInv
  <2>1. /\ recorded # <<>> /\ DOMAIN Current.coords = DOMAIN nodes
        /\ \A i \in DOMAIN nodes : Current.coords[i] < Size(nodes, i)
    BY DEF ScanInv, AheadInv
  <2>2. PICK position \in DOMAIN nodes :
           /\ position <= d
           /\ IsPosition(nodes, Current.coords, position)
           /\ future.params = ParamsAt(nodes, Target(position))
           /\ \A j \in 1..d : fs[j].index = Current.coords[j]
    BY DEF d
  <2>3. Current' = Current /\ Target(position)' = Target(position)
    BY DEF Target, Current
  <2>4. \A i \in DOMAIN nodes : Current.coords[i] \in Nat
    BY <2>1, CurrentFacts DEF ScanInv
  <2>5. position \in Nat /\ position \in 1..Len(nodes)
    BY <1>1
  <2>6. Leads(position)'
    <3>1. CASE position = d
      <4>1. ASSUME NEW j \in 1..d
            PROVE  frames'[j].index = Target(position)[j]
        <5>1. j \in DOMAIN nodes /\ (j # d => j < position) /\ ~(d < position)
          BY <1>1, <3>1
        <5> QED BY <1>10, <2>2, <3>1, <5>1 DEF Target, NextCoordinates
      <4> QED BY <1>1, <1>9, <2>3, <3>1, <4>1 DEF Leads
    <3>2. CASE position # d
      <4>1. d > position /\ d \in DOMAIN nodes
        BY <1>1, <2>2, <2>5, <3>2
      <4>2. Current.coords[d] + 1 >= Size(nodes, d) /\ Current.coords[d] < Size(nodes, d)
        BY <2>1, <2>2, <4>1 DEF IsPosition
      <4>3. Current.coords[d] + 1 = Size(nodes, d)
        BY <1>1, <2>4, <4>1, <4>2
      <4>4. frames'[d].index = Size(nodes, d)
        BY <1>1, <1>10, <2>2, <4>3
      <4>5. \A j \in 1..(d - 1) : frames'[j].index = Current.coords[j]
        BY <1>1, <1>10, <2>2
      <4> QED BY <1>9, <2>3, <4>1, <4>4, <4>5 DEF Leads
    <3> QED BY <3>1, <3>2
  <2>7. AheadOf(position)'
    BY <1>3, <2>2, <2>3, <2>6 DEF AheadOf
  <2> QED BY <2>1, <2>3, <2>7 DEF AheadInv
<1> QED BY <1>11, <1>12, <1>13, <1>14 DEF ScanInv


\* An iteration that passes its checkpoint, the end of a loop, and the rest.
LEMMA LoopScan ==
    ASSUME ScanInv, ThreadInv, Loop
    PROVE  ScanInv'
<1>1. pc = "loop" /\ UNCHANGED <<recorded, compiled, next, future>>
  BY DEF Loop, compileVars
<1>2. CASE EndLoop /\ ~RaiseInTraversal("analyze")
  <2> DEFINE fs == SubSeq(frames, 1, Depth - 1)
             ps == frames[Depth].outer
  <2>1. /\ frames[Depth].index = Size(nodes, Depth)
        /\ Returned(fs, ps)
        /\ UNCHANGED <<nodes, executionIndex>>
    BY <1>2 DEF EndLoop
  <2>2. /\ nodes \in Layouts /\ frames \in Seq(Frame) /\ Depth <= Len(nodes) /\ Depth > 0
        /\ \A i \in 1..Depth : frames[i].outer = Partial(nodes, Coords(frames), i - 1)
        /\ \A i \in 1..Depth : i < Depth => frames[i].index < Size(nodes, i)
    BY <1>1 DEF ScanInv, ScanTypes, LoopsInv, ScanLabels
  <2>3. /\ Depth \in Nat \ {0} /\ Len(nodes) \in Nat /\ DOMAIN nodes = 1..Len(nodes)
        /\ \A i \in 1..Len(nodes) : Size(nodes, i) \in Nat
        /\ \A i \in 1..Depth : /\ frames[i].index \in Nat /\ frames[i].outer \in AllParams
                               /\ Coords(frames)[i] = frames[i].index
    BY <2>2, LayoutFacts, FrameFacts DEF Depth
  <2>4. ps \in AllParams
    BY <2>3
  <2>5. CASE Depth = 1
    <3>1. fs = <<>>
      BY <2>2, <2>5
    <3>2. ps = EmptyParams
      <4>1. ps = Partial(nodes, Coords(frames), 0)
        BY <2>2, <2>3, <2>5
      <4> QED BY <2>2, <4>1, PartialEnds
    <3> QED BY <1>1, <2>1, <3>1, <3>2, LeaveScan DEF Returned
  <2>6. CASE Depth # 1
    <3> DEFINE e == Depth - 1
    <3>1. e \in Nat /\ e \in 1..Len(nodes) /\ e >= 1 /\ e < Depth
      BY <2>2, <2>3, <2>6
    <3>2. /\ fs \in Seq(Frame) /\ Len(fs) = e
          /\ \A i \in 1..e : fs[i] = frames[i]
      BY <2>2, <2>3, <3>1 DEF Depth
    <3> HIDE DEF fs, ps, e
    <3>3. ASSUME NEW i \in 1..e
          PROVE  /\ fs[i].outer = Partial(nodes, Coords(fs), i - 1)
                 /\ fs[i].index < Size(nodes, i)
      <4>1. i \in 1..Depth /\ i < Depth /\ i - 1 \in Nat
        BY <2>3, <3>1
      <4>2. DOMAIN fs = 1..e
        BY <3>2
      <4>3. ASSUME NEW j \in 1..Len(nodes), j <= i - 1
            PROVE  Coords(frames)[j] = Coords(fs)[j]
        <5>1. j \in 1..e /\ j \in 1..Depth
          BY <2>3, <3>1, <4>1, <4>3
        <5> QED BY <2>3, <3>2, <4>2, <5>1 DEF Coords
      <4>4. Partial(nodes, Coords(frames), i - 1) = Partial(nodes, Coords(fs), i - 1)
        BY <2>2, <4>1, <4>3, PartialPrefix
      <4> QED BY <2>2, <3>2, <4>1, <4>4
    <3>4. ASSUME next
          PROVE  \E position \in DOMAIN nodes :
                     /\ position <= e
                     /\ IsPosition(nodes, Current.coords, position)
                     /\ future.params = ParamsAt(nodes, Target(position))
                     /\ \A j \in 1..e : fs[j].index = Current.coords[j]
      <4>1. /\ recorded # <<>> /\ DOMAIN Current.coords = DOMAIN nodes
            /\ \A i \in DOMAIN nodes : Current.coords[i] < Size(nodes, i)
            /\ \E position \in DOMAIN nodes : AheadOf(position)
        BY <1>1, <3>4 DEF ScanInv, AheadInv
      <4>2. PICK position \in DOMAIN nodes : AheadOf(position)
        BY <4>1
      <4>3. Depth \in DOMAIN nodes /\ position \in Nat
        BY <2>2, <2>3
      <4>4. Current.coords[Depth] \in Nat /\ Current.coords[Depth] < Size(nodes, Depth)
        BY <4>1, <4>3, CurrentFacts DEF ScanInv
      <4>5. Depth >= position => Target(position)[Depth] # Size(nodes, Depth)
        <5>1. CASE Depth = position
          <6>1. Target(position)[Depth] = Current.coords[Depth] + 1
            BY <4>3, <5>1 DEF Target, NextCoordinates
          <6>2. Current.coords[Depth] + 1 < Size(nodes, Depth)
            BY <4>2, <5>1 DEF AheadOf, IsPosition
          <6> QED BY <4>3, <4>4, <6>1, <6>2, <2>2, <2>3
        <5>2. CASE Depth > position
          <6>1. Depth # position /\ ~(Depth < position)
            BY <2>3, <4>3, <5>2
          <6>2. Target(position)[Depth] = 0
            BY <4>3, <6>1 DEF Target, NextCoordinates
          <6>3. Size(nodes, Depth) \in Nat
            BY <2>3, <4>3
          <6> QED BY <4>4, <6>2, <6>3
        <5> QED BY <2>3, <4>3, <5>1, <5>2
      <4>6. Leads(position)
        BY <1>1, <4>2 DEF AheadOf
      <4>7. Depth \in 1..Depth
        BY <2>3
      <4>8. Depth > position /\ \A j \in 1..(Depth - 1) : frames[j].index = Current.coords[j]
        BY <2>1, <4>5, <4>6, <4>7 DEF Leads
      <4>9. position <= e
        BY <2>3, <4>3, <4>8 DEF e
      <4>10. \A j \in 1..e : fs[j].index = Current.coords[j]
        BY <3>2, <4>8 DEF e
      <4> QED BY <4>2, <4>9, <4>10 DEF AheadOf
    <3>5. pc # "shutdown" /\ Len(fs) \in 1..Len(nodes)
      BY <1>1, <3>1, <3>2
    <3> QED BY <1>1, <2>1, <2>2, <2>4, <3>2, <3>3, <3>4, <3>5, ReturnScan DEF ps
  <2> QED BY <2>5, <2>6
<1>3. CASE RaiseInTraversal("analyze") \/ StopTraversal
  BY <1>1, <1>3, LeaveScan DEF RaiseInTraversal, Raise, StopTraversal
<1>4. CASE Sleep
  BY <1>1, <1>4, IdleScan DEF Sleep, scanVars
<1>5. CASE Iterate /\ frames[Depth].index < Size(nodes, Depth)
  BY <1>1, <1>5, IterateScan
<1> QED BY <1>2, <1>3, <1>4, <1>5 DEF Loop


\* The first call_next.
LEMMA ConfigureScan ==
    ASSUME ScanInv, ThreadInv, Configure
    PROVE  ScanInv'
<1>1. pc = "configure" /\ ~next /\ UNCHANGED <<recorded, compiled, next, future>>
  BY DEF Configure, ThreadInv, compileVars
<1>2. CASE Raise("configure", "close") /\ UNCHANGED scanVars
  <2>1. ScanTypes'
    BY <1>1, <1>2 DEF ScanInv, ScanTypes, scanVars
  <2> QED BY <1>1, <1>2, <2>1, OutsideScan DEF Raise, ScanLabels, PointLabels
<1>3. ASSUME NEW layout \in Layouts, nodes' = layout, Descend(layout, <<>>, EmptyParams),
             executionIndex' = 0
      PROVE  ScanInv'
  <2>1. EmptyParams \in AllParams
    <3>1. EmptyParams \in [{} -> ParamValues]
      BY DEF EmptyParams
    <3> QED BY <3>1 DEF AllParams
  <2>2. Len(layout) \in Nat /\ params' = EmptyParams /\ Len(<<>>) = 0
    BY <1>3, LayoutFacts DEF Descend
  <2>3. CASE Len(layout) = 0
    <3>1. pc' = "final" /\ frames' = <<>> /\ Depth' = 0
      BY <1>3, <2>2, <2>3 DEF Descend, Depth
    <3>2. EmptyParams = ParamsAt(layout, Coords(frames'))
      BY <1>3, <2>3, PartialEnds
    <3>3. ScanTypes'
      BY <1>1, <1>3, <2>1, <2>2, <3>1 DEF ScanInv, ScanTypes
    <3>4. LoopsInv'
      BY <1>3, <2>2, <2>3, <3>1, <3>2 DEF LoopsInv
    <3> QED BY <1>1, <3>1, <3>3, <3>4 DEF ScanInv, PointInv, AheadInv, PointLabels
  <2>4. CASE Len(layout) # 0
    <3> DEFINE f == [index |-> 0, outer |-> EmptyParams]
    <3>1. pc' = "loop" /\ frames' = Append(<<>>, f)
      BY <1>3, <2>2, <2>4 DEF Descend
    <3>2. f \in Frame
      BY <2>1 DEF Frame
    <3>3. frames' = <<f>>
      BY <3>1
    <3>4. frames' \in Seq(Frame) /\ Depth' = 1 /\ frames'[1] = f
      BY <3>2, <3>3 DEF Depth
    <3>5. frames'[1].index = 0 /\ frames'[1].outer = EmptyParams
      BY <3>4
    <3>6. frames'[1].outer = Partial(layout, Coords(frames'), 1 - 1)
      BY <1>3, <3>5, PartialEnds
    <3>7. Size(layout, 1) \in Nat /\ 1 <= Len(layout)
      BY <1>3, <2>2, <2>4, LayoutFacts
    <3>8. ScanTypes'
      BY <1>1, <1>3, <2>1, <2>2, <3>4 DEF ScanInv, ScanTypes
    <3> HIDE DEF f
    <3>9. LoopsInv'
      BY <1>3, <3>1, <3>4, <3>5, <3>6, <3>7 DEF LoopsInv
    <3> QED BY <1>1, <3>1, <3>8, <3>9 DEF ScanInv, PointInv, AheadInv, PointLabels
  <2> QED BY <2>3, <2>4
<1> QED BY <1>2, <1>3 DEF Configure

\* The point that is recorded is the one the compilation ahead was for.
LEMMA AttemptScan ==
    ASSUME ScanInv, Attempt
    PROVE  ScanInv'
<1> DEFINE point == [coords |-> Coords(frames), params |-> params, index |-> executionIndex]
           P == [coords : Seq(Nat), params : AllParams, index : Nat]
<1>1. /\ pc = "attempt" /\ UNCHANGED <<nodes, frames, params, compiled, future>>
      /\ pc' = IF next THEN "await" ELSE "compile"
      /\ ~next'
  BY DEF Attempt
<1>2. recorded' = Append(recorded, point) /\ executionIndex' = executionIndex + 1
  BY DEF Attempt, RecordPoint, Coords
<1>3. /\ frames \in Seq(Frame) /\ recorded \in Seq(P) /\ params \in AllParams
      /\ executionIndex \in Nat
  BY DEF ScanInv, ScanTypes
<1>4. point \in P
  <2>1. Coords(frames) \in Seq(Nat)
    BY <1>3, FrameFacts DEF Coords
  <2> QED BY <1>3, <2>1
<1> HIDE DEF P, point
<1>5. /\ recorded' \in Seq(P) /\ recorded' # <<>>
      /\ recorded'[Len(recorded')] = point
  BY <1>2, <1>3, <1>4
<1>6. Current' = point
  BY <1>5 DEF Current
<1>7. ScanTypes'
  BY <1>1, <1>2, <1>3, <1>5 DEF ScanTypes, P
<1>8. LoopsInv'
  BY <1>1 DEF ScanInv, LoopsInv, ScanLabels, PointLabels, Depth
<1>9. params = ParamsAt(nodes, Coords(frames))
  BY <1>1 DEF ScanInv, LoopsInv, ScanLabels
<1>10. next => future.params = ParamsAt(nodes, Coords(frames))
  BY <1>1 DEF ScanInv, AheadInv, AheadOf
<1>11. PointInv'
  BY <1>1, <1>5, <1>6, <1>9, <1>10 DEF PointInv, point
<1> QED BY <1>1, <1>7, <1>8, <1>11 DEF ScanInv, AheadInv

\* The program of the point, from either thread.
LEMMA CompileScan ==
    ASSUME ScanInv, ThreadInv, CompileNow \/ AwaitCompilation
    PROVE  ScanInv'
<1>1. /\ pc \in {"compile", "await"} /\ ~next
      /\ UNCHANGED <<recorded, next, future>>
  BY DEF CompileNow, AwaitCompilation, ThreadInv, pointUnchanged
<1>2. CASE RaiseInTraversal("compile")
  BY <1>1, <1>2, LeaveScan DEF RaiseInTraversal, Raise
<1>3. CASE ~RaiseInTraversal("compile")
  <2>1. /\ pc' = "prepare" /\ UNCHANGED scanVars
        /\ compiled' = IF pc = "compile" THEN Current.params ELSE future.params
    BY <1>3 DEF CompileNow, AwaitCompilation
  <2>2. compiled' = ParamsAt(nodes, Current.coords)
    BY <1>1, <2>1 DEF ScanInv, PointInv, PointLabels
  <2>3. ScanTypes'
    BY <1>1, <2>1 DEF ScanInv, ScanTypes, scanVars
  <2>4. LoopsInv'
    BY <1>1, <2>1 DEF ScanInv, LoopsInv, ScanLabels, PointLabels, scanVars, Depth
  <2>5. PointInv'
    BY <1>1, <2>1, <2>2 DEF ScanInv, PointInv, PointLabels, scanVars, Current
  <2> QED BY <1>1, <2>3, <2>4, <2>5 DEF ScanInv, AheadInv
<1> QED BY <1>2, <1>3

\* The compilation ahead is submitted for the target.
LEMMA PrepareScan ==
    ASSUME ScanInv, ThreadInv, PrepareDevices
    PROVE  ScanInv'
<1>1. pc = "prepare" /\ ~next /\ UNCHANGED <<recorded, compiled>>
  BY DEF PrepareDevices, ThreadInv, pointUnchanged
<1>2. CASE RaiseInTraversal("devices")
  BY <1>1, <1>2, LeaveScan DEF RaiseInTraversal, Raise
<1>3. CASE ~RaiseInTraversal("devices")
  <2>1. pc' = "run" /\ UNCHANGED scanVars
    BY <1>3 DEF PrepareDevices
  <2>2. ScanTypes'
    BY <1>1, <2>1 DEF ScanInv, ScanTypes, scanVars
  <2>3. LoopsInv'
    BY <1>1, <2>1 DEF ScanInv, LoopsInv, ScanLabels, PointLabels, scanVars, Depth
  <2>4. PointInv'
    BY <1>1, <2>1 DEF ScanInv, PointInv, PointLabels, scanVars, Current
  <2>5. AheadInv'
    <3>1. CASE ~next'
      BY <3>1 DEF AheadInv
    <3>2. CASE next'
      <4>1. PICK position \in DOMAIN nodes :
               /\ IsPosition(nodes, Current.coords, position)
               /\ Submit(NextCoordinates(nodes, Current.coords, position))
        BY <1>1, <1>3, <3>2 DEF PrepareDevices
      <4>2. /\ nodes' = nodes /\ Current' = Current
            /\ future'.params = ParamsAt(nodes, Target(position))
        BY <1>1, <2>1, <4>1 DEF Submit, Target, Current, scanVars
      <4>3. AheadOf(position)'
        BY <2>1, <4>1, <4>2 DEF AheadOf, Target
      <4>4. /\ frames \in Seq(Frame) /\ nodes \in Layouts /\ Depth = Len(nodes)
            /\ \A i \in 1..Depth : frames[i].index < Size(nodes, i)
            /\ recorded # <<>> /\ Current.coords = Coords(frames)
        BY <1>1 DEF ScanInv, ScanTypes, LoopsInv, PointInv, ScanLabels, PointLabels
      <4>5. /\ DOMAIN Current.coords = DOMAIN nodes
            /\ \A i \in DOMAIN nodes : Current.coords[i] < Size(nodes, i)
        BY <4>4, FrameFacts, LayoutFacts DEF Depth
      <4> QED BY <1>1, <4>2, <4>3, <4>4, <4>5 DEF AheadInv
    <3> QED BY <3>1, <3>2
  <2> QED BY <2>2, <2>3, <2>4, <2>5 DEF ScanInv
<1> QED BY <1>2, <1>3


\* While the program runs and its results are read, nothing moves.
LEMMA RunScan ==
    ASSUME ScanInv, RunSequence \/ ReadDevices
    PROVE  ScanInv'
<1>1. /\ pc \in {"run", "read"} /\ UNCHANGED <<recorded, compiled, next, future>>
  BY DEF RunSequence, ReadDevices, pointUnchanged, compileVars
<1>2. CASE RaiseInTraversal("runtime") \/ RaiseInTraversal("devices")
  BY <1>1, <1>2, LeaveScan DEF RaiseInTraversal, Raise
<1>3. CASE ~(RaiseInTraversal("runtime") \/ RaiseInTraversal("devices"))
  <2>1. pc' \in {"read", "analyze"} /\ UNCHANGED <<nodes, frames, params, executionIndex>>
    BY <1>3 DEF RunSequence, ReadDevices, scanVars
  <2>2. ScanTypes'
    BY <1>1, <2>1 DEF ScanInv, ScanTypes
  <2>3. LoopsInv'
    BY <1>1, <2>1 DEF ScanInv, LoopsInv, ScanLabels, PointLabels, Depth
  <2>4. PointInv'
    BY <1>1, <2>1 DEF ScanInv, PointInv, PointLabels, Current
  <2>5. AheadInv'
    BY <1>1, <2>1 DEF ScanInv, AheadInv, AheadOf, Target, Current
  <2> QED BY <2>2, <2>3, <2>4, <2>5 DEF ScanInv
<1> QED BY <1>2, <1>3

\* The end of a point.
LEMMA AnalyzeScan ==
    ASSUME ScanInv, AnalyzePoint
    PROVE  ScanInv'
<1>1. /\ pc = "analyze" /\ UNCHANGED <<recorded, compiled, next, future>>
  BY DEF AnalyzePoint, pointUnchanged, compileVars
<1>2. CASE RaiseInTraversal("analyze")
  BY <1>1, <1>2, LeaveScan DEF RaiseInTraversal, Raise
<1>3. CASE ~RaiseInTraversal("analyze")
  <2>1. Returned(frames, params) /\ UNCHANGED <<nodes, executionIndex>>
    BY <1>3 DEF AnalyzePoint
  <2>2. /\ nodes \in Layouts /\ frames \in Seq(Frame) /\ params \in AllParams
        /\ Depth = Len(nodes)
        /\ \A i \in 1..Depth : /\ frames[i].outer = Partial(nodes, Coords(frames), i - 1)
                               /\ frames[i].index < Size(nodes, i)
        /\ Current.coords = Coords(frames)
        /\ params = ParamsAt(nodes, Coords(frames))
    BY <1>1 DEF ScanInv, ScanTypes, LoopsInv, PointInv, ScanLabels, PointLabels
  <2>3. CASE frames = <<>>
    <3>1. Len(nodes) = 0
      BY <2>2, <2>3 DEF Depth
    <3>2. params = EmptyParams
      BY <2>2, <3>1, PartialEnds
    <3> QED BY <1>1, <2>1, <2>3, <3>2, LeaveScan DEF Returned
  <2>4. CASE frames # <<>>
    <3>1. Len(frames) \in 1..Len(nodes) /\ Len(frames) = Len(nodes)
      BY <2>2, <2>4, LayoutFacts DEF Depth
    <3>2. \A i \in 1..Len(frames) : /\ frames[i].outer = Partial(nodes, Coords(frames), i - 1)
                                    /\ frames[i].index < Size(nodes, i)
      BY <2>2 DEF Depth
    <3>3. next => \E position \in DOMAIN nodes :
                     /\ position <= Len(frames)
                     /\ IsPosition(nodes, Current.coords, position)
                     /\ future.params = ParamsAt(nodes, Target(position))
                     /\ \A j \in 1..Len(frames) : frames[j].index = Current.coords[j]
      <4> SUFFICES ASSUME next
                   PROVE  \E position \in DOMAIN nodes :
                             /\ position <= Len(frames)
                             /\ IsPosition(nodes, Current.coords, position)
                             /\ future.params = ParamsAt(nodes, Target(position))
                             /\ \A j \in 1..Len(frames) : frames[j].index = Current.coords[j]
        OBVIOUS
      <4>1. PICK position \in DOMAIN nodes : AheadOf(position)
        BY <1>1 DEF ScanInv, AheadInv
      <4>2. position <= Len(frames)
        <5>1. position \in 1..Len(nodes) /\ Len(nodes) \in Nat
          BY <2>2, LayoutFacts
        <5> QED BY <3>1, <5>1
      <4>3. \A j \in 1..Len(frames) : frames[j].index = Current.coords[j]
        BY <2>2, FrameFacts
      <4> QED BY <4>1, <4>2, <4>3 DEF AheadOf
    <3>4. pc # "shutdown"
      BY <1>1
    <3> QED BY <1>1, <2>1, <2>2, <3>1, <3>2, <3>3, <3>4, ReturnScan
  <2> QED BY <2>3, <2>4
<1> QED BY <1>2, <1>3

\* One case for each action.
LEMMA StepScan ==
    ASSUME ScanInv, ThreadInv, [Next]_vars
    PROVE  ScanInv'
<1>1. CASE BeginRun \/ StartDevices \/ Shutdown \/ Conclude \/ CloseRun \/ EndRun
  <2>1. UNCHANGED <<scanVars, recorded>>
    BY <1>1 DEF BeginRun, StartDevices, Shutdown, Conclude, CloseRun, EndRun
  <2>2. ScanTypes'
    BY <2>1 DEF ScanInv, ScanTypes, scanVars
  <2>3. pc' \notin ScanLabels
    BY <1>1 DEF BeginRun, StartDevices, Shutdown, Conclude, CloseRun, EndRun, Raise,
                ScanLabels, PointLabels
  <2>4. ~next'
    BY <1>1 DEF BeginRun, StartDevices, Shutdown, Conclude, CloseRun, EndRun, ThreadInv,
                compileVars
  <2> QED BY <2>2, <2>3, <2>4, OutsideScan
<1>2. CASE Configure
  BY <1>2, ConfigureScan
<1>3. CASE Loop
  BY <1>3, LoopScan
<1>4. CASE FinalCheckpoint
  <2>1. pc = "final" /\ UNCHANGED <<recorded, compiled, next, future>>
    BY <1>4 DEF FinalCheckpoint, compileVars
  <2>2. CASE StopTraversal
    BY <2>1, <2>2, LeaveScan DEF StopTraversal
  <2>3. CASE Sleep
    BY <2>1, <2>3, IdleScan DEF Sleep, scanVars
  <2>4. CASE pc' = "attempt" /\ UNCHANGED scanVars
    <3>1. ScanTypes'
      BY <2>1, <2>4 DEF ScanInv, ScanTypes, scanVars
    <3>2. LoopsInv'
      BY <2>1, <2>4 DEF ScanInv, LoopsInv, ScanLabels, scanVars, Depth
    <3>3. PointInv'
      BY <2>4 DEF PointInv, PointLabels
    <3>4. AheadInv'
      BY <2>1, <2>4 DEF ScanInv, AheadInv, AheadOf, Target, Current, scanVars
    <3> QED BY <3>1, <3>2, <3>3, <3>4 DEF ScanInv
  <2> QED BY <1>4, <2>2, <2>3, <2>4 DEF FinalCheckpoint
<1>5. CASE Attempt
  BY <1>5, AttemptScan
<1>6. CASE CompileNow \/ AwaitCompilation
  BY <1>6, CompileScan
<1>7. CASE PrepareDevices
  BY <1>7, PrepareScan
<1>8. CASE RunSequence \/ ReadDevices
  BY <1>8, RunScan
<1>9. CASE AnalyzePoint
  BY <1>9, AnalyzeScan
<1>10. CASE Worker
  <2>1. UNCHANGED workerUnchanged /\ future'.params = future.params
    <3>1. UNCHANGED workerUnchanged
      BY <1>10 DEF Worker, StartCompilation, EndCompilation
    <3>2. \/ UNCHANGED future
          \/ \E state \in {"running", "done", "failed"} :
                future' = [future EXCEPT !.state = state]
      BY <1>10 DEF Worker, StartCompilation, EndCompilation
    <3>3. future = [state |-> future.state, params |-> future.params]
      BY DEF ThreadInv
    <3> QED BY <3>1, <3>2, <3>3
  <2> QED BY <2>1, IdleScan DEF workerUnchanged, scanVars
<1>11. CASE RequestPause \/ Resume \/ RequestStop
  BY <1>11, IdleScan DEF RequestPause, Resume, RequestStop, controlUnchanged, scanVars,
                         compileVars
<1>12. CASE UNCHANGED vars
  BY <1>12, IdleScan DEF vars, scanVars, compileVars
<1> QED BY <1>1, <1>2, <1>3, <1>4, <1>5, <1>6, <1>7, <1>8, <1>9, <1>10, <1>11, <1>12
        DEF Next, Host, User

\* Every program that runs was compiled from the parameters of its point, in
\* every layout of repeat and scan nodes.
THEOREM ProgramIsOfPoint == Spec => []ProgramOfPoint
<1>1. ScanInv => ProgramOfPoint
  BY DEF ScanInv, PointInv, ProgramOfPoint, PointLabels
<1> QED BY InitScan, InitThread, StepScan, StepThread, <1>1, PTL DEF Spec


-----------------------------------------------------------------------------
(* Device rows. *)

Attempts == Len(recorded)

\* How many rows each device has at each step.  A run that reaches its
\* devices found no H5 file, so no earlier run has attempted a point.
RowsInv ==
    /\ rows \in [Devices -> Nat] /\ Attempts \in Nat
    /\ file = "absent" \/ pc \in {"start_devices", "configure"} => Attempts = 0
    /\ pc \in {"start_devices", "configure", "conclude"} \cup ScanLabels => runError = None
    /\ pc \in {"configure", "loop", "final", "attempt", "analyze", "conclude"} =>
          \A d \in Devices : rows[d] = Attempts
    /\ pc \in {"compile", "await", "prepare", "run", "read"} =>
          \A d \in Devices : rows[d] = Attempts - 1
    /\ pc \in {"idle", "start_devices", "close", "persist", "shutdown"} =>
          \A d \in Devices : rows[d] = Attempts \/ rows[d] = Attempts - 1
    /\ pc = "shutdown" /\ runError = None => \A d \in Devices : rows[d] = Attempts

\* Steps that change neither rows nor ParaDict.
LEMMA SameRows ==
    ASSUME RowsInv, UNCHANGED <<rows, recorded, file, runError>>,
           \/ pc' = pc
           \/ /\ pc \in {"loop", "final", "analyze"}
              /\ pc' \in {"loop", "final", "attempt", "shutdown"}
           \/ pc = "configure" /\ pc' \in {"loop", "final"}
           \/ pc \in {"compile", "await"} /\ pc' = "prepare"
           \/ pc = "prepare" /\ pc' = "run"
           \/ pc = "run" /\ pc' = "read"
           \/ pc = "shutdown" /\ pc' = (IF runError = None THEN "conclude" ELSE "close")
           \/ pc = "conclude" /\ pc' = "close"
           \/ pc = "close" /\ pc' = "persist"
    PROVE  RowsInv'
  BY DEF RowsInv, Attempts, ScanLabels, PointLabels

\* A failure, before or inside the traversal.
LEMMA FailedRows ==
    ASSUME RowsInv, UNCHANGED <<rows, recorded, file>>, NEW error, error # None,
           runError' = error,
           pc \in {"configure", "conclude"} \cup ScanLabels,
           pc' \in {"shutdown", "close"}
    PROVE  RowsInv'
  BY DEF RowsInv, Attempts, ScanLabels, PointLabels

\* Every step keeps the rows.
LEMMA StepRows ==
    ASSUME RowsInv, ThreadInv, ScanInv, [Next]_vars
    PROVE  RowsInv'
<1> USE DEF None
<1>1. CASE BeginRun
  <2>1. /\ pc = "idle" /\ UNCHANGED <<rows, recorded>>
        /\ \/ file = "absent" /\ pc' = "start_devices" /\ runError' = None
           \/ pc' = "close"
        /\ file' = "absent" => file = "absent"
        /\ file' # "absent" \/ file' = file
    BY <1>1 DEF BeginRun, deviceVars
  <2> QED BY <2>1 DEF RowsInv, Attempts, ScanLabels, PointLabels
<1>2. CASE StartDevices
  <2>1. /\ pc = "start_devices" /\ UNCHANGED <<recorded, file>> /\ Attempts = 0
        /\ \A d \in Devices : rows[d] = 0
        /\ runError = None
    BY <1>2 DEF StartDevices, RowsInv, fileVars
  <2>2. PICK k \in 0..DeviceCount :
           /\ rows' = [d \in Devices |-> IF d <= k + 1 THEN 0 ELSE rows[d]]
           /\ \/ pc' = "configure" /\ runError' = runError
              \/ pc' = "close"
    BY <1>2 DEF StartDevices, Raise, errorVars
  <2>3. rows' \in [Devices -> Nat] /\ \A d \in Devices : rows'[d] = 0
    BY <2>1, <2>2
  <2>4. Attempts' = 0
    BY <2>1 DEF Attempts
  <2> QED BY <2>1, <2>2, <2>3, <2>4 DEF RowsInv, ScanLabels, PointLabels
<1>3. CASE Configure
  <2>1. pc = "configure" /\ UNCHANGED <<rows, recorded, file>>
    BY <1>3 DEF Configure, deviceVars, fileVars
  <2>2. CASE Raise("configure", "close")
    BY <2>1, <2>2, FailedRows DEF Raise
  <2>3. CASE pc' \in {"loop", "final"} /\ runError' = runError
    BY <2>1, <2>3, SameRows
  <2> QED BY <1>3, <2>2, <2>3 DEF Configure, Descend, errorVars
<1>4. CASE Loop \/ FinalCheckpoint \/ AnalyzePoint
  <2>1. /\ pc \in {"loop", "final", "analyze"} /\ UNCHANGED <<rows, recorded, file>>
    BY <1>4 DEF Loop, FinalCheckpoint, AnalyzePoint, pointUnchanged, deviceVars, fileVars
  <2>2. CASE RaiseInTraversal("analyze")
    BY <2>1, <2>2, FailedRows DEF RaiseInTraversal, Raise, ScanLabels, PointLabels
  <2>3. CASE ~RaiseInTraversal("analyze")
    <3>1. runError' = runError
      BY <1>4, <2>3 DEF Loop, FinalCheckpoint, AnalyzePoint, EndLoop, StopTraversal, Sleep,
                        Iterate, errorVars
    <3>2. pc' = pc \/ pc' \in {"loop", "final", "attempt", "shutdown"}
      BY <1>4, <2>3 DEF Loop, FinalCheckpoint, AnalyzePoint, EndLoop, StopTraversal, Sleep,
                        Iterate, Descend, Returned
    <3> QED BY <2>1, <3>1, <3>2, SameRows
  <2> QED BY <2>2, <2>3
<1>5. CASE Attempt
  <2>1. /\ pc = "attempt" /\ pc' \in {"compile", "await"}
        /\ UNCHANGED <<rows, file, runError>>
        /\ \E point : recorded' = Append(recorded, point)
    BY <1>5 DEF Attempt, RecordPoint, deviceVars, fileVars, errorVars
  <2>2. Attempts' = Attempts + 1
    <3>1. Len(recorded') = Len(recorded) + 1
      <4> DEFINE P == [coords : Seq(Nat), params : AllParams, index : Nat]
      <4>1. recorded \in Seq(P) /\ recorded' \in Seq(P)
        BY <1>5, AttemptScan DEF ScanInv, ScanTypes
      <4> HIDE DEF P
      <4> QED BY <2>1, <4>1
    <3> QED BY <3>1 DEF Attempts
  <2>3. file # "absent"
    BY <2>1 DEF ThreadInv
  <2> QED BY <2>1, <2>2, <2>3 DEF RowsInv, ScanLabels, PointLabels
<1>6. CASE CompileNow \/ AwaitCompilation \/ PrepareDevices \/ RunSequence
  <2>1. /\ UNCHANGED <<rows, recorded, file>>
        /\ pc \in {"compile", "await", "prepare", "run"}
    BY <1>6 DEF CompileNow, AwaitCompilation, PrepareDevices, RunSequence, pointUnchanged,
                deviceVars, fileVars
  <2>2. ASSUME NEW error \in {"compile", "devices", "runtime"}, RaiseInTraversal(error)
        PROVE  RowsInv'
    BY <2>1, <2>2, FailedRows DEF RaiseInTraversal, Raise, ScanLabels, PointLabels
  <2>3. CASE /\ \A error \in {"compile", "devices", "runtime"} : ~RaiseInTraversal(error)
    <3>1. /\ UNCHANGED runError
          /\ \/ pc \in {"compile", "await"} /\ pc' = "prepare"
             \/ pc = "prepare" /\ pc' = "run"
             \/ pc = "run" /\ pc' = "read"
      BY <1>6, <2>3 DEF CompileNow, AwaitCompilation, PrepareDevices, RunSequence, errorVars
    <3> QED BY <2>1, <3>1, SameRows
  <2> QED BY <2>2, <2>3
<1>7. CASE ReadDevices
  <2>1. /\ pc = "read" /\ UNCHANGED <<recorded, file>> /\ file # "absent"
        /\ \A d \in Devices : rows[d] = Attempts - 1
        /\ rows \in [Devices -> Nat] /\ Attempts \in Nat /\ runError = None
    BY <1>7 DEF ReadDevices, RowsInv, ThreadInv, pointUnchanged, fileVars, ScanLabels, PointLabels
  <2>2. PICK k \in 0..DeviceCount :
           /\ rows' = [d \in Devices |-> IF d <= k THEN rows[d] + 1 ELSE rows[d]]
           /\ IF k = DeviceCount THEN pc' = "analyze" /\ UNCHANGED runError
              ELSE pc' = "shutdown" /\ runError' = "devices"
    BY <1>7 DEF ReadDevices, RaiseInTraversal, Raise, errorVars
  <2>3. /\ rows' \in [Devices -> Nat]
        /\ \A d \in Devices : rows'[d] = Attempts \/ rows'[d] = Attempts - 1
        /\ k = DeviceCount => \A d \in Devices : rows'[d] = Attempts
    BY <2>1, <2>2, ExperimentAssumption DEF Devices
  <2>4. Attempts' = Attempts
    BY <2>1 DEF Attempts
  <2> QED BY <2>1, <2>2, <2>3, <2>4 DEF RowsInv, ScanLabels, PointLabels
<1>8. CASE Shutdown \/ CloseRun
  BY <1>8, SameRows DEF Shutdown, CloseRun, deviceVars, fileVars, errorVars
<1>9. CASE Conclude
  <2>1. pc = "conclude" /\ pc' = "close" /\ UNCHANGED <<rows, recorded, file>>
    BY <1>9 DEF Conclude, Raise, deviceVars, fileVars
  <2>2. CASE UNCHANGED errorVars
    BY <2>1, <2>2, SameRows DEF errorVars
  <2>3. CASE Raise("analyze", "close")
    BY <2>1, <2>3, FailedRows DEF Raise
  <2> QED BY <1>9, <2>2, <2>3 DEF Conclude
<1>10. CASE EndRun
  <2>1. /\ pc = "persist" /\ pc' = "idle" /\ UNCHANGED <<rows, recorded>>
        /\ file' = "absent" => file = "absent"
    BY <1>10 DEF EndRun, Persist, deviceVars
  <2> QED BY <2>1 DEF RowsInv, Attempts, ScanLabels, PointLabels
<1>11. CASE Worker
  BY <1>11, SameRows DEF Worker, StartCompilation, EndCompilation, workerUnchanged,
                         deviceVars, fileVars, errorVars
<1>12. CASE RequestPause \/ Resume \/ RequestStop
  BY <1>12, SameRows DEF RequestPause, Resume, RequestStop, controlUnchanged,
                         deviceVars, fileVars, errorVars
<1>13. CASE UNCHANGED vars
  BY <1>13, SameRows DEF vars, deviceVars, fileVars, errorVars
<1> QED BY <1>1, <1>2, <1>3, <1>4, <1>5, <1>6, <1>7, <1>8, <1>9, <1>10, <1>11, <1>12,
           <1>13 DEF Next, Host, User

\* The device results line up with ParaDict, for every number of devices.
THEOREM RowsAligned == Spec => []RowsMatchAttempts
<1>1. Init => RowsInv
  BY DEF Init, RowsInv, Attempts, ScanLabels, PointLabels
<1>2. RowsInv => RowsMatchAttempts
  BY DEF RowsInv, RowsMatchAttempts, Attempts
<1> QED BY InitScan, InitThread, StepScan, StepThread, StepRows, <1>1, <1>2, PTL DEF Spec

-----------------------------------------------------------------------------
(* The end of run(). *)

\* How far _cleanup has come, and what is left for it: a run that got past
\* H5Writer.open closes its file and its devices, or records that it could not.
CleanupInv ==
    /\ runs \in Nat /\ report.run \in Nat /\ report.run <= runs
    /\ pc # "idle" => report.run < runs
    /\ openDevices \subseteq Devices
    /\ pc \in {"idle", "persist"} => ~active /\ ~devicesStarted
    /\ pc \notin {"idle", "close", "persist", "start_devices"} => devicesStarted
    /\ pc \notin {"idle", "close", "persist"} => h5Opened /\ runError # "open"
    /\ pc \in {"close", "persist"} /\ runError # "open" => h5Opened
    /\ pc = "close" /\ runError # "open" => devicesStarted
    /\ pc = "persist" /\ runError # "open" /\ openDevices # {} =>
          "post_close" \in cleanupErrors
    /\ pc = "idle" /\ runs > 0 =>
          /\ runError # "open" =>
                /\ openDevices # {} => "post_close" \in cleanupErrors
                /\ file = "open" => "h5_close" \in cleanupErrors
          /\ runError # None => outcome = runError
          /\ report.run = runs => report.error = runError /\ report.attempts = Len(recorded)

\* Steps of the traversal and of run() before _cleanup.
LEMMA BeforeCleanup ==
    ASSUME CleanupInv,
           UNCHANGED <<runs, report, openDevices, devicesStarted, h5Opened>>,
           pc \notin {"idle", "close", "persist", "start_devices"},
           pc' \notin {"idle", "persist", "start_devices"},
           runError' # "open"
    PROVE  CleanupInv'
  BY DEF CleanupInv

\* Steps that move none of its variables.
LEMMA OutsideCleanup ==
    ASSUME CleanupInv,
           UNCHANGED <<pc, runs, report, openDevices, devicesStarted, h5Opened, file,
                       runError, cleanupErrors, outcome, recorded, active>>
    PROVE  CleanupInv'
  BY DEF CleanupInv

\* One case for each part of run().
LEMMA StepCleanup ==
    ASSUME CleanupInv, [Next]_vars
    PROVE  CleanupInv'
<1>1. CASE BeginRun
  <2>1. /\ pc = "idle" /\ runs' = runs + 1
        /\ UNCHANGED <<report, openDevices, devicesStarted>>
        /\ \/ pc' = "start_devices" /\ runError' = None /\ h5Opened'
           \/ pc' = "close" /\ runError' = "open"
    BY <1>1 DEF BeginRun, deviceVars
  <2> QED BY <2>1 DEF CleanupInv, None
<1>2. CASE StartDevices
  <2>1. /\ pc = "start_devices" /\ devicesStarted'
        /\ UNCHANGED <<report, h5Opened, runs>>
        /\ \/ pc' = "configure" /\ runError' = runError
           \/ pc' = "close" /\ runError' = "devices"
    BY <1>2 DEF StartDevices, Raise, errorVars, fileVars
  <2>2. openDevices' \subseteq Devices
    <3>1. PICK k \in 0..DeviceCount : openDevices' = openDevices \cup 1..k
      BY <1>2 DEF StartDevices
    <3> QED BY <3>1, ExperimentAssumption DEF CleanupInv, Devices
  <2> QED BY <2>1, <2>2 DEF CleanupInv
<1>3. CASE Configure
  <2>1. /\ pc = "configure" /\ pc' \in {"loop", "final", "close"}
        /\ UNCHANGED <<runs, report, openDevices, devicesStarted, h5Opened>>
        /\ runError' \in {runError, "configure"}
    BY <1>3 DEF Configure, Descend, Raise, errorVars, deviceVars, fileVars
  <2>2. runError # "open"
    BY <2>1 DEF CleanupInv
  <2> QED BY <2>1, <2>2, BeforeCleanup
<1>4. CASE Loop \/ FinalCheckpoint
  <2>1. /\ pc \in {"loop", "final"} /\ pc' \in {"loop", "final", "attempt", "shutdown"}
        /\ UNCHANGED <<runs, report, openDevices, devicesStarted, h5Opened>>
        /\ runError' \in {runError, "analyze"}
    BY <1>4 DEF Loop, FinalCheckpoint, EndLoop, Returned, StopTraversal, Sleep, Iterate,
                Descend, RaiseInTraversal, Raise, errorVars, deviceVars, fileVars
  <2>2. runError # "open"
    BY <2>1 DEF CleanupInv
  <2> QED BY <2>1, <2>2, BeforeCleanup
<1>5. CASE Attempt \/ CompileNow \/ AwaitCompilation \/ PrepareDevices
  <2>1. /\ pc \in {"attempt", "compile", "await", "prepare"}
        /\ pc' \in {"compile", "await", "prepare", "run", "shutdown"}
        /\ UNCHANGED <<runs, report, openDevices, devicesStarted, h5Opened>>
        /\ runError' \in {runError, "compile", "devices"}
    BY <1>5 DEF Attempt, CompileNow, AwaitCompilation, PrepareDevices, RaiseInTraversal,
                Raise, pointUnchanged, errorVars, deviceVars, fileVars
  <2>2. runError # "open"
    BY <2>1 DEF CleanupInv
  <2> QED BY <2>1, <2>2, BeforeCleanup
<1>6. CASE RunSequence \/ ReadDevices \/ AnalyzePoint
  <2>1. /\ pc \in {"run", "read", "analyze"}
        /\ pc' \in {"read", "analyze", "loop", "shutdown"}
        /\ UNCHANGED <<runs, report, openDevices, devicesStarted, h5Opened>>
        /\ runError' \in {runError, "runtime", "devices", "analyze"}
    BY <1>6 DEF RunSequence, ReadDevices, AnalyzePoint, Returned, RaiseInTraversal, Raise,
                pointUnchanged, errorVars, deviceVars, fileVars
  <2>2. runError # "open"
    BY <2>1 DEF CleanupInv
  <2> QED BY <2>1, <2>2, BeforeCleanup
<1>7. CASE Shutdown \/ Conclude
  <2>1. /\ pc \in {"shutdown", "conclude"} /\ pc' \in {"conclude", "close"}
        /\ UNCHANGED <<runs, report, openDevices, devicesStarted, h5Opened>>
        /\ runError' \in {runError, "analyze"}
    BY <1>7 DEF Shutdown, Conclude, Raise, errorVars, deviceVars, fileVars
  <2>2. runError # "open"
    BY <2>1 DEF CleanupInv
  <2> QED BY <2>1, <2>2, BeforeCleanup
<1>8. CASE CloseRun
  <2>1. /\ pc = "close" /\ pc' = "persist" /\ ~active' /\ ~devicesStarted'
        /\ UNCHANGED <<runs, report, h5Opened, runError>>
    BY <1>8 DEF CloseRun, fileVars
  <2>2. PICK k \in IF devicesStarted THEN 0..DeviceCount ELSE {DeviceCount} :
           /\ openDevices' = IF devicesStarted THEN openDevices \ 1..k ELSE openDevices
           /\ k < DeviceCount => "post_close" \in cleanupErrors'
    BY <1>8 DEF CloseRun
  <2>3. openDevices' \subseteq Devices
    BY <2>2 DEF CleanupInv
  <2>4. ASSUME runError # "open", openDevices' # {} PROVE "post_close" \in cleanupErrors'
    <3>1. devicesStarted /\ k \in 0..DeviceCount /\ openDevices' = openDevices \ 1..k
      BY <2>1, <2>2, <2>4 DEF CleanupInv
    <3>2. k # DeviceCount
      BY <2>4, <3>1 DEF CleanupInv, Devices
    <3>3. k < DeviceCount
      BY <3>1, <3>2, ExperimentAssumption
    <3> QED BY <2>2, <3>3
  <2> QED BY <2>1, <2>3, <2>4 DEF CleanupInv
<1>9. CASE EndRun
  <2>1. /\ pc = "persist" /\ pc' = "idle"
        /\ UNCHANGED <<active, devicesStarted, openDevices, recorded, runError, runs>>
        /\ runError # None => outcome' = runError
        /\ cleanupErrors \subseteq cleanupErrors'
    BY <1>9 DEF EndRun, Persist, controlVars, deviceVars
  <2>2. runError # "open" => h5Opened
    BY <2>1 DEF CleanupInv
  <2>3. h5Opened /\ file' = "open" => "h5_close" \in cleanupErrors'
    BY <1>9 DEF EndRun, Persist
  <2>4. \/ report' = report
        \/ report' = [run |-> runs, error |-> runError, cleanup |-> lastErrors,
                      attempts |-> Len(recorded)]
    BY <1>9 DEF EndRun, Persist
  <2>5. runs \in Nat /\ report.run \in Nat /\ report.run < runs
    BY <2>1 DEF CleanupInv
  <2>6. /\ report'.run \in Nat /\ report'.run <= runs
        /\ report'.run = runs =>
              report'.error = runError /\ report'.attempts = Len(recorded)
    BY <2>4, <2>5
  <2>7. runError # "open" /\ openDevices # {} => "post_close" \in cleanupErrors'
    BY <2>1 DEF CleanupInv
  <2> QED BY <2>1, <2>2, <2>3, <2>5, <2>6, <2>7 DEF CleanupInv
<1>10. CASE Worker
  BY <1>10, OutsideCleanup DEF Worker, StartCompilation, EndCompilation, workerUnchanged,
        controlVars, deviceVars, fileVars, errorVars
<1>11. CASE RequestPause \/ Resume \/ RequestStop
  BY <1>11, OutsideCleanup DEF RequestPause, Resume, RequestStop, controlUnchanged,
        deviceVars, fileVars, errorVars
<1>12. CASE UNCHANGED vars
  BY <1>12, OutsideCleanup DEF vars, controlVars, deviceVars, fileVars, errorVars
<1> QED BY <1>1, <1>2, <1>3, <1>4, <1>5, <1>6, <1>7, <1>8, <1>9, <1>10, <1>11, <1>12
        DEF Next, Host, User

\* Whatever collaborator failed, and however often run() is called: when it
\* returns nothing is left compiling, active or open that could be closed, the
\* first failure is the one raised, and the report written for this run says so.
THEOREM CleanedUp == Spec => []CleanupComplete
<1>1. Init => CleanupInv
  BY DEF Init, CleanupInv, NoReport
<1>2. CleanupInv /\ ThreadInv => CleanupComplete
  BY DEF CleanupInv, ThreadInv, CleanupComplete
<1> QED BY InitThread, StepThread, StepCleanup, <1>1, <1>2, PTL DEF Spec
=============================================================================
