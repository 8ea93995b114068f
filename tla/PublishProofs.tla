--------------------------- MODULE PublishProofs ---------------------------
(***************************************************************************)
(* What publish_session keeps for every number of processes and threads,   *)
(* edits, crashes and file system errors: CURRENT is complete and a rename *)
(* finds its file, unless two threads of one process publish at the same   *)
(* time.  And what it publishes is one snapshot of the sources, whatever   *)
(* is saved or removed meanwhile, as long as no module appears.            *)
(***************************************************************************)
EXTENDS IncrementalCompile, FiniteSetTheorems, TLAPS

\* The markers for an absent or empty file are no invocations.
MarkersDistinct == {NoFile, Truncated} \cap Invocations = {}

PublishTypes ==
    /\ pc \in [Invocations -> Labels]
    /\ dir \in [Invocations -> {"none", "private", "final"}]
    /\ temp \in [Pids -> Invocations \cup {NoFile}]
    /\ current \in Invocations \cup {NoFile}
    /\ inode \in [Invocations -> Invocations \cup {Truncated}]
    /\ handle \in [Invocations -> Invocations \cup {NoFile}]
    /\ DOMAIN result = Invocations

\* Only an invocation that has ended has a result.
Ended == \A c \in Invocations : pc[c] # "done" => result[c].kind = "none"

\* Nothing refers to the inode of an invocation that has not opened its file,
\* and no file holds the name of one that has not written it.
Unused ==
    \A c \in Invocations :
        /\ pc[c] \notin {"write_temp", "rename_current", "done"} =>
              inode[c] = Truncated /\ current # c /\ temp[PidOf[c]] # c
        /\ pc[c] \in {"create_temp", "write_temp", "rename_current"} => dir[c] = "final"
        /\ pc[c] = "write_temp" => handle[c] \in Invocations

\* An open file was created.
Opened ==
    \A c \in Invocations : handle[c] # NoFile =>
        pc[handle[c]] \in {"write_temp", "rename_current", "done"}

\* A file that is not empty names a session that was renamed before.
Named ==
    \A c \in Invocations : inode[c] # Truncated =>
        dir[inode[c]] = "final" /\ pc[inode[c]] \in {"rename_current", "done"}

\* A temporary file was created by a thread of its process, is not CURRENT, and
\* is empty only when a thread of the process has opened and not written it.
TempOwned ==
    \A p \in Pids : temp[p] # NoFile =>
        /\ PidOf[temp[p]] = p /\ temp[p] # current
        /\ inode[temp[p]] = Truncated =>
              \E d \in Invocations : PidOf[d] = p /\ handle[d] = temp[p] /\ Unwritten(d)

\* The file an invocation is going to rename is there, or was renamed by another
\* thread of its process.
TempThere ==
    \A c \in Invocations : pc[c] \in {"write_temp", "rename_current"} =>
        \/ temp[PidOf[c]] # NoFile
        \/ \E d \in Invocations \ {c} : PidOf[d] = PidOf[c] /\ result[d].kind = "checked"

PublishInv ==
    /\ PublishTypes /\ Ended /\ Unused /\ Opened /\ Named /\ TempOwned /\ TempThere
    /\ PublishedComplete /\ InterferesWithinProcess

\* The initial state has no files.
LEMMA InitPublish ==
    ASSUME CompileAssumption, MarkersDistinct, Init
    PROVE  PublishInv
<1>1. PublishTypes /\ Ended /\ Opened /\ TempThere /\ InterferesWithinProcess
  BY DEF Init, PublishTypes, Labels, Ended, Opened, TempThere, InterferesWithinProcess
<1>2. TempOwned /\ PublishedComplete /\ Named
  BY DEF Init, TempOwned, PublishedComplete, Named
<1>3. Unused
  <2> SUFFICES ASSUME NEW c \in Invocations
               PROVE  /\ pc[c] = "idle" /\ temp[PidOf[c]] # c
                      /\ current # c /\ inode[c] = Truncated
    BY DEF Unused
  <2>1. PidOf[c] \in Pids
    BY DEF CompileAssumption
  <2> QED BY <2>1 DEF Init, MarkersDistinct
<1> QED BY <1>1, <1>2, <1>3 DEF PublishInv

\* An invocation d that ends keeps its result, whoever moves.
ResultsKept ==
    /\ DOMAIN result' = Invocations
    /\ \A d \in Invocations : pc[d] = "done" => pc'[d] = "done" /\ result'[d] = result[d]

\* Steps before publish_session, and its failures: they leave the files alone,
\* move invocations among the early labels or end them, and end them with an
\* error of their own.
Harmless ==
    /\ pc' \in [Invocations -> Labels]
    /\ ResultsKept
    /\ UNCHANGED diskVars
    /\ \A d \in Invocations :
          \/ pc'[d] = pc[d] /\ result'[d] = result[d]
          \/ /\ pc[d] \notin {"create_temp", "write_temp", "rename_current", "done"}
             /\ pc'[d] \in {"open", "requery", "check", "query", "write_session"}
             /\ result'[d] = result[d]
          \/ /\ pc[d] # "done" /\ pc'[d] = "done"
             /\ result'[d].kind \in {"check_error", "replayed", "io_error", "crashed"}
             /\ pc[d] \in {"create_temp", "write_temp", "rename_current"} =>
                   result'[d].kind \in {"io_error", "crashed"}

\* Such steps keep the invariant.
LEMMA HarmlessPublish ==
    ASSUME PublishInv, MarkersDistinct, Harmless
    PROVE  PublishInv'
<1> USE DEF PublishInv, diskVars
<1>1. PublishTypes'
  BY DEF Harmless, ResultsKept, PublishTypes
<1>2. Ended'
  BY DEF Harmless, Ended
<1>3. Unused' /\ Opened'
  BY DEF Harmless, Unused, Opened, PublishTypes
<1>4. Named'
  BY DEF Harmless, Named, PublishTypes
<1>5. \A d \in Invocations : Unwritten(d) => Unwritten(d)'
  BY DEF Harmless, ResultsKept, Unwritten, Ended
<1>6. \A d \in Invocations : result[d].kind = "checked" => result'[d].kind = "checked"
  BY DEF Harmless, ResultsKept, Ended
<1>7. TempOwned'
  BY <1>5 DEF Harmless, TempOwned
<1>8. TempThere'
  BY <1>6 DEF Harmless, TempThere
<1>9. PublishedComplete'
  BY <1>5, <1>6 DEF Harmless, PublishedComplete
<1>10. InterferesWithinProcess'
  BY <1>6 DEF Harmless, InterferesWithinProcess
<1> QED BY <1>1, <1>2, <1>3, <1>4, <1>7, <1>8, <1>9, <1>10

\* A step of one invocation before publish_session is harmless.
LEMMA EarlyPublish ==
    ASSUME PublishInv, NEW c \in Invocations, UNCHANGED diskVars,
           pc[c] \notin {"create_temp", "write_temp", "rename_current", "done"},
           \/ /\ \E l \in {"open", "requery", "check", "query", "write_session"} : Goto(c, l)
              /\ UNCHANGED result
           \/ \E report : Finish(c, "check_error", report) \/ Finish(c, "replayed", report)
           \/ UNCHANGED <<pc, result>>
    PROVE  Harmless
  BY DEF Harmless, ResultsKept, PublishInv, PublishTypes, Labels, Goto, Finish

\* The rename of the session directory, and what comes before it.
LEMMA DirPublish ==
    ASSUME PublishInv, MarkersDistinct, NEW c \in Invocations, WriteSession(c) \/ RenameSession(c)
    PROVE  PublishInv'
<1> USE DEF PublishInv
<1>1. PICK l \in {"rename_session", "create_temp"}, s \in {"private", "final"} :
        /\ dir' = [dir EXCEPT ![c] = s] /\ pc' = [pc EXCEPT ![c] = l]
        /\ l = "create_temp" => s = "final"
        /\ pc[c] \in {"write_session", "rename_session"}
        /\ UNCHANGED <<temp, current, inode, handle, result>>
  BY DEF WriteSession, RenameSession, Goto
<1>2. \A d \in Invocations : inode[d] # c
  <2> SUFFICES ASSUME NEW d \in Invocations, inode[d] = c PROVE FALSE
    OBVIOUS
  <2> QED BY <1>1, MarkersDistinct DEF Named, MarkersDistinct
<1>3. PublishTypes'
  BY <1>1 DEF PublishTypes, Labels
<1>4. Ended' /\ TempThere'
  BY <1>1 DEF Ended, TempThere, PublishTypes
<1>5. Unused' /\ Opened'
  BY <1>1 DEF Unused, Opened, PublishTypes
<1>6. Named'
  BY <1>1, <1>2 DEF Named, PublishTypes
<1>7. \A d \in Invocations : Unwritten(d)' <=> Unwritten(d)
  BY <1>1 DEF Unwritten, PublishTypes
<1>8. TempOwned'
  BY <1>1, <1>7 DEF TempOwned, PublishTypes
<1>9. PublishedComplete'
  BY <1>1, <1>2, <1>7 DEF PublishedComplete, PublishTypes
<1>10. InterferesWithinProcess'
  <2> SUFFICES ASSUME NEW d \in Invocations, result[d].kind = "temp_missing"
               PROVE  dir'[d] = "final"
    BY <1>1 DEF InterferesWithinProcess
  <2>1. d # c
    BY <1>1 DEF Ended
  <2> QED BY <1>1, <2>1 DEF InterferesWithinProcess, PublishTypes
<1> QED BY <1>3, <1>4, <1>5, <1>6, <1>8, <1>9, <1>10

\* Opening the temporary file creates it, or truncates the one a thread of the
\* same process has left there; CURRENT is another file.
LEMMA CreatePublish ==
    ASSUME PublishInv, CompileAssumption, MarkersDistinct, NEW c \in Invocations, CreateTemp(c)
    PROVE  PublishInv'
<1> USE DEF PublishInv
<1>p. PidOf[c] \in Pids
  BY DEF CompileAssumption
<1>1. PICK i \in Invocations :
        /\ pc[c] = "create_temp" /\ pc' = [pc EXCEPT ![c] = "write_temp"]
        /\ temp' = [temp EXCEPT ![PidOf[c]] = i]
        /\ handle' = [handle EXCEPT ![c] = i]
        /\ inode' = [inode EXCEPT ![i] = Truncated]
        /\ i = c \/ i = temp[PidOf[c]]
        /\ UNCHANGED <<dir, current, result>>
  BY <1>p, MarkersDistinct DEF CreateTemp, CurrentTempPath, Goto, PublishTypes, MarkersDistinct
<1>2. i # current /\ PidOf[i] = PidOf[c] /\ i # NoFile
  BY <1>p, <1>1, MarkersDistinct DEF TempOwned, Unused, MarkersDistinct
<1>3. PublishTypes'
  BY <1>1 DEF PublishTypes, Labels
<1>4. Ended'
  BY <1>1 DEF Ended, PublishTypes
<1>5. Unused'
  <2> SUFFICES ASSUME NEW d \in Invocations
               PROVE  /\ pc'[d] \notin {"write_temp", "rename_current", "done"} =>
                            inode'[d] = Truncated /\ current # d /\ temp'[PidOf[d]] # d
                      /\ pc'[d] \in {"create_temp", "write_temp", "rename_current"} => dir[d] = "final"
                      /\ pc'[d] = "write_temp" => handle'[d] \in Invocations
    BY <1>1 DEF Unused
  <2>p. PidOf[d] \in Pids
    BY DEF CompileAssumption
  <2>1. CASE d = c
    BY <1>1, <2>1 DEF Unused, PublishTypes
  <2>2. CASE d # c
    <3>1. pc'[d] = pc[d] /\ handle'[d] = handle[d]
      BY <1>1, <2>2 DEF PublishTypes
    <3>2. inode[d] = Truncated => inode'[d] = Truncated
      BY <1>1 DEF PublishTypes
    <3>3. temp'[PidOf[d]] = d => temp[PidOf[d]] = d
      BY <1>1, <2>p, <2>2 DEF PublishTypes
    <3> QED BY <1>1, <3>1, <3>2, <3>3 DEF Unused
  <2> QED BY <2>1, <2>2
<1>6. Named'
  <2> SUFFICES ASSUME NEW d \in Invocations, inode'[d] # Truncated
               PROVE  /\ dir[inode'[d]] = "final" 
                      /\ pc'[inode'[d]] \in {"rename_current", "done"}
    BY <1>1 DEF Named
  <2>1. inode'[d] = inode[d] /\ inode[d] # Truncated
    BY <1>1 DEF PublishTypes
  <2>2. inode[d] # c /\ inode[d] \in Invocations
    BY <1>1, <2>1 DEF Named, PublishTypes
  <2> QED BY <1>1, <2>1, <2>2 DEF Named, PublishTypes
<1>7. \A d \in Invocations : Unwritten(d) => Unwritten(d)'
  BY <1>1 DEF Unwritten, PublishTypes
<1>8. Unwritten(c)' /\ handle'[c] = i
  BY <1>1 DEF Unwritten, PublishTypes
<1>9. TempOwned'
  <2> SUFFICES ASSUME NEW p \in Pids, temp'[p] # NoFile
               PROVE  /\ PidOf[temp'[p]] = p /\ temp'[p] # current
                      /\ inode'[temp'[p]] = Truncated =>
                            \E d \in Invocations : /\ PidOf[d] = p /\ handle'[d] = temp'[p]
                                                   /\ Unwritten(d)'
    BY <1>1 DEF TempOwned
  <2>1. CASE p = PidOf[c]
    BY <1>p, <1>1, <1>2, <1>8, <2>1 DEF PublishTypes
  <2>2. CASE p # PidOf[c]
    <3>1. temp'[p] = temp[p] /\ temp[p] # i /\ temp[p] \in Invocations
      BY <1>1, <1>2, <2>2 DEF PublishTypes, TempOwned
    <3>2. inode'[temp[p]] = inode[temp[p]]
      BY <1>1, <3>1 DEF PublishTypes
    <3>3. ASSUME NEW d \in Invocations, PidOf[d] = p PROVE handle'[d] = handle[d]
      BY <1>1, <2>2, <3>3 DEF PublishTypes
    <3> QED BY <1>7, <3>1, <3>2, <3>3, <2>2 DEF TempOwned
  <2> QED BY <2>1, <2>2
<1>10. TempThere'
  <2> SUFFICES ASSUME NEW d \in Invocations, pc'[d] \in {"write_temp", "rename_current"},
                      temp'[PidOf[d]] = NoFile
               PROVE  \E e \in Invocations \ {d} : PidOf[e] = PidOf[d] /\ result[e].kind = "checked"
    BY <1>1 DEF TempThere
  <2>p. PidOf[d] \in Pids
    BY DEF CompileAssumption
  <2>1. PidOf[d] # PidOf[c]
    BY <1>p, <1>1, <1>2 DEF PublishTypes
  <2>2. pc'[d] = pc[d] /\ temp[PidOf[d]] = NoFile
    BY <1>1, <2>p, <2>1 DEF PublishTypes
  <2> QED BY <2>2 DEF TempThere
<1>11. PublishedComplete'
  <2> SUFFICES ASSUME current # NoFile
               PROVE  \/ inode'[current] # Truncated /\ dir[inode'[current]] = "final"
                      \/ /\ inode'[current] = Truncated
                         /\ \E x, d \in Invocations :
                               /\ x # d /\ PidOf[x] = PidOf[d]
                               /\ result[x].kind = "checked"
                               /\ handle'[d] = current /\ Unwritten(d)'
    BY <1>1 DEF PublishedComplete
  <2>1. inode'[current] = inode[current]
    BY <1>1, <1>2 DEF PublishTypes
  <2>2. ASSUME NEW d \in Invocations, Unwritten(d) PROVE d # c /\ handle'[d] = handle[d]
    BY <1>1, <2>2 DEF Unwritten, Ended, PublishTypes
  <2> QED BY <1>7, <2>1, <2>2 DEF PublishedComplete
<1>12. InterferesWithinProcess'
  BY <1>1 DEF InterferesWithinProcess
<1>13. Opened'
  <2>1. pc'[i] \in {"write_temp", "rename_current", "done"}
    BY <1>p, <1>1, <1>2 DEF Unused, PublishTypes
  <2> QED BY <1>1, <2>1 DEF Opened, PublishTypes
<1> QED BY <1>3, <1>4, <1>5, <1>6, <1>9, <1>10, <1>11, <1>12, <1>13

\* The write fills whatever file the invocation has opened, also when another
\* thread has renamed that file to CURRENT.
LEMMA WritePublish ==
    ASSUME PublishInv, CompileAssumption, MarkersDistinct, NEW c \in Invocations, WriteTemp(c)
    PROVE  PublishInv'
<1> USE DEF PublishInv
<1>1. PICK i \in Invocations :
        /\ i = handle[c]
        /\ pc[c] = "write_temp" /\ pc' = [pc EXCEPT ![c] = "rename_current"]
        /\ inode' = [inode EXCEPT ![i] = c]
        /\ dir[c] = "final"
        /\ UNCHANGED <<dir, temp, current, handle, result>>
  BY DEF WriteTemp, Goto, Unused
<1>2. PublishTypes'
  BY <1>1 DEF PublishTypes, Labels
<1>3. Ended' /\ InterferesWithinProcess'
  BY <1>1 DEF Ended, InterferesWithinProcess, PublishTypes
<1>4. TempThere'
  BY <1>1 DEF TempThere, PublishTypes
<1>5. \A d \in Invocations : inode'[d] = Truncated => inode[d] = Truncated /\ d # i
  BY <1>1, MarkersDistinct DEF PublishTypes, MarkersDistinct
<1>6. \A d \in Invocations : Unwritten(d) /\ handle[d] # i => Unwritten(d)'
  BY <1>1 DEF Unwritten, PublishTypes
<1>7. TempOwned'
  BY <1>1, <1>5, <1>6 DEF TempOwned, PublishTypes
<1>8. Named'
  <2> SUFFICES ASSUME NEW d \in Invocations, inode'[d] # Truncated
               PROVE  /\ dir[inode'[d]] = "final" 
                      /\ pc'[inode'[d]] \in {"rename_current", "done"}
    BY <1>1 DEF Named
  <2>1. CASE d = i
    BY <1>1, <2>1 DEF PublishTypes
  <2>2. CASE d # i
    <3>1. inode'[d] = inode[d] /\ inode[d] # c /\ inode[d] \in Invocations
      BY <1>1, <2>2 DEF Named, PublishTypes
    <3> QED BY <1>1, <3>1 DEF Named, PublishTypes
  <2> QED BY <2>1, <2>2
<1>9. PublishedComplete'
  <2> SUFFICES ASSUME current # NoFile
               PROVE  \/ inode'[current] # Truncated /\ dir[inode'[current]] = "final"
                      \/ /\ inode'[current] = Truncated
                         /\ \E x, d \in Invocations :
                               /\ x # d /\ PidOf[x] = PidOf[d]
                               /\ result[x].kind = "checked"
                               /\ handle[d] = current /\ Unwritten(d)'
    BY <1>1 DEF PublishedComplete
  <2>1. CASE current = i
    BY <1>1, <2>1, MarkersDistinct DEF PublishTypes, MarkersDistinct
  <2>2. CASE current # i
    <3>1. inode'[current] = inode[current]
      BY <1>1, <2>2 DEF PublishTypes
    <3> QED BY <1>6, <2>2, <3>1 DEF PublishedComplete
  <2> QED BY <2>1, <2>2
<1>10. Unused'
  <2> SUFFICES ASSUME NEW d \in Invocations
               PROVE  /\ pc'[d] \notin {"write_temp", "rename_current", "done"} =>
                            inode'[d] = Truncated /\ current # d /\ temp[PidOf[d]] # d
                      /\ pc'[d] \in {"create_temp", "write_temp", "rename_current"} => dir[d] = "final"
                      /\ pc'[d] = "write_temp" => handle[d] \in Invocations
    BY <1>1 DEF Unused
  <2>1. pc[i] \in {"write_temp", "rename_current", "done"}
    BY <1>1, MarkersDistinct DEF Opened, MarkersDistinct
  <2> QED BY <1>1, <2>1 DEF Unused, PublishTypes
<1>11. Opened'
  BY <1>1 DEF Opened, PublishTypes
<1> QED BY <1>2, <1>3, <1>4, <1>7, <1>8, <1>9, <1>10, <1>11

\* The rename publishes what is at the temporary path, be it the invocation's own
\* file or another's; without a file another thread of the process has renamed.
LEMMA RenamePublish ==
    ASSUME PublishInv, CompileAssumption, MarkersDistinct, NEW c \in Invocations, RenameCurrent(c)
    PROVE  PublishInv'
<1> USE DEF PublishInv
<1>p. \A d \in Invocations : PidOf[d] \in Pids
  BY DEF CompileAssumption
<1>1. PICK kind \in {"checked", "temp_missing"} :
        /\ pc[c] = "rename_current" /\ pc' = [pc EXCEPT ![c] = "done"]
        /\ \E report : result' = [result EXCEPT ![c] = [kind |-> kind, report |-> report]]
        /\ UNCHANGED <<dir, inode, handle>>
        /\ kind = "checked" => /\ temp[PidOf[c]] # NoFile /\ current' = temp[PidOf[c]]
                               /\ temp' = [temp EXCEPT ![PidOf[c]] = NoFile]
        /\ kind = "temp_missing" => temp[PidOf[c]] = NoFile /\ UNCHANGED <<current, temp>>
  BY DEF RenameCurrent, CurrentTempPath, Finish, Goto
<1>2. /\ DOMAIN result' = Invocations /\ result'[c].kind = kind
      /\ \A d \in Invocations \ {c} : result'[d] = result[d] /\ pc'[d] = pc[d]
      /\ pc'[c] = "done" /\ result[c].kind = "none"
  BY <1>1 DEF PublishTypes, Ended
<1>3. PublishTypes'
  BY <1>1, <1>2, <1>p DEF PublishTypes, Labels
<1>4. Ended'
  BY <1>1, <1>2 DEF Ended
<1>5. /\ Opened' /\ Named'
      /\ \A d \in Invocations : Unwritten(d) => Unwritten(d)' /\ d # c
      /\ \A d \in Invocations : result[d].kind = "checked" => result'[d].kind = "checked"
  <2>1. Opened' /\ Named'
    BY <1>1, <1>2 DEF Opened, Named, PublishTypes
  <2>2. \A d \in Invocations : Unwritten(d) => Unwritten(d)' /\ d # c
    BY <1>1, <1>2 DEF Unwritten
  <2>3. \A d \in Invocations : result[d].kind = "checked" => result'[d].kind = "checked"
    BY <1>2
  <2> QED BY <2>1, <2>2, <2>3
<1>6. CASE kind = "checked"
  <2> DEFINE i == temp[PidOf[c]]
  <2>1. i \in Invocations /\ i # NoFile /\ current' = i /\ PidOf[i] = PidOf[c]
    BY <1>1, <1>6, <1>p, MarkersDistinct DEF PublishTypes, TempOwned, MarkersDistinct
  <2>2. Unused'
    <3>1. pc[i] \in {"write_temp", "rename_current", "done"}
      BY <2>1 DEF Unused
    <3>2. ASSUME NEW d \in Invocations, temp'[PidOf[d]] = d PROVE temp[PidOf[d]] = d
      BY <1>1, <1>6, <1>p, <3>2, MarkersDistinct DEF PublishTypes, MarkersDistinct
    <3> QED BY <1>1, <1>2, <2>1, <3>1, <3>2 DEF Unused
  <2>3. TempOwned'
    <3> SUFFICES ASSUME NEW p \in Pids, temp'[p] # NoFile
                 PROVE  /\ PidOf[temp'[p]] = p /\ temp'[p] # current'
                        /\ inode[temp'[p]] = Truncated =>
                              \E d \in Invocations : /\ PidOf[d] = p /\ handle[d] = temp'[p]
                                                     /\ Unwritten(d)'
      BY <1>1 DEF TempOwned
    <3>1. p # PidOf[c] /\ temp'[p] = temp[p]
      BY <1>1, <1>6, <1>p DEF PublishTypes
    <3> QED BY <1>5, <2>1, <3>1 DEF TempOwned
  <2>4. TempThere'
    <3> SUFFICES ASSUME NEW d \in Invocations, pc'[d] \in {"write_temp", "rename_current"},
                        temp'[PidOf[d]] = NoFile
                 PROVE  \E e \in Invocations \ {d} : PidOf[e] = PidOf[d] /\ result'[e].kind = "checked"
      BY DEF TempThere
    <3>1. d # c /\ pc[d] \in {"write_temp", "rename_current"}
      BY <1>2
    <3>2. CASE PidOf[d] = PidOf[c]
      BY <1>2, <1>6, <3>1, <3>2
    <3>3. CASE PidOf[d] # PidOf[c]
      <4>1. temp[PidOf[d]] = NoFile
        BY <1>1, <1>6, <1>p, <3>3 DEF PublishTypes
      <4> QED BY <1>5, <3>1, <4>1 DEF TempThere
    <3> QED BY <3>2, <3>3
  <2>5. PublishedComplete'
    <3>1. CASE inode[i] # Truncated
      BY <1>1, <2>1, <3>1 DEF Named, PublishedComplete
    <3>2. CASE inode[i] = Truncated
      <4>1. PICK d \in Invocations : PidOf[d] = PidOf[c] /\ handle[d] = i /\ Unwritten(d)
        BY <1>p, <2>1, <3>2 DEF TempOwned
      <4>2. d # c /\ Unwritten(d)'
        BY <1>5, <4>1
      <4>3. handle'[d] = current' /\ inode'[current'] = Truncated
        BY <1>1, <2>1, <3>2, <4>1
      <4>4. \E x, y \in Invocations : /\ x # y /\ PidOf[x] = PidOf[y]
                                      /\ result'[x].kind = "checked"
                                      /\ handle'[y] = current' /\ Unwritten(y)'
        BY <1>2, <1>6, <4>1, <4>2, <4>3
      <4> QED BY <4>3, <4>4 DEF PublishedComplete
    <3> QED BY <3>1, <3>2
  <2>6. InterferesWithinProcess'
    BY <1>1, <1>2, <1>5, <1>6 DEF InterferesWithinProcess
  <2> QED BY <1>3, <1>4, <1>5, <2>2, <2>3, <2>4, <2>5, <2>6
<1>7. CASE kind = "temp_missing"
  <2>1. UNCHANGED <<dir, temp, current, inode, handle>>
    BY <1>1, <1>7
  <2>2. Unused'
    BY <1>2, <2>1 DEF Unused
  <2>3. TempOwned'
    BY <1>5, <2>1 DEF TempOwned
  <2>4. TempThere'
    BY <1>2, <1>5, <2>1 DEF TempThere
  <2>5. PublishedComplete'
    BY <1>5, <2>1 DEF PublishedComplete
  <2>6. InterferesWithinProcess'
    <3>1. dir[c] = "final"
      BY <1>1 DEF Unused
    <3>2. \E d \in Invocations \ {c} : PidOf[d] = PidOf[c] /\ result[d].kind = "checked"
      BY <1>1, <1>7 DEF TempThere
    <3> QED BY <1>2, <1>5, <2>1, <3>1, <3>2 DEF InterferesWithinProcess
  <2> QED BY <1>3, <1>4, <1>5, <2>2, <2>3, <2>4, <2>5, <2>6
<1> QED BY <1>1, <1>6, <1>7

\* What the theorems rest on: one case for each action.
LEMMA StepPublish ==
    ASSUME PublishInv, CompileAssumption, MarkersDistinct, [Next]_vars
    PROVE  PublishInv'
<1>1. ASSUME NEW c \in Invocations, Start(c) PROVE Harmless
  BY <1>1, EarlyPublish DEF Start
<1>2. ASSUME NEW c \in Invocations, Open(c) PROVE Harmless
  BY <1>2, EarlyPublish DEF Open, BeginCheck
<1>3. ASSUME NEW c \in Invocations, Requery(c) PROVE Harmless
  BY <1>3, EarlyPublish DEF Requery
<1>4. ASSUME NEW c \in Invocations, Replay(c) PROVE Harmless
  BY <1>4, EarlyPublish DEF Replay
<1>5. ASSUME NEW c \in Invocations, ReplayFails(c) PROVE Harmless
  BY <1>5, EarlyPublish DEF ReplayFails, BeginCheck
<1>6. ASSUME NEW c \in Invocations, CheckDefinition(c) PROVE Harmless
  BY <1>6, EarlyPublish DEF CheckDefinition
<1>7. ASSUME NEW c \in Invocations, LoadValues(c) PROVE Harmless
  BY <1>7, EarlyPublish DEF LoadValues
<1>8. ASSUME NEW c \in Invocations, Query(c) PROVE Harmless
  BY <1>8, EarlyPublish DEF Query
<1>9. ASSUME NEW c \in Invocations, PublishError(c) PROVE Harmless
  BY <1>9 DEF PublishError, Finish, Goto, Harmless, ResultsKept, PublishInv, PublishTypes, Labels
<1>10. ASSUME NEW m \in Modules, Edit(m) PROVE Harmless
  BY <1>10 DEF Edit, Harmless, ResultsKept, PublishInv, PublishTypes
<1>11. ASSUME NEW p \in Pids, Crash(p) PROVE Harmless
  BY <1>11 DEF Crash, Running, Harmless, ResultsKept, PublishInv, PublishTypes, Labels
<1>12. UNCHANGED vars => Harmless
  BY DEF vars, Harmless, ResultsKept, PublishInv, PublishTypes, diskVars
<1>13. ASSUME NEW c \in Invocations,
              \/ WriteSession(c) \/ RenameSession(c) \/ CreateTemp(c) \/ WriteTemp(c)
              \/ RenameCurrent(c)
       PROVE  PublishInv'
  BY <1>13, DirPublish, CreatePublish, WritePublish, RenamePublish
<1> QED
  BY <1>1, <1>2, <1>3, <1>4, <1>5, <1>6, <1>7, <1>8, <1>9, <1>10, <1>11, <1>12, <1>13,
     HarmlessPublish DEF Next, Step

\* The invariant of publication, for threads and processes alike.
LEMMA PublishInvariant ==
    ASSUME MarkersDistinct
    PROVE  Spec => []PublishInv
<1>1. Init => PublishInv
  BY InitPublish, CompileAssumption, MarkersDistinct
<1>2. PublishInv /\ [Next]_vars => PublishInv'
  BY StepPublish, MarkersDistinct, CompileAssumption
<1> QED BY <1>1, <1>2, PTL DEF Spec

\* CURRENT names a complete session directory at every moment: a crash or a
\* reader between any two steps of publish_session finds the old or the new,
\* unless a thread renames the file that another of its process has truncated.
THEOREM CurrentComplete ==
    ASSUME MarkersDistinct
    PROVE  Spec => []PublishedComplete
<1>1. PublishInv => PublishedComplete
  BY DEF PublishInv
<1> QED BY <1>1, PublishInvariant, MarkersDistinct, PTL

\* A successful check is turned into an error of the rename in publish_session
\* only by another thread of the same process that has published.
THEOREM InterferenceIsLocal ==
    ASSUME MarkersDistinct
    PROVE  Spec => []InterferesWithinProcess
<1>1. PublishInv => InterferesWithinProcess
  BY DEF PublishInv
<1> QED BY <1>1, PublishInvariant, MarkersDistinct, PTL

\* The invocation has its process to itself.
AloneInProcess(c) == \A d \in Invocations : PidOf[d] = PidOf[c] => d = c

\* With one compilation in each process, CURRENT is complete without exception
\* and no rename of publish_session fails for want of its file.
THEOREM OneCompilationPerProcess ==
    ASSUME MarkersDistinct, \A c \in Invocations : AloneInProcess(c)
    PROVE  Spec => []( /\ current # NoFile =>
                            inode[current] # Truncated /\ dir[inode[current]] = "final"
                       /\ \A c \in Invocations : result[c].kind # "temp_missing" )
<1> DEFINE Alone == /\ current # NoFile =>
                          inode[current] # Truncated /\ dir[inode[current]] = "final"
                    /\ \A c \in Invocations : result[c].kind # "temp_missing"
<1>1. PublishInv => Alone
  BY DEF PublishInv, PublishedComplete, InterferesWithinProcess, AloneInProcess
<1> HIDE DEF Alone
<1>2. Spec => []Alone
  BY <1>1, PublishInvariant, MarkersDistinct, PTL
<1> QED BY <1>2 DEF Alone

-----------------------------------------------------------------------------
(* A session is a snapshot. *)

\* A set of numbers that is not empty has a smallest element.
LEMMA LeastNumber ==
    ASSUME NEW S, S \subseteq Nat, S # {}
    PROVE  \E x \in S : \A y \in S : x <= y
<1> DEFINE less == OpToRel(<, Nat)
<1>1. IsWellFoundedOn(less, Nat)
  BY NatLessThanWellFounded
<1>2. \A x, y \in Nat : x < y => <<x, y>> \in less
  BY DEF OpToRel
<1> HIDE DEF less
<1>3. PICK x \in S : \A y \in S : ~(<<y, x>> \in less)
  BY <1>1, WFMin
<1>4. \A y \in S : ~(y < x)
  BY <1>2, <1>3, Zenon
<1>5. \A y \in S : x <= y
  BY <1>4
<1> QED BY <1>5

\* Where a reference is located: at its first module that is there.
LEMMA LocateFacts ==
    ASSUME NEW v, NEW r \in Seq(Modules)
    PROVE  \/ Locate(v, r) = NoModule /\ \A i \in DOMAIN r : v[r[i]] = Missing
           \/ /\ Locate(v, r) \in Modules /\ v[Locate(v, r)] # Missing
              /\ \E i \in DOMAIN r : /\ Locate(v, r) = r[i]
                                     /\ \A j \in DOMAIN r : j < i => v[r[j]] = Missing
<1> DEFINE found == {i \in DOMAIN r : v[r[i]] # Missing}
<1>1. found \subseteq Nat /\ \A i \in found : r[i] \in Modules
  OBVIOUS
<1>2. CASE found = {}
  BY <1>2 DEF Locate
<1>3. CASE found # {}
  <2>1. Min(found) \in found /\ \A j \in found : Min(found) <= j
    <3> HIDE DEF found
    <3>1. \E x \in found : \A y \in found : x <= y
      BY <1>1, <1>3, LeastNumber
    <3> QED BY <3>1 DEF Min
  <2>2. Locate(v, r) = r[Min(found)]
    BY <1>3 DEF Locate
  <2> DEFINE i == Min(found)
  <2>3. i \in DOMAIN r /\ v[r[i]] # Missing /\ r[i] \in Modules
    BY <1>1, <2>1
  <2>4. ASSUME NEW j \in DOMAIN r, j < i PROVE v[r[j]] = Missing
    <3>1. i \in Nat /\ j \in Nat
      BY <1>1, <2>1
    <3>2. j \notin found
      <4> HIDE DEF i
      <4>1. \A k \in found : i <= k
        BY <2>1 DEF i
      <4> QED BY <2>4, <3>1, <4>1
    <3> QED BY <3>2
  <2> HIDE DEF i
  <2>5. Locate(v, r) = r[i]
    BY <2>2 DEF i
  <2> QED BY <2>3, <2>4, <2>5
<1> QED BY <1>2, <1>3

\* The view w has what the view v has of the modules known, and nothing more.
Shrinks(v, w, known) ==
    /\ \A m \in known : w[m] = v[m]
    /\ \A m \in Modules : v[m] = Missing => w[m] = Missing

\* A reference that is located in a known module stays there.
LEMMA LocateStable ==
    ASSUME NEW v, NEW w, NEW known \in SUBSET Modules, Shrinks(v, w, known),
           NEW r \in Seq(Modules), Locate(v, r) \in known \cup {NoModule}
    PROVE  /\ Locate(w, r) = Locate(v, r)
           /\ Provided(w, r) <=> Provided(v, r)
<1>0. NoModule \notin Modules /\ \A i \in DOMAIN r : i \in Nat /\ r[i] \in Modules
  BY BundleAssumption
<1>1. Locate(w, r) = Locate(v, r)
  <2>1. CASE Locate(v, r) = NoModule
    <3>1. \A i \in DOMAIN r : v[r[i]] = Missing
      BY <1>0, <2>1, LocateFacts
    <3>2. \A i \in DOMAIN r : w[r[i]] = Missing
      BY <1>0, <3>1 DEF Shrinks
    <3>3. ~\E i \in DOMAIN r : w[r[i]] # Missing
      BY <3>2
    <3> QED BY <2>1, <3>3, LocateFacts
  <2>2. CASE Locate(v, r) # NoModule
    <3>1. PICK i \in DOMAIN r : /\ Locate(v, r) = r[i] /\ v[r[i]] # Missing
                                /\ \A j \in DOMAIN r : j < i => v[r[j]] = Missing
      BY <2>2, LocateFacts
    <3>2. w[r[i]] # Missing
      BY <2>2, <3>1 DEF Shrinks
    <3>3. \A j \in DOMAIN r : j < i => w[r[j]] = Missing
      BY <1>0, <3>1 DEF Shrinks
    <3>4. PICK k \in DOMAIN r : /\ Locate(w, r) = r[k] /\ w[r[k]] # Missing
                                /\ \A j \in DOMAIN r : j < k => w[r[j]] = Missing
      BY <3>2, LocateFacts
    <3>5. k = i
      BY <1>0, <3>2, <3>3, <3>4
    <3> QED BY <3>1, <3>4, <3>5
  <2> QED BY <2>1, <2>2
<1>2. Locate(v, r) # NoModule => w[Locate(v, r)] = v[Locate(v, r)]
  BY DEF Shrinks
<1> QED BY <1>1, <1>2 DEF Provided

\* The check of entry in the view v has visited defs and located others; it
\* goes on with queue, and has read the known modules.
CheckedSoFar(v, known, entry, defs, queue, others) ==
    /\ known \subseteq Modules /\ \A m \in known : v[m] \in Versions
    /\ defs \cup queue \cup others \subseteq known
    /\ entry \in defs \cup queue
    /\ \A m \in defs : /\ Content[v[m]].defines /\ ~Broken(v, m) /\ ~HostCall(v, m)
                       /\ Called(v, m) \subseteq defs \cup queue
    /\ others = Located(v, CallsOf(v, defs)) /\ \A m \in others : ~Broken(v, m)
    /\ \A reach \in SUBSET Modules :
          /\ entry \in reach
          /\ \A m \in defs : m \in reach => Called(v, m) \subseteq reach
          => defs \cup queue \subseteq reach

\* The references of known modules.
LEMMA References ==
    ASSUME NEW v, NEW m, v[m] \in Versions
    PROVE  /\ \A r \in Content[v[m]].calls : r \in Seq(Modules)
           /\ \A r \in Content[v[m]].uses : r \in Seq(Modules)
  BY BundleAssumption

\* References located in known modules stay where they are.
LEMMA LocatedStable ==
    ASSUME NEW v, NEW w, NEW known \in SUBSET Modules, Shrinks(v, w, known),
           NEW refs, \A r \in refs : r \in Seq(Modules), Located(v, refs) \subseteq known
    PROVE  /\ \A r \in refs : /\ Locate(w, r) = Locate(v, r)
                              /\ Provided(w, r) <=> Provided(v, r)
           /\ Located(w, refs) = Located(v, refs)
<1>1. ASSUME NEW r \in refs PROVE /\ Locate(w, r) = Locate(v, r)
                                  /\ Provided(w, r) <=> Provided(v, r)
  <2>1. Locate(v, r) \in known \cup {NoModule}
    BY DEF Located
  <2> QED BY <2>1, LocateStable
<1>2. Located(w, refs) = Located(v, refs)
  BY <1>1 DEF Located
<1> QED BY <1>1, <1>2

\* What the check has done stays right while the modules it has read stay.
LEMMA CheckStable ==
    ASSUME NEW v, NEW w, NEW known, NEW entry, NEW defs, NEW queue, NEW others,
           CheckedSoFar(v, known, entry, defs, queue, others), Shrinks(v, w, known)
    PROVE  CheckedSoFar(w, known, entry, defs, queue, others)
<1>1. /\ known \in SUBSET Modules /\ \A m \in known : v[m] \in Versions /\ w[m] = v[m]
      /\ defs \subseteq known /\ others \subseteq known
      /\ others = Located(v, CallsOf(v, defs))
  BY DEF CheckedSoFar, Shrinks
<1>2. CallsOf(w, defs) = CallsOf(v, defs)
  BY <1>1 DEF CallsOf
<1>3. \A r \in CallsOf(v, defs) : r \in Seq(Modules)
  BY <1>1, References DEF CallsOf
<1>4. /\ Located(w, CallsOf(w, defs)) = others
      /\ \A r \in CallsOf(v, defs) : /\ Locate(w, r) = Locate(v, r)
                                     /\ Provided(w, r) <=> Provided(v, r)
  <2> DEFINE refs == CallsOf(v, defs)
  <2>1. Located(v, refs) \subseteq known
    BY <1>1
  <2>2. \A r \in refs : r \in Seq(Modules)
    BY <1>3
  <2> HIDE DEF refs
  <2>3. /\ \A r \in refs : /\ Locate(w, r) = Locate(v, r)
                           /\ Provided(w, r) <=> Provided(v, r)
        /\ Located(w, refs) = Located(v, refs)
    BY <1>1, <2>1, <2>2, LocatedStable
  <2> QED BY <1>1, <1>2, <2>3 DEF refs
<1>5. ASSUME NEW m \in defs
      PROVE  Called(w, m) = Called(v, m) /\ (HostCall(w, m) <=> HostCall(v, m))
  <2>1. w[m] = v[m] /\ Content[v[m]].calls \subseteq CallsOf(v, defs)
    BY <1>1 DEF CallsOf
  <2>2. \A r \in Content[v[m]].calls : /\ Locate(w, r) = Locate(v, r)
                                       /\ Provided(w, r) <=> Provided(v, r)
    BY <1>4, <2>1
  <2>3. {x \in Content[w[m]].calls : Provided(w, x)} = {x \in Content[v[m]].calls : Provided(v, x)}
    BY <2>1, <2>2
  <2>4. Called(w, m) = Called(v, m)
    BY <2>2, <2>3 DEF Called
  <2>5. HostCall(w, m) <=> HostCall(v, m)
    BY <2>1, <2>2 DEF HostCall
  <2> QED BY <2>4, <2>5
<1>6. \A m \in known : Broken(w, m) <=> Broken(v, m)
  BY <1>1 DEF Broken
<1>7. \A m \in defs : /\ Content[w[m]].defines /\ ~Broken(w, m) /\ ~HostCall(w, m)
                      /\ Called(w, m) \subseteq defs \cup queue
  BY <1>1, <1>5, <1>6 DEF CheckedSoFar
<1>8. \A m \in others : ~Broken(w, m)
  BY <1>1, <1>6 DEF CheckedSoFar
<1>9. ASSUME NEW reach \in SUBSET Modules, entry \in reach,
             \A m \in defs : m \in reach => Called(w, m) \subseteq reach
      PROVE  defs \cup queue \subseteq reach
  <2>1. \A m \in defs : m \in reach => Called(v, m) \subseteq reach
    BY <1>5, <1>9
  <2> QED BY <1>9, <2>1 DEF CheckedSoFar
<1> QED BY <1>1, <1>4, <1>7, <1>8, <1>9 DEF CheckedSoFar

\* A finished check has visited what is reachable.
LEMMA CheckComplete ==
    ASSUME NEW v, NEW known, NEW entry, NEW defs, NEW others,
           CheckedSoFar(v, known, entry, defs, {}, others)
    PROVE  Reachable(v, entry) = defs
<1> DEFINE present == {m \in Modules : v[m] # Missing}
           closed == {d \in SUBSET present :
                         entry \in d /\ \A m \in d : Called(v, m) \subseteq d}
<1>1. defs \subseteq present
  BY BundleAssumption DEF CheckedSoFar
<1>2. defs \in closed
  BY <1>1 DEF CheckedSoFar
<1>3. ASSUME NEW d \in closed PROVE defs \subseteq d
  <2>1. d \in SUBSET Modules /\ entry \in d /\ \A m \in d : Called(v, m) \subseteq d
    BY <1>3
  <2>2. \A m \in defs : m \in d => Called(v, m) \subseteq d
    BY <2>1
  <2> QED BY <2>1, <2>2 DEF CheckedSoFar
<1>4. Reachable(v, entry) = {m \in present : \A d \in closed : m \in d}
  BY DEF Reachable
<1> HIDE DEF present, closed
<1> QED BY <1>1, <1>2, <1>3, <1>4

\* The report of a finished check is that of a check of the modules it has
\* parsed, and of nothing else.
LEMMA CheckSnapshot ==
    ASSUME NEW v, NEW w, NEW known, NEW entry, NEW defs, NEW values, NEW others,
           CheckedSoFar(v, known, entry, defs, {}, others),
           values = Located(v, UsesOf(v, defs)), values \subseteq known,
           \A m \in values : ~Broken(v, m),
           \A m \in Modules : w[m] = IF m \in defs \cup values \cup others THEN v[m] ELSE Missing
    PROVE  Report(v, defs, values) = FreshCheck(w, entry)
<1> DEFINE Q == defs \cup values \cup others
<1>1. Q \in SUBSET Modules /\ Q \subseteq known /\ \A m \in Q : w[m] = v[m] /\ v[m] \in Versions
  BY DEF CheckedSoFar
<1>2. Shrinks(v, w, Q)
  <2>1. \A m \in Modules : v[m] = Missing => w[m] = Missing
    OBVIOUS
  <2> QED BY <1>1, <2>1 DEF Shrinks
<1>3. CheckedSoFar(v, Q, entry, defs, {}, others)
  BY <1>1 DEF CheckedSoFar
<1>4. defs \subseteq Q /\ values \subseteq Q /\ others \subseteq Q /\ Q = defs \cup values \cup others
  OBVIOUS
<1> HIDE DEF Q
<1>5. CheckedSoFar(w, Q, entry, defs, {}, others)
  BY <1>2, <1>3, CheckStable
<1>6. Reachable(w, entry) = defs
  BY <1>5, CheckComplete
<1>7. UsesOf(w, defs) = UsesOf(v, defs) /\ \A r \in UsesOf(v, defs) : r \in Seq(Modules)
  <2>1. \A m \in defs : w[m] = v[m] /\ v[m] \in Versions
    BY <1>1, <1>4
  <2>2. UsesOf(w, defs) = UsesOf(v, defs)
    BY <2>1 DEF UsesOf
  <2>3. ASSUME NEW r \in UsesOf(v, defs) PROVE r \in Seq(Modules)
    <3>1. PICK m \in defs : r \in Content[v[m]].uses
      BY DEF UsesOf
    <3> QED BY <2>1, <3>1, References
  <2> QED BY <2>2, <2>3
<1>8. Located(w, UsesOf(w, defs)) = values
  <2> DEFINE refs == UsesOf(v, defs)
  <2>1. Located(v, refs) \subseteq Q /\ \A r \in refs : r \in Seq(Modules)
    BY <1>4, <1>7
  <2> HIDE DEF refs
  <2>2. Located(w, refs) = Located(v, refs)
    BY <1>1, <1>2, <2>1, LocatedStable
  <2> QED BY <1>7, <2>2 DEF refs
<1>9. /\ w[entry] # Missing /\ Content[w[entry]].defines
      /\ \A m \in defs \cup values \cup Located(w, CallsOf(w, defs)) : ~Broken(w, m)
      /\ \A m \in defs : ~HostCall(w, m)
  <2>1. entry \in defs /\ w[entry] \in Versions /\ Content[w[entry]].defines
    BY <1>5 DEF CheckedSoFar
  <2>2. Located(w, CallsOf(w, defs)) = others /\ \A m \in others \cup defs : ~Broken(w, m)
    BY <1>5 DEF CheckedSoFar
  <2>3. \A m \in values : ~Broken(w, m)
    BY <1>1, <1>4 DEF Broken
  <2>4. \A m \in defs : ~HostCall(w, m)
    BY <1>5 DEF CheckedSoFar
  <2> QED BY <2>1, <2>2, <2>3, <2>4, BundleAssumption
<1>10. FreshCheck(w, entry) = Report(w, defs, values)
  BY <1>6, <1>8, <1>9 DEF FreshCheck
<1>11. TokensOf(w, defs) = TokensOf(v, defs) /\ TokensOf(w, values) = TokensOf(v, values)
  BY <1>1, <1>4 DEF TokensOf
<1> QED BY <1>10, <1>11 DEF Report

Early == {"idle", "open", "requery"}
Reading == Early \cup {"check", "query"}
Published(c) == pc[c] \in {"write_session", "rename_session"} \/ dir[c] # "none"

\* The modules an invocation has found.
Known(c) == Modules \cap DOMAIN loaded[c]

Snapshot(s) == [m \in Modules |-> IF m \in DOMAIN s.sources THEN s.sources[m] ELSE Missing]

SourceTypes ==
    /\ files \in [Modules -> Versions \cup {Missing}]
    /\ pc \in [Invocations -> Labels]
    /\ DOMAIN loaded = Invocations /\ DOMAIN asked = Invocations
    /\ DOMAIN pending = Invocations /\ DOMAIN parsed = Invocations
    /\ DOMAIN session = Invocations /\ DOMAIN dir = Invocations

\* What the session has asked for is what the loader has, or is not there.
AskedInv(c) ==
    pc[c] \in Reading =>
        \A m \in Modules \cap DOMAIN asked[c] :
            asked[c][m] = View(c)[m] /\ (m \in Known(c) \/ files[m] = Missing)

\* The check is right about the sources as they are read through the loader.
CheckInv(c) ==
    /\ \A m \in Known(c) : loaded[c][m] \in Versions
    /\ parsed[c] = [defs |-> parsed[c].defs, values |-> parsed[c].values,
                    others |-> parsed[c].others]
    /\ pc[c] \in Early => parsed[c] = NoCheck
    /\ pc[c] \in Reading \ {"idle"} => EntryOf[c] \in Known(c)
    /\ pc[c] \in {"check", "query"} =>
          CheckedSoFar(View(c), Known(c), EntryOf[c], parsed[c].defs, pending[c],
                       parsed[c].others)
    /\ pc[c] = "query" =>
          /\ pending[c] = {}
          /\ parsed[c].values = Located(View(c), UsesOf(View(c), parsed[c].defs))
          /\ parsed[c].values \subseteq Known(c)
          /\ \A m \in parsed[c].values : ~Broken(View(c), m)

\* A session that is or will be published is a snapshot.
SessionInv(c) ==
    /\ dir[c] # "none" => pc[c] \notin Reading \cup {"write_session"}
    /\ Published(c) => session[c].report = FreshCheck(Snapshot(session[c]), session[c].entry)

InvocationInv(c) == AskedInv(c) /\ CheckInv(c) /\ SessionInv(c)
SnapshotInv == SourceTypes /\ \A c \in Invocations : InvocationInv(c)

\* Nothing has been read.
LEMMA InitSnapshot ==
    ASSUME Init
    PROVE  SnapshotInv
<1>1. SourceTypes
  BY CompileAssumption DEF Init, SourceTypes, Labels
<1>2. ASSUME NEW c \in Invocations PROVE InvocationInv(c)
  <2>1. /\ pc[c] = "idle" /\ parsed[c] = NoCheck /\ dir[c] = "none"
        /\ DOMAIN loaded[c] = {} /\ DOMAIN asked[c] = {}
    BY DEF Init, EmptyMap
  <2>2. AskedInv(c)
    BY <2>1 DEF AskedInv
  <2>3. CheckInv(c)
    BY <2>1 DEF CheckInv, Known, Early, Reading, NoCheck
  <2>4. SessionInv(c)
    BY <2>1 DEF SessionInv, Published
  <2> QED BY <2>2, <2>3, <2>4 DEF InvocationInv
<1> QED BY <1>1, <1>2 DEF SnapshotInv

\* An invocation that did not move, while no file changed.
LEMMA SameInvocation ==
    ASSUME NEW c, InvocationInv(c),
           files' = files, pc'[c] = pc[c], loaded'[c] = loaded[c], asked'[c] = asked[c],
           pending'[c] = pending[c], parsed'[c] = parsed[c], session'[c] = session[c],
           dir'[c] = dir[c]
    PROVE  InvocationInv(c)'
<1>1. View(c)' = View(c) /\ Known(c)' = Known(c)
  BY DEF View, Known
<1>2. AskedInv(c)'
  BY <1>1 DEF InvocationInv, AskedInv
<1>3. CheckInv(c)'
  BY <1>1 DEF InvocationInv, CheckInv
<1>4. SessionInv(c)'
  BY DEF InvocationInv, SessionInv, Published
<1> QED BY <1>2, <1>3, <1>4 DEF InvocationInv

\* An invocation that ended, or went on to publish its session.
LEMMA EndedInvocation ==
    ASSUME NEW c, CheckInv(c), pc'[c] \notin Reading, loaded'[c] = loaded[c],
           parsed'[c] = parsed[c], SessionInv(c)'
    PROVE  InvocationInv(c)'
<1>1. Known(c)' = Known(c)
  BY DEF Known
<1>2. AskedInv(c)'
  BY DEF AskedInv
<1>3. CheckInv(c)'
  BY <1>1 DEF CheckInv, Early, Reading
<1> QED BY <1>2, <1>3 DEF InvocationInv

\* Reading modules changes nothing of what the loader shows.
LEMMA LoadView ==
    ASSUME SourceTypes, NEW c \in Invocations, NEW mods \in SUBSET Modules, Load(c, mods),
           files' = files, \A m \in Known(c) : loaded[c][m] \in Versions
    PROVE  /\ View(c)' = View(c)
           /\ Known(c)' = Known(c) \cup {m \in mods : View(c)[m] # Missing}
           /\ \A m \in Known(c)' : loaded'[c][m] = View(c)[m] /\ View(c)[m] \in Versions
           /\ \A d \in Invocations : d # c => loaded'[d] = loaded[d]
           /\ DOMAIN loaded' = Invocations
<1> DEFINE new == {m \in mods : View(c)[m] # Missing}
<1>1. /\ loaded'[c] = [m \in DOMAIN loaded[c] \cup new |-> View(c)[m]]
      /\ \A d \in Invocations : d # c => loaded'[d] = loaded[d]
      /\ DOMAIN loaded' = Invocations
  BY DEF Load, SourceTypes
<1> HIDE DEF new
<1>2. DOMAIN loaded'[c] = DOMAIN loaded[c] \cup new
  BY <1>1
<1>3. new \subseteq Modules
  BY DEF new
<1>4. Known(c)' = Known(c) \cup new
  BY <1>2, <1>3 DEF Known
<1>5. \A m \in Known(c)' : loaded'[c][m] = View(c)[m]
  BY <1>1, <1>2 DEF Known
<1>6. \A m \in Modules : View(c)[m] = IF m \in DOMAIN loaded[c] THEN loaded[c][m] ELSE files[m]
  BY DEF View
<1>7. ASSUME NEW m \in Known(c)' PROVE View(c)[m] \in Versions
  <2>1. CASE m \in Known(c)
    BY <1>6, <2>1 DEF Known
  <2>2. CASE m \in new /\ m \notin Known(c)
    <3>1. m \in Modules /\ View(c)[m] # Missing /\ View(c)[m] = files[m]
      BY <1>3, <1>6, <2>2 DEF Known, new
    <3> QED BY <3>1 DEF SourceTypes
  <2> QED BY <1>4, <1>7, <2>1, <2>2
<1>8. View(c)' = View(c)
  <2>1. \A m \in Modules : (IF m \in DOMAIN loaded'[c] THEN loaded'[c][m] ELSE files[m])
                           = (IF m \in DOMAIN loaded[c] THEN loaded[c][m] ELSE files[m])
    BY <1>1, <1>2, <1>6
  <2> QED BY <2>1 DEF View
<1> QED BY <1>1, <1>4, <1>5, <1>7, <1>8 DEF new


\* A step of one invocation leaves the others alone.
LEMMA OneInvocation ==
    ASSUME SourceTypes, NEW c \in Invocations, Step(c) \/ PublishError(c)
    PROVE  /\ files' = files
           /\ \E l \in Labels : pc' = [pc EXCEPT ![c] = l]
           /\ \A d \in Invocations : d # c =>
                /\ loaded'[d] = loaded[d] /\ asked'[d] = asked[d] /\ pending'[d] = pending[d]
                /\ parsed'[d] = parsed[d] /\ session'[d] = session[d] /\ dir'[d] = dir[d]
           /\ DOMAIN loaded' = Invocations /\ DOMAIN asked' = Invocations
           /\ DOMAIN pending' = Invocations /\ DOMAIN parsed' = Invocations
           /\ DOMAIN session' = Invocations /\ DOMAIN dir' = Invocations
<1> USE DEF SourceTypes, Goto, Finish, Labels, Load, Ask
<1>0. ASSUME UNCHANGED pc PROVE \E l \in Labels : pc' = [pc EXCEPT ![c] = l]
  <2>1. pc[c] \in Labels /\ pc = [pc EXCEPT ![c] = pc[c]]
    OBVIOUS
  <2> QED BY <1>0, <2>1
<1>1. CASE Start(c)
  BY <1>1 DEF Start, diskVars
<1>2. CASE Open(c) \/ ReplayFails(c)
  BY <1>2 DEF Open, ReplayFails, BeginCheck, diskVars
<1>3. CASE Requery(c)
  BY <1>0, <1>3 DEF Requery, diskVars
<1>4. CASE Replay(c) \/ PublishError(c)
  BY <1>4 DEF Replay, PublishError, checkVars, diskVars
<1>5. CASE CheckDefinition(c)
  BY <1>0, <1>5 DEF CheckDefinition, diskVars
<1>6. CASE LoadValues(c)
  BY <1>6 DEF LoadValues, diskVars
<1>7. CASE Query(c)
  BY <1>7 DEF Query, diskVars
<1>8. CASE WriteSession(c) \/ RenameSession(c) \/ CreateTemp(c) \/ WriteTemp(c) \/ RenameCurrent(c)
  BY <1>8 DEF WriteSession, RenameSession, CreateTemp, WriteTemp, RenameCurrent, publishFrame,
              checkVars, diskVars
<1> QED BY <1>1, <1>2, <1>3, <1>4, <1>5, <1>6, <1>7, <1>8 DEF Step

\* So a step is right when it is right for its own invocation.
LEMMA OwnInvocation ==
    ASSUME SnapshotInv, NEW c \in Invocations, Step(c) \/ PublishError(c), InvocationInv(c)'
    PROVE  SnapshotInv'
<1>1. SourceTypes
  BY DEF SnapshotInv
<1>2. SourceTypes'
  BY <1>1, OneInvocation DEF SourceTypes
<1>3. ASSUME NEW d \in Invocations, d # c PROVE InvocationInv(d)'
  <2>1. InvocationInv(d) /\ pc'[d] = pc[d]
    BY <1>1, <1>3, OneInvocation DEF SnapshotInv, SourceTypes
  <2> QED BY <1>1, <1>3, <2>1, OneInvocation, SameInvocation
<1> QED BY <1>2, <1>3 DEF SnapshotInv

\* Modules read besides.
LEMMA CheckGrows ==
    ASSUME NEW v, NEW known, NEW entry, NEW defs, NEW queue, NEW others, NEW more,
           CheckedSoFar(v, known, entry, defs, queue, others),
           known \subseteq more, more \subseteq Modules, \A m \in more : v[m] \in Versions
    PROVE  CheckedSoFar(v, more, entry, defs, queue, others)
  BY DEF CheckedSoFar

\* The check begins with its entry.
LEMMA CheckBegins ==
    ASSUME NEW v, NEW known, NEW entry \in known, known \subseteq Modules,
           \A m \in known : v[m] \in Versions
    PROVE  CheckedSoFar(v, known, entry, {}, {entry}, {})
<1>1. Located(v, CallsOf(v, {})) = {}
  <2>1. CallsOf(v, {}) = {}
    BY DEF CallsOf
  <2> QED BY <2>1 DEF Located
<1> QED BY <1>1 DEF CheckedSoFar

\* What the loader shows of what it knows.
LEMMA KnownView ==
    ASSUME NEW c, CheckInv(c)
    PROVE  /\ Known(c) \subseteq Modules
           /\ \A m \in Known(c) : View(c)[m] = loaded[c][m] /\ View(c)[m] \in Versions
           /\ \A m \in Modules \ Known(c) : View(c)[m] = files[m]
  BY DEF CheckInv, Known, View

\* The entry is read and kept.
LEMMA StartSnapshot ==
    ASSUME SnapshotInv, NEW c \in Invocations, Start(c)
    PROVE  InvocationInv(c)'
<1>0. /\ SourceTypes /\ AskedInv(c) /\ CheckInv(c) /\ SessionInv(c) /\ pc[c] = "idle"
      /\ UNCHANGED <<files, asked, parsed, session, dir>> /\ EntryOf[c] \in Modules
  BY CompileAssumption DEF SnapshotInv, InvocationInv, Start, diskVars
<1>1. CASE Finish(c, "check_error", Failed) /\ UNCHANGED loaded
  <2>1. pc'[c] = "done"
    BY <1>0, <1>1 DEF Finish, Goto, SourceTypes
  <2>2. SessionInv(c)'
    BY <1>0, <2>1 DEF SessionInv, Published, Reading, Early
  <2> QED BY <1>0, <1>1, <2>1, <2>2, EndedInvocation DEF Reading, Early
<1>2. CASE files[EntryOf[c]] # Missing /\ Goto(c, "open") /\ Load(c, {EntryOf[c]})
  <2>1. pc'[c] = "open" /\ parsed[c] = NoCheck
    BY <1>0, <1>2 DEF Goto, SourceTypes, CheckInv, Early
  <2>2. \A m \in Known(c) : loaded[c][m] \in Versions
    BY <1>0 DEF CheckInv
  <2>3. /\ View(c)' = View(c) /\ Known(c)' = Known(c) \cup {m \in {EntryOf[c]} : View(c)[m] # Missing}
        /\ \A m \in Known(c)' : loaded'[c][m] = View(c)[m] /\ View(c)[m] \in Versions
    BY <1>0, <1>2, <2>2, LoadView
  <2>4. View(c)[EntryOf[c]] # Missing
    BY <1>0, <1>2, KnownView, BundleAssumption
  <2>5. AskedInv(c)'
    BY <1>0, <2>3 DEF AskedInv, Reading, Early
  <2>6. CheckInv(c)'
    BY <1>0, <2>1, <2>3, <2>4 DEF CheckInv, Early, NoCheck
  <2>7. SessionInv(c)'
    BY <1>0, <2>1 DEF SessionInv, Published, Reading, Early
  <2> QED BY <2>5, <2>6, <2>7 DEF InvocationInv
<1> QED BY <1>1, <1>2 DEF Start

\* A check begins, at once or after a replay that failed.
LEMMA BeginSnapshot ==
    ASSUME SnapshotInv, NEW c \in Invocations, pc[c] \in {"open", "requery"}, BeginCheck(c),
           UNCHANGED <<files, loaded, asked, parsed, session, dir>>
    PROVE  InvocationInv(c)'
<1>0. SourceTypes /\ AskedInv(c) /\ CheckInv(c) /\ SessionInv(c)
  BY DEF SnapshotInv, InvocationInv
<1>1. pc'[c] = "check" /\ pending'[c] = {EntryOf[c]}
  BY <1>0 DEF BeginCheck, Goto, SourceTypes
<1>2. View(c)' = View(c) /\ Known(c)' = Known(c)
  BY DEF View, Known
<1>3. parsed[c] = NoCheck /\ EntryOf[c] \in Known(c)
  BY <1>0 DEF CheckInv, Early, Reading
<1>4. CheckedSoFar(View(c), Known(c), EntryOf[c], {}, {EntryOf[c]}, {})
  BY <1>0, <1>3, KnownView, CheckBegins
<1>5. parsed[c].defs = {} /\ parsed[c].others = {}
  BY <1>3 DEF NoCheck
<1>6. CheckInv(c)'
  BY <1>0, <1>1, <1>2, <1>3, <1>4, <1>5 DEF CheckInv, Early, Reading
<1>7. AskedInv(c)'
  BY <1>0, <1>1, <1>2 DEF AskedInv, Reading, Early
<1>8. SessionInv(c)'
  BY <1>0, <1>1 DEF SessionInv, Published, Reading, Early
<1> QED BY <1>6, <1>7, <1>8 DEF InvocationInv

\* A module of the previous session is asked for again.
LEMMA RequerySnapshot ==
    ASSUME SnapshotInv, NEW c \in Invocations, Requery(c)
    PROVE  InvocationInv(c)'
<1>0. /\ SourceTypes /\ AskedInv(c) /\ CheckInv(c) /\ SessionInv(c) /\ pc[c] = "requery"
      /\ UNCHANGED <<files, pending, parsed, session, dir>>
  BY DEF SnapshotInv, InvocationInv, Requery, diskVars
<1> DEFINE m == CHOOSE x \in ToRequery(c) : TRUE
           v == View(c)[m]
<1>1. /\ Load(c, {m})
      /\ \/ Ask(c, [x \in {m} |-> v]) /\ UNCHANGED pc
         \/ Finish(c, "check_error", Failed) /\ UNCHANGED asked
  BY DEF Requery
<1> HIDE DEF m
<1>2. pc'[c] = "requery" \/ pc'[c] = "done"
  BY <1>0, <1>1 DEF Finish, Goto, SourceTypes
<1>3. \A x \in Known(c) : loaded[c][x] \in Versions
  BY <1>0 DEF CheckInv
<1>4. /\ View(c)' = View(c) /\ Known(c) \subseteq Known(c)'
      /\ \A x \in Known(c)' : loaded'[c][x] = View(c)[x] /\ View(c)[x] \in Versions
      /\ m \in Modules => m \in Known(c)' \/ View(c)[m] = Missing
  <2>1. CASE m \in Modules
    BY <1>0, <1>1, <1>3, <2>1, LoadView
  <2>2. CASE m \notin Modules
    <3>1. loaded'[c] = [x \in DOMAIN loaded[c] \cup {x \in {m} : View(c)[x] # Missing} |-> View(c)[x]]
      BY <1>0, <1>1 DEF Load, SourceTypes
    <3>2. \A x \in Modules : /\ x \in DOMAIN loaded'[c] <=> x \in DOMAIN loaded[c]
                             /\ x \in DOMAIN loaded'[c] => loaded'[c][x] = View(c)[x]
      BY <2>2, <3>1
    <3>3. Known(c)' = Known(c)
      BY <3>2 DEF Known
    <3>4. \A x \in Modules : View(c)[x] = IF x \in DOMAIN loaded[c] THEN loaded[c][x] ELSE files[x]
      BY DEF View
    <3>5. \A x \in Modules : (IF x \in DOMAIN loaded'[c] THEN loaded'[c][x] ELSE files[x])
                             = (IF x \in DOMAIN loaded[c] THEN loaded[c][x] ELSE files[x])
      BY <3>2, <3>4
    <3>6. View(c)' = View(c)
      BY <1>0, <3>5 DEF View
    <3> QED BY <1>0, <2>2, <3>2, <3>3, <3>6, KnownView DEF Known
  <2> QED BY <2>1, <2>2
<1>5. CheckInv(c)'
  BY <1>0, <1>2, <1>4 DEF CheckInv, Early, Reading
<1>6. AskedInv(c)'
  <2>1. CASE UNCHANGED asked
    BY <1>0, <1>4, <2>1 DEF AskedInv, Reading, Early
  <2>2. CASE Ask(c, [x \in {m} |-> v])
    <3>1. asked'[c] = [x \in DOMAIN asked[c] \cup {m} |->
                          IF x \in DOMAIN asked[c] THEN asked[c][x] ELSE [y \in {m} |-> v][x]]
      BY <1>0, <2>2 DEF Ask, SourceTypes
    <3>2. ASSUME NEW x \in Modules, x \in DOMAIN asked'[c]
          PROVE  \/ x \in DOMAIN asked[c] /\ asked'[c][x] = asked[c][x]
                 \/ x = m /\ asked'[c][x] = View(c)[x]
      BY <3>1, <3>2
    <3>3. ASSUME NEW x \in Modules, x \in DOMAIN asked'[c]
          PROVE  asked'[c][x] = View(c)[x] /\ (x \in Known(c)' \/ files[x] = Missing)
      <4>1. CASE x \in DOMAIN asked[c] /\ asked'[c][x] = asked[c][x]
        BY <1>0, <1>4, <4>1 DEF AskedInv, Reading, Early
      <4>2. CASE x = m /\ asked'[c][x] = View(c)[x]
        <5>1. x \in Known(c)' \/ View(c)[x] = Missing
          BY <1>4, <4>2
        <5>2. x \notin Known(c)' => View(c)[x] = files[x]
          BY <1>0, <1>4, KnownView
        <5> QED BY <4>2, <5>1, <5>2
      <4> QED BY <3>2, <3>3, <4>1, <4>2
    <3> QED BY <1>0, <1>4, <3>3 DEF AskedInv
  <2> QED BY <1>1, <2>1, <2>2
<1>7. SessionInv(c)'
  BY <1>0, <1>2 DEF SessionInv, Published, Reading, Early
<1> QED BY <1>5, <1>6, <1>7 DEF InvocationInv

\* One more definition is visited.
LEMMA CheckVisits ==
    ASSUME NEW v, NEW known, NEW entry, NEW defs, NEW queue, NEW others, NEW m \in queue,
           CheckedSoFar(v, known, entry, defs, queue, others),
           Located(v, Content[v[m]].calls) \subseteq known,
           Content[v[m]].defines, ~HostCall(v, m),
           \A x \in {m} \cup Located(v, Content[v[m]].calls) : ~Broken(v, x)
    PROVE  CheckedSoFar(v, known, entry, defs \cup {m},
                        (queue \cup Called(v, m)) \ (defs \cup {m}),
                        others \cup Located(v, Content[v[m]].calls))
<1> DEFINE located == Located(v, Content[v[m]].calls)
           all == defs \cup {m} \cup queue \cup Called(v, m)
<1>1. /\ known \subseteq Modules /\ \A x \in known : v[x] \in Versions
      /\ defs \cup queue \cup others \subseteq known /\ entry \in defs \cup queue
      /\ \A x \in defs : /\ Content[v[x]].defines /\ ~Broken(v, x) /\ ~HostCall(v, x)
                         /\ Called(v, x) \subseteq defs \cup queue
      /\ others = Located(v, CallsOf(v, defs)) /\ \A x \in others : ~Broken(v, x)
  BY DEF CheckedSoFar
<1>2. Called(v, m) \subseteq located
  BY DEF Called, Located, Provided
<1>3. (defs \cup {m}) \cup ((queue \cup Called(v, m)) \ (defs \cup {m})) = all
  OBVIOUS
<1>4. Located(v, CallsOf(v, defs \cup {m})) = others \cup located
  <2>1. CallsOf(v, defs \cup {m}) = CallsOf(v, defs) \cup Content[v[m]].calls
    BY DEF CallsOf
  <2> QED BY <1>1, <2>1 DEF Located
<1>5. \A x \in defs \cup {m} : /\ Content[v[x]].defines /\ ~Broken(v, x) /\ ~HostCall(v, x)
                               /\ Called(v, x) \subseteq all
  BY <1>1
<1>6. ASSUME NEW reach \in SUBSET Modules, entry \in reach,
             \A x \in defs \cup {m} : x \in reach => Called(v, x) \subseteq reach
      PROVE  all \subseteq reach
  <2>1. defs \cup queue \subseteq reach
    BY <1>6 DEF CheckedSoFar
  <2> QED BY <1>6, <2>1
<1>7. \A x \in others \cup located : ~Broken(v, x)
  BY <1>1
<1>8. all \cup others \cup located \subseteq known /\ entry \in all
  BY <1>1, <1>2
<1> HIDE DEF all, located
<1> QED BY <1>1, <1>3, <1>4, <1>5, <1>6, <1>7, <1>8 DEF CheckedSoFar, located

\* What a set of references of known modules locates is there.
LEMMA LocatedThere ==
    ASSUME NEW v, NEW refs, \A r \in refs : r \in Seq(Modules)
    PROVE  Located(v, refs) \subseteq {m \in Modules : v[m] # Missing}
<1> SUFFICES ASSUME NEW r \in refs, Locate(v, r) # NoModule
             PROVE  Locate(v, r) \in Modules /\ v[Locate(v, r)] # Missing
  BY DEF Located
<1> QED BY LocateFacts

\* A definition is visited: its module and those of its calls are read and kept.
LEMMA DefinitionSnapshot ==
    ASSUME SnapshotInv, NEW c \in Invocations, CheckDefinition(c)
    PROVE  InvocationInv(c)'
<1>0. /\ SourceTypes /\ AskedInv(c) /\ CheckInv(c) /\ SessionInv(c) /\ pc[c] = "check"
      /\ UNCHANGED <<files, asked, session, dir>>
  BY DEF SnapshotInv, InvocationInv, CheckDefinition, diskVars
<1> DEFINE v == View(c)
<1>1. PICK m \in pending[c] :
        LET located == Located(v, Content[v[m]].calls)
            fails == \/ \E x \in {m} \cup located : Broken(v, x)
                     \/ ~Content[v[m]].defines
                     \/ HostCall(v, m)
        IN  /\ Load(c, {m} \cup located)
            /\ \/ fails /\ Finish(c, "check_error", Failed) /\ UNCHANGED <<pending, parsed>>
               \/ /\ ~fails
                  /\ parsed' = [parsed EXCEPT ![c].defs = @ \cup {m}, ![c].others = @ \cup located]
                  /\ pending' = [pending EXCEPT ![c] = StillPending(c, m)]
                  /\ UNCHANGED <<pc, result>>
  BY DEF CheckDefinition
<1> DEFINE located == Located(v, Content[v[m]].calls)
           fails == \/ \E x \in {m} \cup located : Broken(v, x)
                    \/ ~Content[v[m]].defines
                    \/ HostCall(v, m)
<1>2. CheckedSoFar(v, Known(c), EntryOf[c], parsed[c].defs, pending[c], parsed[c].others)
  BY <1>0 DEF CheckInv
<1>3. m \in Known(c) /\ v[m] \in Versions /\ m \in Modules
  BY <1>2 DEF CheckedSoFar
<1>4. located \subseteq {x \in Modules : v[x] # Missing}
  <2> DEFINE refs == Content[v[m]].calls
  <2>1. \A r \in refs : r \in Seq(Modules)
    BY <1>3, References
  <2> HIDE DEF refs, v
  <2>2. Located(v, refs) \subseteq {x \in Modules : v[x] # Missing}
    BY <2>1, LocatedThere
  <2> QED BY <2>2 DEF refs
<1>5. \A x \in Known(c) : loaded[c][x] \in Versions
  BY <1>0 DEF CheckInv
<1>6. /\ View(c)' = v /\ Known(c)' = Known(c) \cup {x \in {m} \cup located : v[x] # Missing}
      /\ \A x \in Known(c)' : loaded'[c][x] = v[x] /\ v[x] \in Versions
  <2>1. Load(c, {m} \cup located) /\ {m} \cup located \in SUBSET Modules
    BY <1>1, <1>3, <1>4
  <2> HIDE DEF located
  <2> QED BY <1>0, <1>5, <2>1, LoadView
<1>7. Known(c) \subseteq Known(c)' /\ located \subseteq Known(c)' /\ Known(c)' \subseteq Modules
  BY <1>4, <1>6 DEF Known
<1> HIDE DEF v, located, fails
<1>8. CheckedSoFar(v, Known(c)', EntryOf[c], parsed[c].defs, pending[c], parsed[c].others)
  BY <1>2, <1>6, <1>7, CheckGrows
<1>9. AskedInv(c)'
  BY <1>0, <1>6, <1>7 DEF AskedInv, Reading, Early, v
<1>10. CASE Finish(c, "check_error", Failed) /\ UNCHANGED <<pending, parsed>>
  <2>1. pc'[c] = "done"
    BY <1>0, <1>10 DEF Finish, Goto, SourceTypes
  <2>2. CheckInv(c)'
    BY <1>0, <1>6, <1>10, <2>1 DEF CheckInv, Reading, Early
  <2>3. SessionInv(c)'
    BY <1>0, <2>1 DEF SessionInv, Published, Reading, Early
  <2> QED BY <1>9, <2>2, <2>3 DEF InvocationInv
<1>11. CASE /\ ~fails
            /\ parsed' = [parsed EXCEPT ![c].defs = @ \cup {m}, ![c].others = @ \cup located]
            /\ pending' = [pending EXCEPT ![c] = StillPending(c, m)]
            /\ UNCHANGED pc
  <2>1. /\ parsed'[c] = [defs |-> parsed[c].defs \cup {m}, values |-> parsed[c].values,
                         others |-> parsed[c].others \cup located]
        /\ pending'[c] = (pending[c] \cup Called(v, m)) \ (parsed[c].defs \cup {m})
    <3>1. parsed[c] = [defs |-> parsed[c].defs, values |-> parsed[c].values,
                       others |-> parsed[c].others]
      BY <1>0 DEF CheckInv
    <3>2. DOMAIN parsed = Invocations /\ DOMAIN pending = Invocations
      BY <1>0 DEF SourceTypes
    <3>3. pending'[c] = StillPending(c, m)
      BY <1>11, <3>2
    <3>4. parsed'[c] = [[parsed[c] EXCEPT !.defs = @ \cup {m}] EXCEPT !.others = @ \cup located]
      BY <1>11, <3>2
    <3>5. parsed'[c] = [defs |-> parsed[c].defs \cup {m}, values |-> parsed[c].values,
                        others |-> parsed[c].others \cup located]
      BY <3>1, <3>4
    <3> QED BY <3>3, <3>5 DEF StillPending, v
  <2>2. CheckedSoFar(v, Known(c)', EntryOf[c], parsed[c].defs \cup {m},
                     (pending[c] \cup Called(v, m)) \ (parsed[c].defs \cup {m}),
                     parsed[c].others \cup located)
    <3>1. /\ Content[v[m]].defines /\ ~HostCall(v, m)
          /\ \A x \in {m} \cup located : ~Broken(v, x)
      BY <1>11 DEF fails
    <3> QED BY <1>1, <1>7, <1>8, <3>1, CheckVisits DEF located
  <2>3. CheckInv(c)'
    <3>1. /\ parsed'[c].defs = parsed[c].defs \cup {m}
          /\ parsed'[c].others = parsed[c].others \cup located
          /\ parsed'[c] = [defs |-> parsed'[c].defs, values |-> parsed'[c].values,
                           others |-> parsed'[c].others]
      BY <2>1
    <3>2. CheckedSoFar(View(c)', Known(c)', EntryOf[c], parsed'[c].defs, pending'[c],
                       parsed'[c].others)
      BY <1>6, <2>1, <2>2, <3>1
    <3>3. EntryOf[c] \in Known(c)'
      BY <1>0, <1>7 DEF CheckInv, Reading, Early
    <3> QED BY <1>0, <1>6, <1>11, <3>1, <3>2, <3>3 DEF CheckInv, Early
  <2>4. SessionInv(c)'
    BY <1>0, <1>11 DEF SessionInv, Published, Reading, Early
  <2> QED BY <1>9, <2>3, <2>4 DEF InvocationInv
<1> QED BY <1>1, <1>10, <1>11 DEF fails, located

\* The modules of compile-time globals are read and kept.
LEMMA ValuesSnapshot ==
    ASSUME SnapshotInv, NEW c \in Invocations, LoadValues(c)
    PROVE  InvocationInv(c)'
<1>0. /\ SourceTypes /\ AskedInv(c) /\ CheckInv(c) /\ SessionInv(c) /\ pc[c] = "check"
      /\ pending[c] = {} /\ UNCHANGED <<files, asked, pending, session, dir>>
  BY DEF SnapshotInv, InvocationInv, LoadValues, diskVars
<1> DEFINE v == View(c)
           D == parsed[c].defs
           values == Located(v, UsesOf(v, D))
<1>1. /\ Load(c, values)
      /\ \/ Finish(c, "check_error", Failed) /\ UNCHANGED parsed
         \/ /\ \A x \in values : ~Broken(v, x)
            /\ parsed' = [parsed EXCEPT ![c].values = values] /\ Goto(c, "query")
  BY DEF LoadValues
<1>2. CheckedSoFar(v, Known(c), EntryOf[c], D, {}, parsed[c].others)
  BY <1>0 DEF CheckInv
<1>3. values \subseteq {x \in Modules : v[x] # Missing}
  <2>1. ASSUME NEW r \in UsesOf(v, D) PROVE r \in Seq(Modules)
    <3>1. PICK m \in D : r \in Content[v[m]].uses
      BY DEF UsesOf
    <3>2. v[m] \in Versions
      BY <1>2 DEF CheckedSoFar
    <3> QED BY <3>1, <3>2, References
  <2> HIDE DEF v, D
  <2> QED BY <2>1, LocatedThere
<1>4. \A x \in Known(c) : loaded[c][x] \in Versions
  BY <1>0 DEF CheckInv
<1> HIDE DEF D, values
<1>5. /\ View(c)' = v /\ Known(c)' = Known(c) \cup {x \in values : v[x] # Missing}
      /\ \A x \in Known(c)' : loaded'[c][x] = v[x] /\ v[x] \in Versions
  <2>1. values \in SUBSET Modules
    BY <1>3
  <2> QED BY <1>0, <1>1, <1>4, <2>1, LoadView
<1> HIDE DEF v
<1>6. Known(c) \subseteq Known(c)' /\ values \subseteq Known(c)' /\ Known(c)' \subseteq Modules
  BY <1>3, <1>5 DEF Known
<1>7. CheckedSoFar(v, Known(c)', EntryOf[c], D, {}, parsed[c].others)
  BY <1>2, <1>5, <1>6, CheckGrows
<1>8. pc'[c] = "done" \/ pc'[c] = "query"
  BY <1>0, <1>1 DEF Finish, Goto, SourceTypes
<1>9. AskedInv(c)'
  BY <1>0, <1>5, <1>6 DEF AskedInv, Reading, Early, v
<1>10. SessionInv(c)'
  BY <1>0, <1>8 DEF SessionInv, Published, Reading, Early
<1>11. CASE Finish(c, "check_error", Failed) /\ UNCHANGED parsed
  <2>1. pc'[c] = "done"
    BY <1>0, <1>11 DEF Finish, Goto, SourceTypes
  <2>2. CheckInv(c)'
    BY <1>0, <1>5, <1>11, <2>1 DEF CheckInv, Reading, Early
  <2> QED BY <1>9, <1>10, <2>2 DEF InvocationInv
<1>12. CASE /\ \A x \in values : ~Broken(v, x)
            /\ parsed' = [parsed EXCEPT ![c].values = values] /\ Goto(c, "query")
  <2>1. /\ pc'[c] = "query"
        /\ parsed'[c] = [defs |-> D, values |-> values, others |-> parsed[c].others]
    <3>1. parsed[c] = [defs |-> D, values |-> parsed[c].values, others |-> parsed[c].others]
      BY <1>0 DEF CheckInv, D
    <3>2. parsed'[c] = [parsed[c] EXCEPT !.values = values]
      BY <1>0, <1>12 DEF SourceTypes
    <3>3. parsed'[c] = [defs |-> D, values |-> values, others |-> parsed[c].others]
      BY <3>1, <3>2
    <3> QED BY <1>0, <1>12, <3>3 DEF Goto, SourceTypes
  <2>2. /\ parsed'[c].defs = D /\ parsed'[c].values = values
        /\ parsed'[c].others = parsed[c].others
    BY <2>1
  <2>3. values = Located(v, UsesOf(v, D))
    BY DEF values
  <2>4. EntryOf[c] \in Known(c)'
    BY <1>0, <1>6 DEF CheckInv, Reading, Early
  <2>5. CheckInv(c)'
    BY <1>0, <1>5, <1>6, <1>7, <1>12, <2>1, <2>2, <2>3, <2>4 DEF CheckInv, Early
  <2> QED BY <1>9, <1>10, <2>5 DEF InvocationInv
<1> QED BY <1>1, <1>11, <1>12

\* The session that is promoted records the sources the check has seen.
LEMMA QuerySnapshot ==
    ASSUME SnapshotInv, NEW c \in Invocations, Query(c)
    PROVE  InvocationInv(c)'
<1>0. /\ SourceTypes /\ AskedInv(c) /\ CheckInv(c) /\ SessionInv(c) /\ pc[c] = "query"
      /\ UNCHANGED <<files, loaded, parsed, dir>>
  BY DEF SnapshotInv, InvocationInv, Query, diskVars
<1> DEFINE v == View(c)
           Q == Queried(c)
           sources == [m \in Q |-> AskedSource(c, m)]
           report == Report(v, parsed[c].defs, parsed[c].values)
           s == [entry |-> EntryOf[c], sources |-> sources, defs |-> parsed[c].defs,
                 report |-> report]
           w == Snapshot(s)
<1>1. pc'[c] = "write_session" /\ session'[c] = s
  BY <1>0 DEF Query, Goto, SourceTypes
<1>2. /\ CheckedSoFar(v, Known(c), EntryOf[c], parsed[c].defs, {}, parsed[c].others)
      /\ parsed[c].values = Located(v, UsesOf(v, parsed[c].defs))
      /\ parsed[c].values \subseteq Known(c)
      /\ \A m \in parsed[c].values : ~Broken(v, m)
  BY <1>0 DEF CheckInv
<1>3. Q = parsed[c].defs \cup parsed[c].values \cup parsed[c].others
  BY DEF Queried
<1>4. Q \subseteq Known(c)
  BY <1>2, <1>3 DEF CheckedSoFar
<1>5. ASSUME NEW m \in Q PROVE AskedSource(c, m) = v[m]
  <2>1. m \in Modules
    BY <1>4 DEF Known
  <2> QED BY <1>0, <2>1 DEF AskedInv, AskedSource, Reading
<1>6. ASSUME NEW m \in Modules PROVE w[m] = IF m \in Q THEN v[m] ELSE Missing
  <2>1. s.sources = sources /\ DOMAIN sources = Q
    OBVIOUS
  <2>2. m \in Q => sources[m] = v[m]
    BY <1>5
  <2> HIDE DEF sources, Q, v, s
  <2> QED BY <2>1, <2>2 DEF Snapshot
<1>7. s.report = report /\ s.entry = EntryOf[c]
  OBVIOUS
<1> HIDE DEF v, Q, w, s
<1>8. Report(v, parsed[c].defs, parsed[c].values) = FreshCheck(w, EntryOf[c])
  BY <1>2, <1>3, <1>6, CheckSnapshot
<1>9. session'[c].report = FreshCheck(Snapshot(session'[c]), session'[c].entry)
  BY <1>1, <1>7, <1>8 DEF w
<1>10. SessionInv(c)'
  BY <1>0, <1>1, <1>9 DEF SessionInv, Published, Reading
<1> QED BY <1>0, <1>1, <1>10, EndedInvocation DEF Reading, Early

\* Files are saved and removed but none is created: a name that was looked up
\* and not found stays unknown.
NothingAppears == \A m \in Modules : files[m] = Missing => files'[m] = Missing

\* A save changes nothing that has been read, nor what has been located.
LEMMA EditSnapshot ==
    ASSUME SnapshotInv, NEW m \in Modules, Edit(m), NothingAppears
    PROVE  SnapshotInv'
<1>0. /\ SourceTypes
      /\ UNCHANGED <<pc, loaded, asked, pending, parsed, session, dir>>
  BY DEF SnapshotInv, Edit, checkVars, diskVars
<1>1. SourceTypes'
  <2>1. PICK t \in Editable[m] : files' = [files EXCEPT ![m] = t]
    BY DEF Edit
  <2>2. t \in Versions \cup {Missing}
    BY CompileAssumption
  <2>3. files' \in [Modules -> Versions \cup {Missing}]
    BY <1>0, <2>1, <2>2 DEF SourceTypes
  <2> QED BY <1>0, <2>3 DEF SourceTypes
<1>2. ASSUME NEW c \in Invocations PROVE InvocationInv(c)'
  <2>1. AskedInv(c) /\ CheckInv(c) /\ SessionInv(c)
    BY DEF SnapshotInv, InvocationInv
  <2>2. Known(c)' = Known(c)
    BY <1>0 DEF Known
  <2> DEFINE v == View(c)
             w == View(c)'
             known == Known(c)
  <2>3. \A x \in Modules : /\ v[x] = IF x \in known THEN loaded[c][x] ELSE files[x]
                           /\ w[x] = IF x \in known THEN loaded[c][x] ELSE files'[x]
    BY <1>0 DEF View, Known
  <2>4. known \in SUBSET Modules
    BY DEF Known
  <2>5. Shrinks(v, w, known)
    BY <2>3, <2>4 DEF Shrinks, NothingAppears
  <2> HIDE DEF v, w, known
  <2>6. AskedInv(c)'
    <3> SUFFICES ASSUME pc[c] \in Reading, NEW x \in Modules, x \in DOMAIN asked[c]
                 PROVE  asked[c][x] = w[x] /\ (x \in known \/ files'[x] = Missing)
      BY <1>0, <2>2 DEF AskedInv, w, known
    <3>1. asked[c][x] = v[x] /\ (x \in known \/ files[x] = Missing)
      BY <2>1 DEF AskedInv, v, known
    <3> QED BY <2>3, <3>1 DEF NothingAppears
  <2>7. ASSUME pc[c] \in {"check", "query"}
        PROVE  CheckedSoFar(w, known, EntryOf[c], parsed[c].defs, pending[c], parsed[c].others)
    <3>1. CheckedSoFar(v, known, EntryOf[c], parsed[c].defs, pending[c], parsed[c].others)
      BY <2>1, <2>7 DEF CheckInv, v, known
    <3> QED BY <2>5, <3>1, CheckStable
  <2>8. ASSUME pc[c] = "query"
        PROVE  /\ parsed[c].values = Located(w, UsesOf(w, parsed[c].defs))
               /\ \A x \in parsed[c].values : ~Broken(w, x)
    <3> DEFINE D == parsed[c].defs
               values == parsed[c].values
    <3>1. /\ CheckedSoFar(v, known, EntryOf[c], D, pending[c], parsed[c].others)
          /\ values = Located(v, UsesOf(v, D)) /\ values \subseteq known
          /\ \A x \in values : ~Broken(v, x)
      BY <2>1, <2>8 DEF CheckInv, v, known
    <3> HIDE DEF D, values
    <3>2. \A x \in D : w[x] = v[x] /\ v[x] \in Versions
      BY <2>5, <3>1 DEF CheckedSoFar, Shrinks
    <3>3. UsesOf(w, D) = UsesOf(v, D)
      BY <3>2 DEF UsesOf
    <3> DEFINE refs == UsesOf(v, D)
    <3>4. ASSUME NEW r \in refs PROVE r \in Seq(Modules)
      <4>1. PICK x \in D : r \in Content[v[x]].uses
        BY DEF UsesOf
      <4> QED BY <3>2, <4>1, References
    <3>5. Located(v, refs) \subseteq known
      BY <3>1
    <3>6. values = Located(v, refs)
      BY <3>1
    <3>7. refs = UsesOf(w, D)
      BY <3>3
    <3> HIDE DEF refs
    <3>8. Located(w, refs) = Located(v, refs)
      BY <2>4, <2>5, <3>4, <3>5, LocatedStable
    <3>9. \A x \in values : ~Broken(w, x)
      BY <2>5, <3>1 DEF Broken, Shrinks
    <3> QED BY <3>6, <3>7, <3>8, <3>9 DEF D, values
  <2>9. CheckInv(c)'
    BY <1>0, <2>1, <2>2, <2>7, <2>8 DEF CheckInv, w, known
  <2>10. SessionInv(c)'
    BY <1>0, <2>1 DEF SessionInv, Published
  <2> QED BY <2>6, <2>9, <2>10 DEF InvocationInv
<1> QED BY <1>1, <1>2 DEF SnapshotInv

\* One case for each action.
LEMMA StepSnapshot ==
    ASSUME SnapshotInv, [Next]_vars, [NothingAppears]_files
    PROVE  SnapshotInv'
<1>0. SourceTypes
  BY DEF SnapshotInv
<1>1. ASSUME NEW c \in Invocations, Step(c) \/ PublishError(c) PROVE SnapshotInv'
  <2>0. AskedInv(c) /\ CheckInv(c) /\ SessionInv(c)
    BY DEF SnapshotInv, InvocationInv
  <2>1. CASE Start(c)
    BY <1>1, <2>1, StartSnapshot, OwnInvocation
  <2>2. CASE Open(c)
    <3>1. CASE BeginCheck(c)
      BY <1>1, <2>2, <3>1, BeginSnapshot, OwnInvocation DEF Open, diskVars
    <3>2. CASE Goto(c, "requery") /\ UNCHANGED pending
      <4>1. pc[c] = "open" /\ pc'[c] = "requery"
            /\ UNCHANGED <<files, loaded, asked, parsed, session, dir>>
        BY <1>0, <2>2, <3>2 DEF Open, Goto, SourceTypes, diskVars
      <4>2. View(c)' = View(c) /\ Known(c)' = Known(c)
        BY <4>1 DEF View, Known
      <4>3. AskedInv(c)'
        BY <2>0, <4>1, <4>2 DEF AskedInv, Reading, Early
      <4>4. CheckInv(c)'
        BY <2>0, <4>1, <4>2 DEF CheckInv, Reading, Early
      <4>5. SessionInv(c)'
        BY <2>0, <4>1 DEF SessionInv, Published, Reading, Early
      <4> QED BY <1>1, <4>3, <4>4, <4>5, OwnInvocation DEF InvocationInv
    <3> QED BY <2>2, <3>1, <3>2 DEF Open
  <2>3. CASE Requery(c)
    BY <1>1, <2>3, RequerySnapshot, OwnInvocation
  <2>4. CASE ReplayFails(c)
    BY <1>1, <2>4, BeginSnapshot, OwnInvocation DEF ReplayFails, diskVars
  <2>5. CASE CheckDefinition(c)
    BY <1>1, <2>5, DefinitionSnapshot, OwnInvocation
  <2>6. CASE LoadValues(c)
    BY <1>1, <2>6, ValuesSnapshot, OwnInvocation
  <2>7. CASE Query(c)
    BY <1>1, <2>7, QuerySnapshot, OwnInvocation
  <2>8. CASE \/ Replay(c) \/ PublishError(c) \/ WriteSession(c) \/ RenameSession(c)
             \/ CreateTemp(c) \/ WriteTemp(c) \/ RenameCurrent(c)
    <3>1. /\ UNCHANGED <<loaded, parsed, session>>
          /\ \/ dir'[c] = dir[c] /\ pc'[c] \in {"write_temp", "rename_current", "done"}
                /\ pc'[c] \notin Reading
             \/ pc[c] \in {"write_session", "rename_session"}
                /\ pc'[c] \in {"rename_session", "create_temp"}
      BY <1>0, <2>8 DEF Replay, PublishError, WriteSession, RenameSession, CreateTemp, WriteTemp,
                  RenameCurrent, Finish, Goto, SourceTypes, publishFrame, checkVars, diskVars,
                  Reading, Early
    <3>2. SessionInv(c)'
      BY <2>0, <3>1 DEF SessionInv, Published, Reading, Early
    <3>3. InvocationInv(c)'
      BY <2>0, <3>1, <3>2, EndedInvocation DEF Reading, Early
    <3> QED BY <1>1, <3>3, OwnInvocation
  <2> QED BY <1>1, <2>1, <2>2, <2>3, <2>4, <2>5, <2>6, <2>7, <2>8 DEF Step
<1>2. ASSUME NEW m \in Modules, Edit(m) PROVE SnapshotInv'
  <2>1. UNCHANGED files => NothingAppears
    BY DEF NothingAppears
  <2> QED BY <1>2, <2>1, EditSnapshot
<1>3. ASSUME NEW p \in Pids, Crash(p) PROVE SnapshotInv'
  <2>1. /\ pc' = [c \in Invocations |-> IF PidOf[c] = p /\ Running(c) THEN "done" ELSE pc[c]]
        /\ UNCHANGED <<files, loaded, asked, pending, parsed, session, dir>>
    BY <1>3 DEF Crash, checkVars, diskVars
  <2>2. SourceTypes'
    BY <1>0, <2>1 DEF SourceTypes, Labels
  <2>3. ASSUME NEW c \in Invocations PROVE InvocationInv(c)'
    <3>1. InvocationInv(c)
      BY DEF SnapshotInv
    <3>2. CASE pc'[c] = pc[c]
      BY <2>1, <3>1, <3>2, SameInvocation
    <3>3. CASE pc'[c] = "done"
      <4>1. SessionInv(c)'
        BY <2>1, <3>1, <3>3 DEF InvocationInv, SessionInv, Published, Reading, Early
      <4> QED BY <2>1, <3>1, <3>3, <4>1, EndedInvocation DEF InvocationInv, Reading, Early
    <3> QED BY <2>1, <3>2, <3>3
  <2> QED BY <2>2, <2>3 DEF SnapshotInv
<1>4. CASE UNCHANGED vars
  <2>1. UNCHANGED <<files, pc, loaded, asked, pending, parsed, session, dir>>
    BY <1>4 DEF vars, checkVars, diskVars
  <2>2. SourceTypes'
    BY <1>0, <2>1 DEF SourceTypes
  <2>3. \A c \in Invocations : InvocationInv(c)'
    BY <2>1, SameInvocation DEF SnapshotInv
  <2> QED BY <2>2, <2>3 DEF SnapshotInv
<1> QED BY <1>1, <1>2, <1>3, <1>4 DEF Next

\* As long as no module appears, every published session is the check of exactly
\* the sources it records, whatever is saved or removed between the reads of an
\* invocation and however many invocations run, publish, fail and die meanwhile.
THEOREM SessionsSnapshots == Spec /\ [][NothingAppears]_files => []SessionsAreSnapshots
<1>1. SnapshotInv => SessionsAreSnapshots
  BY DEF SnapshotInv, InvocationInv, SessionInv, Published, SessionsAreSnapshots, Snapshot
<1> QED BY InitSnapshot, StepSnapshot, <1>1, PTL DEF Spec
=============================================================================
