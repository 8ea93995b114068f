------------------------- MODULE IncrementalCompile -------------------------
(***************************************************************************)
(* Compile invocations that share an incremental cache directory:          *)
(* check_typed_bundle_entry_incremental_impl, QuerySession and             *)
(* publish_session in rust/catseq-frontend/src/incremental.rs, and the     *)
(* source loader of rust/catseq-compiler/src/lib.rs.                       *)
(*                                                                         *)
(* Every invocation runs once, in a thread of some process, while the      *)
(* user edits files and processes die.  A published session is an          *)
(* immutable directory named after its invocation; CURRENT names the one   *)
(* the next invocation starts from.  Fingerprints are injective, and the   *)
(* cache holds the sessions of one compiler version.                       *)
(***************************************************************************)
EXTENDS SourceBundle

CONSTANTS
    Invocations,
    Pids, PidOf,         \* the process each invocation runs in
    EntryOf,             \* the entry module each one compiles
    InitialFiles,        \* the source tree before the first invocation
    Editable,            \* Editable[m]: what a save may leave of m
    MaxEdits,            \* bound: saves
    MaxCrashes,          \* bound: processes that die
    MaxIoErrors          \* bound: file system errors

ASSUME CompileAssumption ==
    /\ PidOf \in [Invocations -> Pids]
    /\ EntryOf \in [Invocations -> Modules]
    /\ InitialFiles \in [Modules -> Versions \cup {Missing}]
    /\ Editable \in [Modules -> SUBSET (Versions \cup {Missing})]
    /\ {MaxEdits, MaxCrashes, MaxIoErrors} \subseteq Nat

NoFile == "no file"
Truncated == "truncated"

VARIABLES
    files,      \* the source tree
    pc,         \* where each invocation is
    previous,   \* QuerySession.previous: the session it loaded, or NoFile
    loaded,     \* the loader's map of sources, found ones only
    asked,      \* parse_nodes with their source results
    pending,    \* definitions still to be checked
    parsed,     \* modules of the check: defs, values and other located ones
    session,    \* QuerySession.current as it is written
    dir,        \* the invocation's session directory
    temp,       \* CURRENT.{pid}.tmp: the inode there, or NoFile
    current,    \* CURRENT: the inode there, or NoFile
    inode,      \* what the inode an invocation created holds
    handle,     \* the inode an invocation has open
    result,     \* what it returned
    quiet,      \* history: no save since it started
    edits, crashes, ioErrors

checkVars == <<previous, loaded, asked, pending, parsed, session>>
diskVars == <<dir, temp, current, inode, handle>>
historyVars == <<quiet, edits, crashes, ioErrors>>
vars == <<files, pc, checkVars, diskVars, result, historyVars>>

EmptyMap == [m \in {} |-> Missing]
NoCheck == [defs |-> {}, values |-> {}, others |-> {}]
NoSession == [entry |-> NoModule, sources |-> EmptyMap, defs |-> {}, report |-> Failed]

Init ==
    /\ files = InitialFiles
    /\ pc = [c \in Invocations |-> "idle"]
    /\ previous = [c \in Invocations |-> NoFile]
    /\ loaded = [c \in Invocations |-> EmptyMap]
    /\ asked = [c \in Invocations |-> EmptyMap]
    /\ pending = [c \in Invocations |-> {}]
    /\ parsed = [c \in Invocations |-> NoCheck]
    /\ session = [c \in Invocations |-> NoSession]
    /\ dir = [c \in Invocations |-> "none"]
    /\ temp = [p \in Pids |-> NoFile]
    /\ current = NoFile
    /\ inode = [c \in Invocations |-> Truncated]
    /\ handle = [c \in Invocations |-> NoFile]
    /\ result = [c \in Invocations |-> [kind |-> "none", report |-> Failed]]
    /\ quiet = [c \in Invocations |-> TRUE]
    /\ edits = 0 /\ crashes = 0 /\ ioErrors = 0

Goto(c, label) == pc' = [pc EXCEPT ![c] = label]

Finish(c, kind, report) ==
    /\ Goto(c, "done")
    /\ result' = [result EXCEPT ![c] = [kind |-> kind, report |-> report]]

-----------------------------------------------------------------------------
(* The query graph of a session. *)

\* The source tree through the loader: what was found once stays as it was.
View(c) == [m \in Modules |-> IF m \in DOMAIN loaded[c] THEN loaded[c][m] ELSE files[m]]

Load(c, mods) == loaded' = [loaded EXCEPT ![c] =
    [m \in DOMAIN @ \cup {x \in mods : View(c)[x] # Missing} |-> View(c)[m]]]

\* query_bundle_modules keeps the answers in parse_nodes.
Ask(c, answers) == asked' = [asked EXCEPT ![c] =
    [m \in DOMAIN @ \cup DOMAIN answers |-> IF m \in DOMAIN @ THEN @[m] ELSE answers[m]]]

\* The result of a ParseModule query over a SourceText result.
ParseResult(v) == IF v = Missing THEN Missing ELSE Content[v].tokens

SourceNodes(sources) ==
    [k \in {"SourceText", "ParseModule"} \X DOMAIN sources |->
        IF k[1] = "SourceText" THEN [result |-> sources[k[2]], deps |-> {}]
        ELSE [result |-> ParseResult(sources[k[2]]), deps |-> {<<"SourceText", k[2]>>}]]

\* Mutant of Dependencies: the definitions do not depend on their modules.
DependenciesOfEntryOnly(s, k) ==
    CASE k[1] = "CheckEntry" -> {<<"Definition", s.entry>>}
      [] k[1] = "Definition" -> {<<"IndexModule", k[2]>>}
      [] k[1] = "IndexModule" -> {<<"ParseModule", k[2]>>}

\* semantic_graph: the entry depends on its definitions, each of them on the
\* index of its module, that on the parse.  "Definition" stands for the chain
\* DefinitionHeader .. AnalyzeDependencyRoles, "CheckEntry" also for
\* ReachableDefinitions and CollectDiagnostics.
Dependencies(s, k) ==
    CASE k[1] = "CheckEntry" -> {<<"Definition", m>> : m \in s.defs}
      [] k[1] = "Definition" -> {<<"IndexModule", k[2]>>}
      [] k[1] = "IndexModule" -> {<<"ParseModule", k[2]>>}

SemanticNodes(s) ==
    [k \in ({"IndexModule"} \X DOMAIN s.sources) \cup ({"Definition"} \X s.defs)
           \cup {<<"CheckEntry", s.entry>>} |->
        [result |-> s.report, deps |-> Dependencies(s, k)]]

\* try_replay_green: a node that this session already has must have its old
\* result, any other is green when its dependencies are.
ReplayGreen(s, now, root) ==
    LET old == [k \in {"SourceText", "ParseModule"} \X DOMAIN s.sources |-> SourceNodes(s.sources)[k]]
        sem == SemanticNodes(s)
        node(k) == IF k \in DOMAIN sem THEN sem[k] ELSE old[k]
        green[k \in DOMAIN sem \cup DOMAIN old] ==
            IF k \in DOMAIN now THEN now[k].result = node(k).result
            ELSE \A d \in node(k).deps : green[d]
    IN  root \in DOMAIN sem /\ green[root]

-----------------------------------------------------------------------------
(* Opening a session and replaying it. *)

\* compile_source_bundle reads the entry and hands its text to the loader.
Start(c) ==
    /\ pc[c] = "idle"
    /\ \/ /\ files[EntryOf[c]] = Missing
          /\ Finish(c, "check_error", Failed)
          /\ UNCHANGED loaded
       \/ /\ files[EntryOf[c]] # Missing
          /\ Goto(c, "open")
          /\ Load(c, {EntryOf[c]})
          /\ UNCHANGED result
    /\ UNCHANGED <<files, previous, asked, pending, parsed, session, diskVars, historyVars>>

BeginCheck(c) ==
    /\ Goto(c, "check")
    /\ pending' = [pending EXCEPT ![c] = {EntryOf[c]}]

\* load_previous: a missing, truncated or dangling CURRENT is an empty session.
PreviousSession ==
    IF current = NoFile THEN NoFile
    ELSE LET name == inode[current]
         IN  IF name # Truncated /\ dir[name] = "final" THEN name ELSE NoFile

\* latest_cached_summary: the session knows this check.
Knows(d, c) == d # NoFile /\ session[d].entry = EntryOf[c]

Open(c) ==
    /\ pc[c] = "open"
    /\ previous' = [previous EXCEPT ![c] = PreviousSession]
    /\ \/ /\ Knows(PreviousSession, c)
          /\ Goto(c, "requery")
          /\ UNCHANGED pending
       \/ /\ ~Knows(PreviousSession, c)
          /\ BeginCheck(c)
    /\ UNCHANGED <<files, loaded, asked, parsed, session, diskVars, result, historyVars>>

\* Mutant of ToRequery: only the entry is asked for again.
ToRequeryEntryOnly(c) == {EntryOf[c]} \ DOMAIN asked[c]

\* The modules query_bundle_modules still has to ask for.
ToRequery(c) == DOMAIN session[previous[c]].sources \ DOMAIN asked[c]

\* One round of query_bundle_modules over the previous queried_modules in
\* their fixed (sorted) order, which only lexes the module.
Requery(c) ==
    /\ pc[c] = "requery" /\ ToRequery(c) # {}
    /\ LET m == CHOOSE x \in ToRequery(c) : TRUE
           v == View(c)[m]
           lexes == v # Missing => Content[v].broken # "lex"
       IN  /\ Load(c, {m})
           /\ \/ /\ lexes
                 /\ Ask(c, [x \in {m} |-> v])
                 /\ UNCHANGED <<pc, result>>
              \/ /\ ~lexes
                 /\ Finish(c, "check_error", Failed)
                 /\ UNCHANGED asked
    /\ UNCHANGED <<files, previous, pending, parsed, session, diskVars, historyVars>>

Green(c) == ReplayGreen(session[previous[c]], SourceNodes(asked[c]), <<"CheckEntry", EntryOf[c]>>)

\* try_replay_green succeeds and the cached report can be read.
Replay(c) ==
    /\ pc[c] = "requery" /\ ToRequery(c) = {}
    /\ Green(c)
    /\ Finish(c, "replayed", session[previous[c]].report)
    /\ UNCHANGED <<files, checkVars, diskVars, historyVars>>

\* The replay is red, or cached_report cannot read the report file.
ReplayFails(c) ==
    /\ pc[c] = "requery" /\ ToRequery(c) = {}
    /\ \/ /\ ~Green(c)
          /\ UNCHANGED ioErrors
       \/ /\ Green(c) /\ ioErrors < MaxIoErrors
          /\ ioErrors' = ioErrors + 1
    /\ BeginCheck(c)
    /\ UNCHANGED <<files, previous, loaded, asked, parsed, session, diskVars, result,
                   quiet, edits, crashes>>

-----------------------------------------------------------------------------
(* The check. *)

\* Mutant of StillPending: visited definitions are queued again.
StillPendingRevisited(c, m) == (pending[c] \cup Called(View(c), m)) \ {m}

\* The queue once m is visited.
StillPending(c, m) == (pending[c] \cup Called(View(c), m)) \ (parsed[c].defs \cup {m})

\* The body of the while loop for one definition: the module is parsed, its
\* calls are located, their modules loaded and parsed.
CheckDefinition(c) ==
    /\ pc[c] = "check"
    /\ \E m \in pending[c] :
          LET v == View(c)
              located == Located(v, Content[v[m]].calls)
              fails == \/ \E x \in {m} \cup located : Broken(v, x)
                       \/ ~Content[v[m]].defines
                       \/ HostCall(v, m)
          IN  /\ Load(c, {m} \cup located)
              /\ \/ /\ fails
                    /\ Finish(c, "check_error", Failed)
                    /\ UNCHANGED <<pending, parsed>>
                 \/ /\ ~fails
                    /\ parsed' = [parsed EXCEPT ![c].defs = @ \cup {m}, ![c].others = @ \cup located]
                    /\ pending' = [pending EXCEPT ![c] = StillPending(c, m)]
                    /\ UNCHANGED <<pc, result>>
    /\ UNCHANGED <<files, previous, asked, session, diskVars, historyVars>>

\* load_referenced_compile_modules.
LoadValues(c) ==
    /\ pc[c] = "check" /\ pending[c] = {}
    /\ LET v == View(c)
           values == Located(v, UsesOf(v, parsed[c].defs))
           fails == \E x \in values : Broken(v, x)
       IN  /\ Load(c, values)
           /\ \/ /\ fails
                 /\ Finish(c, "check_error", Failed)
                 /\ UNCHANGED parsed
              \/ /\ ~fails
                 /\ parsed' = [parsed EXCEPT ![c].values = values]
                 /\ Goto(c, "query")
                 /\ UNCHANGED result
    /\ UNCHANGED <<files, previous, asked, pending, session, diskVars, historyVars>>

Queried(c) == parsed[c].defs \cup parsed[c].values \cup parsed[c].others

\* Mutant of AskedSource: the file is read again.
AskedSourceReread(c, m) == IF m \in DOMAIN asked[c] THEN asked[c][m] ELSE files[m]

\* query_bundle_modules answers what it was asked before from parse_nodes.
AskedSource(c, m) == IF m \in DOMAIN asked[c] THEN asked[c][m] ELSE View(c)[m]

\* The second query_bundle_modules, semantic_graph and promote_report.
Query(c) ==
    /\ pc[c] = "query"
    /\ LET sources == [m \in Queried(c) |-> AskedSource(c, m)]
       IN  /\ Ask(c, sources)
           /\ session' = [session EXCEPT ![c] =
                  [entry |-> EntryOf[c], sources |-> sources, defs |-> parsed[c].defs,
                   report |-> Report(View(c), parsed[c].defs, parsed[c].values)]]
    /\ Goto(c, "write_session")
    /\ UNCHANGED <<files, previous, loaded, pending, parsed, diskVars, result, historyVars>>

-----------------------------------------------------------------------------
(* publish_session. *)

publishFrame == <<files, checkVars, historyVars>>

\* create_dir and the writes into the in-progress directory.
WriteSession(c) ==
    /\ pc[c] = "write_session"
    /\ dir' = [dir EXCEPT ![c] = "private"]
    /\ Goto(c, "rename_session")
    /\ UNCHANGED <<publishFrame, temp, current, inode, handle, result>>

\* Mutant of RenameSession: the directory keeps its in-progress name.
RenameSessionSkipped(c) ==
    /\ pc[c] = "rename_session"
    /\ Goto(c, "create_temp")
    /\ UNCHANGED <<publishFrame, diskVars, result>>

RenameSession(c) ==
    /\ pc[c] = "rename_session"
    /\ dir' = [dir EXCEPT ![c] = "final"]
    /\ Goto(c, "create_temp")
    /\ UNCHANGED <<publishFrame, temp, current, inode, handle, result>>

\* Mutant of CurrentTempPath: one path for everybody.
CurrentTempPathShared(c) == CHOOSE p \in Pids : TRUE

\* current_temp_path: one path for each process.
CurrentTempPath(c) == PidOf[c]

\* The open of fs::write: it creates the file, or truncates the one there.
CreateTemp(c) ==
    /\ pc[c] = "create_temp"
    /\ LET there == temp[CurrentTempPath(c)]
           i == IF there = NoFile THEN c ELSE there
       IN  /\ temp' = [temp EXCEPT ![CurrentTempPath(c)] = i]
           /\ handle' = [handle EXCEPT ![c] = i]
           /\ inode' = [inode EXCEPT ![i] = Truncated]
    /\ Goto(c, "write_temp")
    /\ UNCHANGED <<publishFrame, dir, current, result>>

\* The write of fs::write, to the inode it opened wherever that is linked now.
WriteTemp(c) ==
    /\ pc[c] = "write_temp"
    /\ inode' = [inode EXCEPT ![handle[c]] = c]
    /\ Goto(c, "rename_current")
    /\ UNCHANGED <<publishFrame, dir, temp, current, handle, result>>

RenameCurrent(c) ==
    /\ pc[c] = "rename_current"
    /\ LET path == CurrentTempPath(c)
       IN  \/ /\ temp[path] # NoFile
              /\ current' = temp[path]
              /\ temp' = [temp EXCEPT ![path] = NoFile]
              /\ Finish(c, "checked", session[c].report)
           \/ /\ temp[path] = NoFile
              /\ Finish(c, "temp_missing", Failed)
              /\ UNCHANGED <<current, temp>>
    /\ UNCHANGED <<publishFrame, dir, inode, handle>>

\* A file system error in one of the steps.  A failed write removes the
\* in-progress directory, the other failures leave what is there.
PublishError(c) ==
    /\ pc[c] \in {"write_session", "rename_session", "create_temp", "write_temp", "rename_current"}
    /\ ioErrors < MaxIoErrors
    /\ ioErrors' = ioErrors + 1
    /\ Finish(c, "io_error", Failed)
    /\ UNCHANGED <<files, checkVars, diskVars, quiet, edits, crashes>>

-----------------------------------------------------------------------------
(* The environment. *)

Running(c) == pc[c] \notin {"idle", "done"}

\* The user saves, creates or removes a module.
Edit(m) ==
    /\ edits < MaxEdits
    /\ edits' = edits + 1
    /\ \E v \in Editable[m] \ {files[m]} : files' = [files EXCEPT ![m] = v]
    /\ quiet' = [c \in Invocations |-> quiet[c] /\ ~Running(c)]
    /\ UNCHANGED <<pc, checkVars, diskVars, result, crashes, ioErrors>>

\* A process dies with the invocations it runs; its files stay.
Crash(p) ==
    /\ crashes < MaxCrashes
    /\ crashes' = crashes + 1
    /\ \E c \in Invocations : PidOf[c] = p /\ Running(c)
    /\ LET dead(c) == PidOf[c] = p /\ Running(c)
       IN  /\ pc' = [c \in Invocations |-> IF dead(c) THEN "done" ELSE pc[c]]
           /\ result' = [c \in Invocations |->
                 IF dead(c) THEN [kind |-> "crashed", report |-> Failed] ELSE result[c]]
    /\ UNCHANGED <<files, checkVars, diskVars, quiet, edits, ioErrors>>

-----------------------------------------------------------------------------

Step(c) ==
    \/ Start(c) \/ Open(c) \/ Requery(c) \/ Replay(c) \/ ReplayFails(c)
    \/ CheckDefinition(c) \/ LoadValues(c) \/ Query(c)
    \/ WriteSession(c) \/ RenameSession(c) \/ CreateTemp(c) \/ WriteTemp(c)
    \/ RenameCurrent(c)

Next ==
    \/ \E c \in Invocations : Step(c) \/ PublishError(c)
    \/ \E m \in Modules : Edit(m)
    \/ \E p \in Pids : Crash(p)

Spec == Init /\ [][Next]_vars

\* An invocation is a thread the operating system keeps running.
FairSpec == Spec /\ \A c \in Invocations : WF_vars(Step(c))

-----------------------------------------------------------------------------
(* Properties. *)


Labels == {"idle", "open", "requery", "check", "query", "write_session", "rename_session",
           "create_temp", "write_temp", "rename_current", "done"}

Kinds == {"none", "check_error", "replayed", "checked", "io_error", "temp_missing", "crashed"}

\* A report that try_replay_green takes from the cache is the one a check of
\* the sources this invocation has read would give, whatever was saved while
\* the modules were asked for again.
ReplayIsFresh ==
    [][\A c \in Invocations :
          result'[c] # result[c] /\ result'[c].kind = "replayed" =>
              result'[c].report = FreshCheck(View(c), EntryOf[c])]_vars

\* When nobody saves during an invocation, the cache is not observable: the
\* invocation reports what a check without cache_dir of the same files reports,
\* be it a report or a diagnostic.
AgreesWithFresh ==
    [][\A c \in Invocations :
          /\ result'[c] # result[c] /\ quiet[c]
          /\ result'[c].kind \in {"replayed", "checked", "check_error"}
          => result'[c].report = FreshCheck(files, EntryOf[c])]_vars

\* A published session is one snapshot: its report is the check of exactly the
\* sources it records, even when files changed between their reads (the loader
\* of check_source_bundle answers each module once).
SessionsAreSnapshots ==
    \A c \in Invocations : dir[c] = "final" =>
        LET s == session[c]
            snapshot == [m \in Modules |-> IF m \in DOMAIN s.sources THEN s.sources[m] ELSE Missing]
        IN  s.report = FreshCheck(snapshot, s.entry)

\* The invocation has opened a temporary file and not written it, or ended on
\* the way.
Unwritten(c) == pc[c] = "write_temp" \/ result[c].kind \in {"io_error", "crashed"}

\* CURRENT names a complete session directory at every moment, so that a crash
\* between any two steps of publish_session, or a reader in between, finds the
\* old session or the new one.  The one exception: two threads of one process
\* share CURRENT.{pid}.tmp, and one of them renames the file that the other has
\* truncated and not written (yet, or ever).
PublishedComplete ==
    current # NoFile =>
        \/ inode[current] # Truncated /\ dir[inode[current]] = "final"
        \/ /\ inode[current] = Truncated
           /\ \E c, d \in Invocations :
                 /\ c # d /\ PidOf[c] = PidOf[d]
                 /\ result[c].kind = "checked"
                 /\ handle[d] = current /\ Unwritten(d)

\* A successful check is turned into an error of the rename only by another
\* thread of the same process, which then has published: never by another
\* process, a crash or an error of one.
InterferesWithinProcess ==
    \A c \in Invocations : result[c].kind = "temp_missing" =>
        /\ dir[c] = "final"
        /\ \E d \in Invocations \ {c} : PidOf[d] = PidOf[c] /\ result[d].kind = "checked"

\* Every invocation that runs returns or dies: definitions that call each other
\* in a cycle are visited once.
CompileTerminates == \A c \in Invocations : Running(c) ~> pc[c] = "done"

=============================================================================
