# A TLA+ model of CatSeq

CatSeq compiles experiment sequences written in a subset of Python to programs
for RTMQ control boards, and runs them over raw Ethernet. This directory holds
TLA+ modules translated from its source, TLC configurations that check them on
small instances, and proofs that TLAPS checks for every value of the constants.

`tlc -config X.cfg M` runs one configuration, `tlapm M.tla` checks the proofs of
one module. `PROJECT.json` lists the runs with their expected result, the source
lines every definition stands for, a mutant for every property, the findings and
the hazards.

## Inventory

| Part | State it keeps | Operations | Talks to | What makes it correct |
|---|---|---|---|---|
| Runtime execution (`rust/catseq-runtime/src/execution.rs`) | evidence per board, exception reports, pending exception addresses, results | prepare, dispatch, monitor, apply_frame | transport, boards | the outcome claims no more than what happened on the wire; it returns |
| Raw Ethernet transport (`transport/raw_socket.rs`) | socket, marker | open, send, receive, close | kernel, wire | a frame is sent at most once; the deadline holds under load |
| RTLink and Download loader (`protocol/rtlink.rs`, `catseq-rtmq/src/download.rs`) | none | encode, decode, materialize | runtime | section and frame boundaries are known exactly |
| Runtime handoff (`catseq-runtime/src/model.rs`) | none | validation of program and configuration | runtime, Python | an accepted pair fits the boards |
| Incremental query cache (`catseq-frontend/src/incremental.rs`) | session directories, CURRENT, query graph | open, ask, replay, check, publish | file system, other processes | the cache is not observable; a published session is complete |
| Typed bundle check (`typed.rs`, `typed/`) | worklist, parsed modules, definitions | locate, load, analyse | loader | every definition reachable from the entry is analysed once |
| Loader and one-shot compiler (`catseq-compiler/src/lib.rs`) | modules loaded so far | load, compile | files, cache | one compilation sees each module once |
| In-memory compiler session (`catseq-frontend/src/session.rs`) | sources, HIR and modules of earlier compilations | compile | Python binding | reuse equals recompilation |
| Experiment flow (`catseq/experiment/base_exp.py`, `run_control.py`, `descartes.py`) | run flags, the next compilation, traversal position | run, pause, stop, execute point, compile ahead | compiler, runtime, devices | the point that runs is the point that was compiled; cleanup always happens |
| Devices, analysers, HDF5 (`catseq/experiment/`) | device list, pipeline, file | start, read, close, analyse, write | experiment flow | every device is closed, data are written once |
| Core arenas (`catseq-core/src/`) | nodes, edges, boundaries, payloads, templates, interned names | append, compose, publish, finish | frontend, rtmq | an id keeps its meaning; operands precede; finish drops only what nobody needs |
| Frontend lowering (`source_hir.rs`, `morphism_lowering.rs`, `value_lowering.rs`, `typed/`) | HIR and facts, values per node, template plans | check, infer, specialise | core arenas, loader | the specialised Morphism means what the source means |
| OASM call plan (`catseq-rtmq/src/oasm_call_plan/`) | timings, event lists, loop regions, calls per board | time, walk, charge loops, schedule, lay out | core arenas, assembly | the boards do what the Morphism says, when it says it |
| OASM assembly (`catseq/compilation/execution.py`) | assembler contexts | assemble | runtime | every board ends with its epilogue |

What is hard here: boards answer concurrently over a wire that loses packets and
is shared with others; a run can time out and leave boards running into the next
one; a send can fail without saying whether the frame went out; compilations read
files while they are saved, share a cache directory with other processes and
threads, and can be killed between any two file operations; an experiment
compiles one point ahead in a second thread while a user pauses or stops it and
any device, file or analysis may fail. The compiler itself is sequential; it is hard
because each pass keeps a promise the next one needs: names, branches and templates
are resolved away before anything runs, time may go backwards, boards must meet at
syncs, and hardware loops take longer than the program says. `PROJECT.json`
(hazards) lists these at their lines.

## Modules

| Module | Models | Depends on |
|---|---|---|
| `DownloadLayout` | where the words of a board's image land in frames | |
| `RuntimeExecution` | one physical run, with boards, wire and clock as environment | `DownloadLayout` |
| `RunContract` | abstract: what a run promises its caller | |
| `RuntimeExecutionProofs`, `EvidenceProofs`, `CleanRunProofs` | the theorems about a run | `RuntimeExecution`, `RunContract` |
| `SourceBundle` | what a check of a source tree reports: the reference | |
| `IncrementalCompile` | compilations that share a cache directory | `SourceBundle` |
| `PublishProofs` | the theorems about publication and about what a session holds | `IncrementalCompile` |
| `ScanLayout` | repeat and scan nodes, their points, the lookahead's arithmetic | |
| `ExperimentRun` | `BaseExp.run` with run control, traversal, compile thread, devices and file | `ScanLayout` |
| `ExperimentProofs`, `TraversalProofs` | the theorems about an experiment | `ExperimentRun` |
| `SourceHir` | the typed Source HIR: traversal, facts, types, the structural check | |
| `ValueLowering` | compile-time values over exact decimals, value expressions | `SourceHir` |
| `Specialization` | the specialiser: definitions, calls, branches, templates, slots | `ValueLowering` |
| `SourceSemantics` | reference: executing the source | `Specialization` |
| `SourceFragment` | the part of the language the specialiser treats as Python does; its properties | `SourceSemantics` |
| `MorphismArena` | the flat Morphism arena, its builder and `finish` | |
| `MorphismArenaProofs` | the theorems about the builder and `finish` | `MorphismArena` |
| `MorphismTiming` | timing and epochs of a Morphism | |
| `BoardScheduler` | preloads, merging and layout of one board's calls | |
| `CallPlan` | compilation of a Morphism to the calls of every board | `MorphismTiming`, `BoardScheduler` |
| `CallPlanSemantics` | reference: what the program asks for and what the calls do; properties | `CallPlan` |
| `CallPlanProofs` | the theorems about timing, epochs, layout and the rendezvous | `CallPlanSemantics` |
| `MC*` | constants and programs for TLC | |

The three compiler parts are a pipeline: `Specialization` builds Morphism trees,
`MorphismArena` stores what is built, `CallPlan` compiles a stored Morphism. Each
takes what the one before delivers as its input; the interface is the Morphism.

### RuntimeExecution

The host thread is the sequence prepare, open, dispatch, monitor of
`execute_with_transport`; `at`, `frame` and `rejected` are the loop variables of
`dispatch`, `evidence`, `exceptions`, `exceptionAddresses` and `results` the maps
of the code. One action is one answer of the transport (`SendOk`,
`SendNotAccepted`, `SendAcceptanceUnknown`, `ReceiveNone`, `ReceiveError`) or one
branch of `apply_frame`. A packet keeps the fields `apply_frame` looks at; the
field `gen`, which run's program sent it, is history and no host action reads it.

The boards are external. They are modelled from the loader words and from the
epilogue of `assemble_oasm_calls`: the first frame halts a core, the last starts
the image; a running program sends results, then its completion, or enters the
exception handler, which sends two frames. A board that belongs to `PriorBoards`
may start in the program of an earlier run. Frames get lost in both directions,
the socket buffer overflows, others use the wire.

The deadline is a clock with three values. `last_millisecond` is the interval in
which poll's timeout, cut to whole milliseconds, may end before the deadline.

Not in the model: `ProgramInvalid` (every board that passed the constructors has
a loader), an overflow of the deadline, the clamp of poll's timeout to 2^31 ms,
and a `sendto` that blocks.

### IncrementalCompile

An invocation runs once: it reads the entry, opens the session CURRENT names,
asks for the modules of that session again, and replays its report if the query
graph is green. Otherwise it checks definition by definition, records what it
read and publishes in five file operations. `View` is the source tree through the
memoising loader of `check_source_bundle`. A module's text is a version;
`Content` says what the compiler sees of it. `fs::write` is two steps, the open
that truncates and the write to the inode it opened, since another thread may
rename the file in between.

The query kinds between `IndexModule` and `AnalyzeDependencyRoles` form a chain
with one predecessor each and are one kind, `Definition`. Only the results of
`SourceText` and `ParseModule` are compared in a replay of the entry, so the
results of the others are not distinguished. Fingerprints are taken to be
injective. One definition stands for all definitions of a module. The calls of one
definition are located in one step; the loader answers each found module once, so
this matters only to modules created in between.

Every value is checked against `FreshCheck`, the reference: the report of a tree
that nobody edits, computed from the reachable definitions without worklist,
cache or loader.

### ExperimentRun

Three actors: the thread in `run()`, the single compile thread of its executor,
and a user who calls `run()`, pauses, resumes and stops. `frames` are the
activations of `_repeat` and `_scan`, each with its iteration and the `_params` it
restores; an exception or a failed checkpoint empties them, which is what the
`finally` clauses do on the way out. A scan and a repeat differ only in the value
they set, so both are a node `[param, values]`. A program is the parameters it was
compiled from: `compiled` is what the runtime gets, `future` what the compile
thread works on, and `ProgramOfPoint` compares the first with the point ParaDict
recorded. `TraversalInOrder` compares the recorded points with the lexicographic
order of all points, which `ScanLayout` states without loops.

`checkpoint` tests and sleeps under one lock, so its last round is one step;
`waiting` is the sleep and is ended only by a notification. Two state variables
are history: `sinceStop`, and the run each entry of `lastErrors` belongs to.

The H5 file is opened with mode "x". A second `run()` of the same object therefore
fails in `open` unless the first one failed there, before it compiled anything:
this is what keeps a compilation that an earlier run left behind from meeting a
compilation of the next one. The model takes it from the code, and
`OneCompilation` depends on it; giving the object another writer or removing the
file between two runs is not modelled.

Every collaborator may raise: compiler, runtime, each device, analyzers, `finish`,
`open` before and after it created the file, `write` and `close`. Not in the model:
a `KeyboardInterrupt` between two statements, collaborators that block, panel
publishing (its failures are caught), and ParaDict's shape errors, which need two
points of one layout with different axes.

Two things the properties leave out and a reader should know: a failure after
`open` created the file leaves it open, since `_h5_opened` is not set yet; and
`_cleanup_errors` survives into the next run of the object, whose file may then hold
errors of the earlier one.

### SourceHir, ValueLowering, Specialization

A syntax tree is a record; a HIR is the sequence of its nodes in the order the
traversal leaves them, with a fact (type, availability, targets) for each. `Check`
builds the HIRs, carries return types through the callers
(`refresh_derived_facts`) and refuses what the typed report refuses. Then one step
is one node of the innermost definition: the action is the branch of the code's
match on the node's kind (`ReadName`, `CallDefinition`, `LowerIf`,
`LowerComprehensionNode`, `LowerBlackBox`, ...). `frames` is the recursion of
`lower_definition`, `arena` the template plans and what was published of them. A
decimal is a fraction in lowest terms; `MaxInt64` keeps the width of integers.
Name resolution and the reachability search are external here (`resolved`,
`targets`); `IncrementalCompile` has them.

`SourceSemantics` executes the source statement by statement, as Python would, with
given values for the slots that are known at link time only; `SourceFragment` compares.
`SpecializesAsSource` says of a program that is `Supported` and specialised that both
mean the same; it says nothing of a program Python itself would stop in.
`JustifiedRejection` says of one that is `Supported` and refused that executing it fails
or gives no Morphism; of programs with link-time values it needs more (below). What the
code does with programs that are not `Supported`, and the model with it:

Statements.

* An `if` inside an arm is applied even if the arm is not taken (`specialize_nested`).
* A `for` statement passes the check and is lowered to nothing.
* `m >>= x` binds `m` to `x` alone; `a, b = ...` binds nothing.
* A `return` inside an `if` does not end the definition.
* A name assigned in one arm only is read from that arm although it was not taken, if it
  has no value of its own; a parameter that is None and assigned in one arm counts as
  such a name.
* A name that has a value, is assigned in an arm and read again in the same arm, is read
  with its old value: the assignments of an arm are bound when the `if` itself is
  lowered, behind all nodes of the arm. `m = m >> a; m = m >> b` in an arm gives `m >> b`.

Comprehensions. The element is lowered once with the rest of the definition, where the
variable has no value, and then once per item. Only what `eval_compile_expression` knows
(names, lists, operators, comparisons, conditionals, subscripts, the list functions) is
computed again for an item; anything else keeps the value of the first lowering.

* `[leg(us, i) for i in (1, 2)]`: the call is lowered without its second argument, which
  gets the default or is missing, and that one value is used for every item. Also
  `hold(i * us)` becomes `hold(0)`.
* `[cycles(i) for i in range(3)]` and `[pulse(i * us)(A) for i in ...]` are refused,
  since the operand has no value in the first lowering.
* A comprehension in the element of another loses the outer variable.
* Over a list of instances only a method of the variable is handled and filters are
  ignored. A variable with the name of a local, a parameter or a time unit is mistaken
  for it.

Expressions.

* `and` and `or` have no value: an `if` on one is refused, a conditional expression takes
  its else operand, and one of Morphisms is refused.
* A conditional expression whose condition is known at link time only, or is no bool,
  takes its else operand.
* A subscript other than `scan[param]` has no value outside of a comprehension, and is
  an error if its value is known at link time only.
* Operations take keyword arguments by position, and an argument without a value lets
  those behind it move up; more arguments than expected are ignored (the start of `sum`).
* `reduce` composes in parallel whatever its function says, and `sum` of nothing
  panics, which the model takes for a refusal.
* Floor division and modulo by a negative number are Euclidean.
* Equal channel keys in a dictionary are both bound.
* An operation on link-time values whose type is unknown (an Optional operand) drops
  them; lists, dictionaries and comprehensions of them are carried as references and not
  compared; `range`, `len`, `zip` and the like of them have no value.

`JustifiedRejection` further asks that arguments and results have the declared types
(`TypesAgree`), that no directly invoked `template(channel)` has a slot among its operands
(`InvokesKnownTemplates`; it is refused, `{channel: template}` is not), and that link-time
values are stored, passed on, computed with or used as a length, and take no part in a
choice or a count (`LinkUsesPlain`). Refused although Python runs them, because of the
last: a duration constant that is no whole number of cycles beside a link-time value,
what `sum` adds to one (it is typed as a number), and names whose assignments differ in
type.

### MorphismArena

The storage is flat as in the code. The loop that flattens the children of a
composition takes one step per child; `finish` is one step, in which the nodes marked
from the roots are the smallest set closed under children and the copy is a recursive
function over the nodes in order. `meaning` is history: the tree every call asked for.
`BuilderDenotes` reads the tree back from the flat storage and compares;
composition is associative, which is what makes flattening right.

### MorphismTiming, BoardScheduler, CallPlan

`AnalyzeTiming` and `AnalyzeEpochs` are the forward passes. The walk over the
program uses the explicit stack of `event_lowering.rs`: one step pops one task. Then
one step is one loop region of `apply_loop_timing` and one epoch of
`build_call_plan`. Masks are sets of local ids, waveform coefficients the words
written for them; the cost of a call is computed as in `abi_cost.rs`. Cycles are
unbounded.

`CallPlanSemantics` unfolds the program into timed operations, and executes the
calls of a board with their loops. `logical` is history: the events before loops
were charged. What the properties leave out:

* `TtlLevelsRealised` is about boards that do nothing else while they run a loop
  (`LoopsUndisturbed`). What meets a loop on its board is moved behind it
  (`callplan_serial`). If a loop begins at the instant a loop inside it begins, the
  inner `LoopBegin` comes first, since the inner loop was lowered first and the sorts are
  stable: the counts are swapped, and in `Loop(2, Loop(3, Pulse t0) >> Pulse t1)` the
  level of t1 is driven three times;
* `NeverEarly` is about programs without hardware loops, whose iterations have no
  timestamp in the plan;
* `Rendezvous` allows calls of the epoch behind its sync in programs that rewind; it
  contains `EpochsCovered`, which holds for all programs;
* `LoopsAccounted` is about loops that begin on time and not together with another of
  their board. A loop inside a loop loses its scope to the outer one and is never
  charged, so there it is about bodies whose calls fit their logical length. Boards
  of one loop that need less than the longest body drift ahead: after n passes they
  are n - 1 times the difference before the plan, which is what the property says of them;
* `PlaysItsLoad` is about boards with time to load (`TimeToLoad`) and channels whose
  loads are not mixed with those of a loop (`LoadsUnlooped`). A play at the origin of an
  epoch is emitted before its load; if plays are closer than a play and a load, the later
  load is moved before the earlier play; the first load of a loop is moved in front of
  `LoopBegin`, which is wrong in the second pass if the loop loads twice; a load right
  behind a loop is moved into it; of two `set_state` of a channel at one instant
  both plays are dropped;
* which registers the external `oasm` loop uses is unknown; every loop gets
  register 1, also inside another.

## Runs

| Run | Result | Shows |
|---|---|---|
| `runtime_clean` | pass | with boards that start idle: `not_started` means no launch word went out, frames go out once and in order, success means every board finished this program, results are complete, exception addresses belong to their flags |
| `runtime_prior` | pass | with a board still in an earlier program and noise: evidence only rises, outcomes agree with it, `fully_observed` is true, the run implements `RunContract` and returns under endless traffic |
| `runtime_stale` | violation | a completion of an earlier program makes a run succeed |
| `cache_replay` | pass | two processes, saves, a crash, an error: the cache is not observable |
| `cache_publish` | pass | two threads of one process, a second process and two entries: CURRENT names a complete session unless a thread renames the file another of its process truncated, only a thread of the same process can make a publication fail, and cyclic definitions do not keep a compilation running |
| `cache_constants` | violation | edits of a module read only for globals are not seen |
| `experiment_lifecycle` | pass | programs belong to their points, points come in order, the compile thread does not overlap, a stop is obeyed within one point, rows line up, a clean return means a complete scan, cleanup is complete, a stop ends a run even in a pause, a run that is not kept paused ends |
| `arena` | pass | operands precede, ids keep their meaning, `finish` keeps the meaning and nothing else, and fails only for a reason |
| `callplan` | pass | the TTL levels of the program in its order and never early, its length, the exclusiveness of black boxes, the meeting of the boards, the cost of loops, plays of what was loaded |
| `callplan_serial` | violation | a level written right before a hardware loop is driven behind it |
| `specialize` | pass | what is specialised means what the source means, what is refused has a reason, templates are published once |
| `specialize_nested` | violation | an `if` in an arm that is not taken changes the program |

Bounds. Two boards with images of two and one words give launch sections at both
parities and a board that is dispatched while another already runs. One retry,
one lost frame, two faults and one result per board reach each branch and the
overlap of two faults; a socket buffer of two packets overflows. Two processes
suffice for a replay that races a save. Three invocations publish: two share a process
and with it the temporary file, the third publishes another session between any two
of their steps. Two saves allow a change and a second
change, one crash and one error hit every step. `Editable` of the passing cache runs
keeps to trees where every imported module contributes a definition, none is created,
and a module whose import was dropped still lexes. Outside of that the cache is
observable: `cache_constants`; a module that appears under a longer prefix of a name
(`typed/resolution.rs`, `locate_source_definition`) is not noticed; a module that is
no longer imported is still asked for and can fail the compilation.

The scans are: no node, three nested nodes of two with an indexed repeat (a carry
over two levels), a scan with two equal values around a repeat, and a repeat of
zero inside another. Two devices let one fail after the other; two calls of
`run()` show what survives a run. Pauses, resumes and stops are not bounded.

`arena`: four nodes allow a composition of a composition, with a leaf before or
behind it, and a node nobody needs between two that are kept; a template adds a
second root for `finish`. `callplan`: 11007 programs: all sequences of three of 15 TTL
steps, of 17 RWG steps (loops with one and with two loads among them, and pairs with less
time between them) and of 10 RSP steps, of two of 25 odd steps (unknown
channels, syncs in loops and branches, loops over two boards, a loop at the count
where its overhead changes, black boxes that overlap), and 500 with loops in loops, two
and three deep, with something or nothing in front of, inside and behind the inner one. Three boards of the three
kinds; the loop overheads are those of the target. `VisitBudget` is small so that a
rewinding loop exceeds it. `specialize`: 273 programs from 43 first statements, 17
second blocks and 3 returns, each with four to six sets of entry arguments and two
environments for the slots; the programs that are not `Supported` are among them, so
that every action is taken the way the code takes it; `MaxInt64` is 100 so that overflow happens.

Fairness. `runtime_prior` assumes that the host thread runs and that time passes,
nothing of boards or wire. `cache_publish` assumes that each compiler thread runs; a
crash ends it. `experiment_lifecycle` assumes that the threads of `run()` and of the
executor run and that collaborators return; the user owes nothing. All are what an
operating system gives a runnable thread. Where deadlock checking is off, invocations
have all returned, or a builder is full, and nothing is left to do. In `callplan` and
`specialize` it is on: no walk is ever stuck.

## Proofs

All theorems hold for every set of boards, every image length, any configuration,
loss, noise and earlier program that satisfies the assumptions
`ProgramAssumption` and `EnvironmentAssumption` (boards are listed once, images are
not empty, a stranger is no board), or for every set of invocations under
`CompileAssumption`, or for every scan layout, number of devices and number of runs
under `ExperimentAssumption` (no two nodes set the same parameter), or for every
number of nodes, templates and children of a builder under `ArenaAssumption`, which
types the constants, or for every set of linked programs, boards and bindings under
`TimingAssumption` and `CallPlanAssumption`. `LinkedProgram` says of a program what the
code before the call plan ensures: children, bodies and templates have smaller ids
(`Acyclic`), a composition has children (asserted by the builder), and a loop has a
positive count (`lower_repeat_call`).

* `TypeCorrect`: `Spec => []TypeOK`. `TypeOK` is inductive as it stands.
* `EvidenceInvariant`: `Spec => []EvidenceInv`, the strengthening the others use.
  The properties alone are not inductive. That `fully_observed` is complete needs
  to know that no terminal report precedes the last launch (`ShapeInv`), which
  needs what dispatch has recorded of the boards before, at and after its position
  (`DispatchInv`, `DispatchRecord`); that `not_started` is true needs that every
  launch-bearing frame on the wire is recorded (`LaunchInv`), and the arithmetic of
  frames and sections at both parities (`LaunchSuffix`).
* From it: `OutcomeValid`, `FullyObservedTrue`, `NotStartedTrue`, `FramesInOrder`
  and the action property `EvidenceOnlyRises`.
* `RunImplementsContract`: the run implements `RunContract` under the mapping of
  outcomes to verdicts (`Verdict`): each host action is a contract step or stutters.
* `SuccessTrusted`, `ResultsAllDelivered`, `AddressesCorrelated`, under the hypothesis
  that no board starts in an earlier program (`PriorBoards = {}`; with one the first is
  false, `runtime_stale`). `CleanInv` follows the packets of one board through the socket
  queue. A launched board has taken all its frames and is left alone (`LaunchedInv`);
  queued results continue those applied, and none comes behind a completion
  (`ResultInv`); an address and flags of different faults are separated by another
  exception packet, as long as at most one packet of the board was lost
  (`SeparatedInv`, `WaitingInv`). `SuccessTrustedOfIdleBoards` needs no hypothesis
  and says the same of every board that was idle.
* `CurrentComplete` and `InterferenceIsLocal`, for any assignment of invocations to
  processes: CURRENT names a complete session, and a rename of `publish_session` finds
  its file, unless another thread of the same process has taken it. The temporary
  file of CURRENT is named after the process, and the Python binding releases the
  interpreter lock around its compiler thread, so this does happen: one thread renames
  what the other has truncated, and the other fails with an I/O error after a
  successful check. `PublishInv` says that the file an invocation is going to
  rename is there or was renamed by another thread of its process (`TempThere`), that a
  temporary file was created by a thread of its process and is empty only while one has
  opened and not written it (`TempOwned`), and that a file that is not empty names a
  session whose directory was renamed before (`Named`). `OneCompilationPerProcess` is the case of one invocation per process:
  no exception is left. So docs/adr/0032 ("atomically publishes a replacement cache
  session") holds of the one-shot binary it describes. `MarkersDistinct` says that the
  marks of no file and of an empty file are no invocations.
* `SessionsSnapshots`: every session an invocation writes is the check of one source
  tree, although the files were read one by one while they were saved. `SnapshotInv`
  says that the check so far is right about the tree seen through the loader's memory
  (`View`), and that whatever was asked for is remembered or still missing. The
  hypothesis `NothingAppears` (a module that was missing stays missing) is needed: a
  lookup that found nothing is not remembered, so if a module appears under a longer
  prefix between two lookups the session mixes two trees; TLC finds this as a
  violation of `SessionsAreSnapshots` when the hypothesis is dropped.
* `CompileThread`: `OneCompilation`. `ThreadInv` says who holds
  the future of every unfinished compilation, where an orphan can be, and that the
  file is in place wherever one is.
* `StopObeyed`: `StopInv` says that a point not counted yet has passed its
  checkpoint, so the count is still zero where a checkpoint is ahead.
* `ProgramIsOfPoint`: `ScanInv` relates the loops to the parameters they have set
  (`LoopsInv`), the recorded point to the loops (`PointInv`), and the compilation
  ahead to them (`AheadInv`): the loops, wherever they are between two points, lead
  to the coordinates `_next_scan_point` predicted. A loop that ends, a loop that
  goes on and a loop that is entered each keep the point they lead to.
* `TraversedInOrder` and `OkIsComplete`: the k-th recorded point is the k-th of the scan,
  and a run that ends by itself has recorded all. `OrderInv` says that the recorded
  points ascend in lexicographic order and that no point below one of them is missing;
  `ReachInv` that the recorded points are those the loops have passed, wherever they
  are between two points. Counting follows, since a strictly ascending list without
  gaps is the enumeration.
* `RowsAligned`: `RowsInv` counts the rows of every device at each step of a point.
* `CleanedUp`: `CleanupInv` follows, step by step of the nested `finally` blocks, what has
  been waited for, closed and written, and which error is to be raised.
* `Acyclic`: `ChildrenPrecede` of the arena. `ArenaInv` adds that slices lie inside the
  edges, that instances name published templates, and that a composition in progress
  holds ids of the builder only.
* `BuilderFaithful`: `BuilderDenotes`. `BuilderInv` says that every slice, payload and
  name lies inside its vector (`ArenaInside`) and that `meaning` satisfies the equation
  of every node; `WorkDenotes` that what a composition has collected is the composition of
  the trees asked for so far. Vectors only grow (`ArenaGrows`), so old nodes keep their
  trees (`TreeGrows`); in an acyclic arena the equations have one solution
  (`DenotationIs`, by the smallest id at which two would differ).
* `FinishFaithful` and `FinishErrorsTrue`: `FinishPreserves` and `FinishErrorsJustified`.
  Renumbering is strictly monotone on what is kept (`RemapStrict`), the marked set is
  closed and has nothing without a reason (`ReachableFacts`), and each kept node is
  copied with its slices (`CopyInv`, kept by each node looked at). Hence the copy can be
  read, is ordered, and the trees of the old ids solve its equations; all of `validate`
  passes except for opaque blocks that name no board.

* `LogicalDurationFurthest`: `LogicalDurationIsFurthest`. The timing pass computes the
  frontier of a repeated body with a closed formula, the reference by running a cursor
  through every iteration (`Travel`). Both are forward passes; `NodeAgrees` shows for
  each kind of node that they agree on the logical duration and the furthest point if
  they do on the nodes below, and `ProgramAgrees` carries this over all ids. The
  interesting arm is the loop: a body that ends before it began is furthest in its
  first pass, any other in its last (`LoopTravel`, `LoopAgrees`). `Analysed` says
  that `timing` stays what the pass computed.
* `EveryEpochCovered`: `EpochsCovered`. The walk keeps tasks with the epoch they start
  in, and records an origin when it meets a sync. `EpochInv` says of the stack that
  each sync of the program has been met or will be by a task on the stack
  (`StackOk`): a Serial hands its syncs on to its children in turn (`ChainSyncs`), each
  branch of a Parallel passes all of them (`BranchSyncs`), a loop none. When the stack is
  empty, all have been met. Charging loops and building epochs keep the domain.
* `CallsLaidOut`: what the cursor walk of `compile_board` makes of any schedule. Calls
  and waits follow each other without overlap or gap (`BackToBack`); event k is
  call `at[k]`, in order, not before its offset, and on time unless it is right behind
  the call before (`InOrder`). `Walked` is the invariant of the walk.
* `MasterFiresLast`: for any boards and calls, after `MasterWaits` the master fires when
  every sync call of the epoch listens (`MasterIsLast`), since the frontier is the maximum
  over a finite set of arrivals.

The library's induction rules take a predicate as a parameter, which the provers cannot
instantiate. Where a proof needs an induction over ids, it takes the smallest id at
which the claim fails (`SmallestNumber`, `LeastNumber`) and refutes it. A recursive
function is used only after the proof that it exists (`Recursion`, `PassExists`).

Only model-checked:

* `ReplayIsFresh` and `AgreesWithFresh`, which hold for the trees of `Editable` only
  (see Bounds);
* `TtlLevelsRealised`, `NeverEarly`, `OpaqueExclusive`, `LoopsAccounted`, `PlaysItsLoad`
  and the rest of `Rendezvous`. They speak of what comes out of sorting, selecting and
  folding events (`SortSeq`, `SelectSeq`, `FoldLeft`), about which the provers have no
  facts; `CallsLaidOut` and `MasterFiresLast` are proved for whatever these deliver;
* the properties of the specialiser, whose reference is built of RECURSIVE operators;
* the liveness properties, which are out of the prover's reach.

## Plan

1. Done: the run, its contract and its proofs; the cache and the proofs about
   publication; the experiment, its scans and its proofs.
2. Done: the Morphism arena with its proofs; timing, scheduling and the call plan
   against a reference; the typed frontend against an execution of the source.
3. Done: proofs about the analyses and the walk of `CallPlan`, the layout and the
   rendezvous. Next: facts about stable sorting and selecting, on which the whole of
   `NeverEarly` and `Rendezvous` could rest.
4. Next: the constructors of the runtime handoff, the fields of RTLink frames, the
   in-memory session.

## Not modelled

* `session.rs`: an in-memory map from exact sources to results of the older pipeline;
  `hir.rs` and the older sequence arena it lowers to, which remain for
  compatibility.
* Of the frontend: native records and their methods, compile-time values of module
  names and attributes other than the slots of an instance, erased legacy state,
  powers, shifts and trigonometry, and the lowering of definition references in
  `lower_entry`.
* Of the call plan: evaluation of link values (durations and counts are numbers
  here), PID parameters beyond which operation is called, and the table of measured
  instruction costs (costs of the profile are zero).
* Arithmetic overflow of cycles, which only adds errors to timelines beyond any
  instance.
* Conversions of the Python bindings.

Not planned: wording of diagnostics, HDF5 and panel output, byte layouts beyond the
fields the runtime reads, the external `oasm` assembler.
