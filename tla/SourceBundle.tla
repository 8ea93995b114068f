---------------------------- MODULE SourceBundle ----------------------------
(***************************************************************************)
(* What a source bundle means: which modules a typed check of one entry    *)
(* reads and what it reports (check_typed_bundle_entry_with_loader_and_    *)
(* opaque_definitions in rust/catseq-frontend/src/typed.rs, with           *)
(* typed/resolution.rs and typed/compile_attributes.rs).                   *)
(*                                                                         *)
(* A module's text is a version.  Content gives what the check sees of it: *)
(* its tokens (comments are not tokens), whether it defines the sequence   *)
(* others call, the references of that definition to called definitions    *)
(* (calls) and to compile-time globals (uses), and whether it fails to     *)
(* lex or to parse.  One definition per module stands for all of them.     *)
(*                                                                         *)
(* A reference is the sequence of modules its dotted path may name, the    *)
(* longest prefix first.                                                   *)
(***************************************************************************)
EXTENDS Integers, Sequences, FiniteSets, FiniteSetsExt

CONSTANTS
    Modules,
    Versions,      \* texts a module may have
    Content,       \* Content[v]: what the compiler sees of text v
    Missing,       \* no such file below the source root
    Intrinsics     \* references the intrinsic registry answers

NoModule == "no module"

ASSUME BundleAssumption ==
    /\ IsFiniteSet(Modules)
    /\ Missing \notin Versions /\ NoModule \notin Modules
    /\ \A v \in Versions :
          /\ Content[v].broken \in {"no", "parse", "lex"} /\ Content[v].defines \in BOOLEAN
          /\ Content[v].calls \cup Content[v].uses \subseteq Seq(Modules)
          /\ Content[v].broken # "no" => Content[v].calls \cup Content[v].uses = {}

\* parse_module fails.
Broken(view, m) == Content[view[m]].broken # "no"

\* locate_source_definition: the longest prefix that is a module.
Locate(view, ref) ==
    LET found == {i \in DOMAIN ref : view[ref[i]] # Missing}
    IN  IF found = {} THEN NoModule ELSE ref[Min(found)]

Located(view, refs) == {Locate(view, r) : r \in refs} \ {NoModule}

\* definition_exists in the module a reference was located in.
Provided(view, ref) ==
    LET m == Locate(view, ref) IN m # NoModule /\ Content[view[m]].defines

CallsOf(view, mods) == UNION {Content[view[m]].calls : m \in mods}
UsesOf(view, mods) == UNION {Content[view[m]].uses : m \in mods}
TokensOf(view, mods) == [m \in mods |-> Content[view[m]].tokens]

\* A call that is neither a source definition nor an intrinsic is a
\* ReachableHostCall error.
HostCall(view, m) ==
    \E r \in Content[view[m]].calls : ~Provided(view, r) /\ r \notin Intrinsics

\* The definitions that the calls of m's definition name.
Called(view, m) == {Locate(view, r) : r \in {x \in Content[view[m]].calls : Provided(view, x)}}

Failed == [ok |-> FALSE]
Report(view, defs, values) ==
    [ok |-> TRUE, bodies |-> TokensOf(view, defs), values |-> TokensOf(view, values)]

-----------------------------------------------------------------------------
(* The reference: the check of a view that nobody edits. *)

\* The definitions reachable from the entry: the smallest set with the entry
\* that its calls do not leave.
Reachable(view, entry) ==
    LET present == {m \in Modules : view[m] # Missing}
        closed == {defs \in SUBSET present :
                      entry \in defs /\ \A m \in defs : Called(view, m) \subseteq defs}
    IN  {m \in present : \A defs \in closed : m \in defs}

FreshCheck(view, entry) ==
    IF view[entry] = Missing THEN Failed
    ELSE LET defs == Reachable(view, entry)
             values == Located(view, UsesOf(view, defs))
             touched == defs \cup values \cup Located(view, CallsOf(view, defs))
         IN  IF /\ Content[view[entry]].defines
                /\ \A m \in touched : ~Broken(view, m)
                /\ \A m \in defs : ~HostCall(view, m)
             THEN Report(view, defs, values)
             ELSE Failed
=============================================================================
