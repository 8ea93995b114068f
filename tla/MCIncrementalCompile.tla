------------------------ MODULE MCIncrementalCompile ------------------------
(***************************************************************************)
(* Source trees for TLC.                                                   *)
(***************************************************************************)
EXTENDS IncrementalCompile

Text(tokens, calls, uses) ==
    [tokens |-> tokens, calls |-> calls, uses |-> uses, defines |-> TRUE, broken |-> "no"]
NotParsed(tokens) == [Text(tokens, {}, {}) EXCEPT !.broken = "parse"]
NotLexed(tokens) == [Text(tokens, {}, {}) EXCEPT !.broken = "lex"]

\* The experiment calls lib and an intrinsic of hw; lib and util call each
\* other, and lib reads a global of util.  "exp_alone" has dropped the import,
\* "exp_comment" differs from "exp" in a comment only.
MCContent ==
    [exp |-> Text("exp", {<<"lib">>, <<"hw">>}, {}),
     exp_comment |-> Text("exp", {<<"lib">>, <<"hw">>}, {}),
     exp_alone |-> Text("exp_alone", {<<"hw">>}, {}),
     exp_lex |-> NotLexed("exp_lex"),
     lib |-> Text("lib", {<<"util">>}, {<<"util">>}),
     lib_parse |-> NotParsed("lib_parse"),
     util |-> Text("util", {<<"lib">>}, {}),
     util_new |-> Text("util_new", {}, {}),
     const |-> [Text("const", {}, {}) EXCEPT !.defines = FALSE],
     const_new |-> [Text("const_new", {}, {}) EXCEPT !.defines = FALSE],
     exp_const |-> Text("exp_const", {}, {<<"const">>})]
MCVersions == DOMAIN MCContent
MCIntrinsics == {<<"hw">>}

MCModules == {"exp", "lib", "util", "hw", "const"}

\* A source tree, or the texts a save may leave, with nothing elsewhere.
Tree(given) == [m \in MCModules |-> IF m \in DOMAIN given THEN given[m] ELSE "missing"]
Saves(given) == [m \in MCModules |-> IF m \in DOMAIN given THEN given[m] ELSE {}]

\* Three invocations, two of them of the experiment.  Two are threads of one
\* process (the binding releases the interpreter lock around a compilation).
MCInvocations == {"c1", "c2", "c3"}
MCPids == {"p1", "p2"}
MCPidOf == [c1 |-> "p1", c2 |-> "p1", c3 |-> "p2"]
MCEntryOf == [c1 |-> "exp", c2 |-> "exp", c3 |-> "lib"]
MCFiles == Tree([exp |-> "exp", lib |-> "lib", util |-> "util"])
MCEditable ==
    Saves([exp |-> {"exp_comment", "exp_alone", "exp_lex"}, lib |-> {"lib_parse", "missing"},
           util |-> {"util_new"}])

\* Two invocations of the experiment, in two processes.
TwoEntryOf == [c \in {"c1", "c2"} |-> "exp"]
TwoPidOf == [c1 |-> "p1", c2 |-> "p2"]

\* The experiment reads a global of a module that defines no sequence.
ConstFiles == Tree([exp |-> "exp_const", const |-> "const"])
ConstEditable == Saves([const |-> {"const_new"}])
=============================================================================
