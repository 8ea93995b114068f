---------------------------- MODULE SourceFragment ----------------------------
(***************************************************************************)
(* The part of the source language that specialisation treats as Python    *)
(* does, and the properties of specialisation over it.  What is left out   *)
(* is what the lowerer is known to drop, to refuse or to read in another   *)
(* order; the README lists what it does with each.                         *)
(***************************************************************************)
EXTENDS SourceSemantics

Subtree(nodes, i) == i - nodes[i].size + 1 .. i
KidsOf(nodes, i) == Range(nodes[i].kids)
IsCallOf(n, names) == n.kind = "Call" /\ n.targets = <<>> /\ n.resolved \in names
Morphisms == {"Morphism", "MorphismTemplate"}

-----------------------------------------------------------------------------
(* Link-time values.                                                       *)

\* The nodes whose value may be known at link time only, when the given names
\* are: a Morphism is always built, whatever it is made of.
LateNodes(hir, names) ==
  LET Late(st, i) ==
        LET n == hir.nodes[i]
        IN  /\ hir.facts[i].type \notin Morphisms
            /\ \/ hir.facts[i].avail = "Link"
               \/ n.kind = "Name" /\ n.sym \in st.names
               \/ n.kind = "Call" /\ n.targets # <<>>
               \/ \E k \in KidsOf(hir.nodes, i) : k \in st.late
      Visit(st, i) ==
        IF ~Late(st, i) THEN st
        ELSE [late  |-> st.late \cup {i},
              names |-> IF hir.nodes[i].kind = "Assignment"
                        THEN st.names \cup TargetNames(hir.nodes, hir.nodes[i].kids[1])
                        ELSE st.names]
  IN  FoldLeft(Visit, [late |-> {}, names |-> names], [i \in DOMAIN hir.nodes |-> i]).late

\* The parameters that get such a value from some caller.
PassedLate(late, d) ==
  {p.name : p \in {q \in Range(Definitions[d].params) :
     \E caller \in DOMAIN hirs : \E i \in DOMAIN hirs[caller].nodes :
       LET n == hirs[caller].nodes[i]
           at == CHOOSE k \in DOMAIN BindableParameters(Definitions[d]) :
                   BindableParameters(Definitions[d])[k] = q
       IN  /\ q.type # "Instance"
           /\ n.kind = "Call" /\ \E t \in Range(n.targets) : t.def = d
           /\ CallArgumentNode(n, at, q.name) \in LateNodes(hirs[caller], late[caller])}}

RECURSIVE LateParameters(_)
LateParameters(rounds) ==
  IF rounds = 0 THEN [d \in DOMAIN hirs |-> {}]
  ELSE LET late == LateParameters(rounds - 1)
       IN  [d \in DOMAIN hirs |-> late[d] \cup PassedLate(late, d)]

\* No definition is entered twice, so a value passes each of them once.
LateIn == LET late == LateParameters(Cardinality(DOMAIN hirs))
          IN  [d \in DOMAIN hirs |-> LateNodes(hirs[d], late[d])]

HasLateKid(hir, late, i) == \E k \in KidsOf(hir.nodes, i) : k \in late

-----------------------------------------------------------------------------
(* Branches.                                                               *)

NodesOf(tree) == Range(Traverse(<<tree>>, 0))
NamesRead(statement) ==
  {n.sym : n \in {m \in NodesOf(statement.kids[Len(statement.kids)]) : m.kind = "Name"}}
Assigns(statement, name) ==
  statement.kind = "Assignment" /\ statement.kids[1].sym = name
AssignsWithin(statement, name) ==
  \E n \in NodesOf(statement) :
    n.kind = "Assignment" /\ name \in TargetNames(Traverse(<<statement>>, 0), n.kids[1])

\* What is known of a parameter of a definition, given the arguments it is
\* known to get.
IsParameter(def, name) == \E p \in Range(def.params) : p.name = name
MayBeNone(def, known, name) ==
  IsParameter(def, name) /\ ~(name \in DOMAIN known /\ known[name].t # "null")
MayHaveValue(def, known, name) ==
  IsParameter(def, name) /\ ~(name \in DOMAIN known /\ known[name].t = "null")

\* A parameter that may be None keeps its value where an arm that assigns it is
\* not taken: the arms both assign it, or it was assigned before, or the branch
\* is the one that replaces None.
Settled(name, before, branch, other, def, known) ==
  \/ ~MayBeNone(def, known, name)
  \/ \E k \in DOMAIN before : Assigns(before[k], name)
  \/ \E k \in DOMAIN other : Assigns(other[k], name)
  \/ /\ branch.kids[1].kind = "Compare" /\ branch.kids[1].ops = <<"Is">>
     /\ branch.kids[1].kids[1].sym = name

\* The name has a value of its own when the branch is reached.
MayBeBound(name, before, def, known) ==
  \/ \E k \in DOMAIN before : AssignsWithin(before[k], name)
  \/ MayHaveValue(def, known, name)

\* An arm that assigns a name which has a value already does not read it again.
ArmSupported(arm, other, before, branch, def, known) ==
  \A j \in DOMAIN arm :
    /\ arm[j].kind \in {"Assignment", "Expression"}
    /\ arm[j].kind = "Assignment" =>
         /\ Settled(arm[j].kids[1].sym, before, branch, other, def, known)
         /\ MayBeBound(arm[j].kids[1].sym, before, def, known) =>
              \A i \in j + 1 .. Len(arm) : arm[j].kids[1].sym \notin NamesRead(arm[i])

BranchSupported(branch, before, def, known) ==
  LET body   == SubSeq(branch.kids, 2, 1 + branch.body)
      orelse == SubSeq(branch.kids, 2 + branch.body, 1 + branch.body + branch.orelse)
  IN  /\ ArmSupported(body, orelse, before, branch, def, known)
      /\ ArmSupported(orelse, body, before, branch, def, known)

\* Straight-line definitions with branches that are not nested: no loop, one
\* return at the end.
StatementsSupported(def, known) ==
  /\ def.body[Len(def.body)].kind = "Return"
  /\ \A k \in 1 .. Len(def.body) - 1 :
       /\ def.body[k].kind \in {"Assignment", "Expression", "If"}
       /\ def.body[k].kind = "If" =>
            BranchSupported(def.body[k], SubSeq(def.body, 1, k - 1), def, known)

-----------------------------------------------------------------------------
(* Comprehensions.                                                         *)

\* What is evaluated for every item: the element and the filters.
ItemNodes(nodes, i) ==
  UNION {Subtree(nodes, nodes[i].kids[k]) : k \in DOMAIN nodes[i].kids \ {2, 3}}

\* What is computed again for every item.
ItemOperation(n) ==
  \/ n.kind \in {"Name", "Constant", "Aggregate", "Subscript", "Compare", "ConditionalExpression"}
  \/ ValueOperation(n)
  \/ IsCallOf(n, BuiltIns \ {"cycles"})

Reads(nodes, i, names) ==
  \E j \in Subtree(nodes, i) : nodes[j].kind = "Name" /\ nodes[j].sym \in names

OverObjects(nodes, i, def) ==
  LET iterable == nodes[nodes[i].kids[3]]
  IN  iterable.kind = "Attribute" /\ iterable.sym \in DOMAIN def.objects

\* The variables have names of their own.  Over values, they are only used by
\* what is computed for every item; over instances, the element is a method of
\* the variable and there is no filter.
ComprehensionSupported(nodes, i, def) ==
  LET element == nodes[nodes[i].kids[1]]
      targets == TargetNames(nodes, nodes[i].kids[2])
      items   == ItemNodes(nodes, i)
      used    == {j \in items : Reads(nodes, j, targets)}
      assigned == UNION {TargetNames(nodes, nodes[j].kids[1]) :
                           j \in {k \in DOMAIN nodes : nodes[k].kind = "Assignment"}}
  IN  /\ \A j \in items : nodes[j].kind # "Comprehension"
      /\ \A name \in targets : name \notin DurationUnits \cup assigned /\ ~IsParameter(def, name)
      /\ IF OverObjects(nodes, i, def)
         THEN /\ Len(nodes[i].kids) = 3
              /\ element.kind = "Call" /\ element.receiver \in targets
              /\ used = {nodes[i].kids[1], element.kids[1]} \cup KidsOf(nodes, element.kids[1])
         ELSE \A j \in used : ItemOperation(nodes[j])

-----------------------------------------------------------------------------
(* Expressions.                                                            *)

InItems(nodes, i) ==
  \E c \in DOMAIN nodes : nodes[c].kind = "Comprehension" /\ i \in ItemNodes(nodes, c)
InLambda(nodes, i) ==
  \E l \in DOMAIN nodes : nodes[l].kind = "Lambda" /\ i \in Subtree(nodes, l)

\* scan[<param>], or an element computed for every item.
SubscriptSupported(hir, i) ==
  \/ hir.facts[i].avail = "Link" /\ hir.facts[i].type \in ScalarTypes
  \/ InItems(hir.nodes, i)

\* No and/or.  A composition has a static type.  A divisor that could be
\* negative does not divide whole numbers.
BinarySupported(hir, i) ==
  LET n == hir.nodes[i]
      divisor == hir.nodes[n.kids[2]]
  IN  /\ n.ops[1] \notin BooleanOperations
      /\ MorphismComposition(n) => hir.facts[i].type \in Morphisms \/ InLambda(hir.nodes, i)
      /\ n.ops[1] \in {"FloorDivide", "Modulo"} =>
           divisor.kind = "Constant" \/ IsCallOf(divisor, {"len"})

\* How many arguments a registered operation takes, where one that is left out
\* or added means something else.
ArgumentCount(name) ==
  CASE name \in {"cycles", "len", "sum", "round", "ones_like", "identity", "dict_to_morphism"} -> {1}
    [] name \in {"reduce", "repeat_morphism"} -> {2}
    [] OTHER -> 0 .. 5

\* Arguments by position, a list operation of known values, and a reduce that
\* is parallel.
CallSupported(hir, late, i) ==
  LET n == hir.nodes[i]
  IN  n.targets = <<>> /\ ReturnType(n.resolved) # "none" =>
        /\ n.resolved # "black_box" => n.keys = <<>>
        /\ Len(n.kids) - 1 \in ArgumentCount(n.resolved)
        /\ n.resolved \in BuiltIns \ {"cycles", "round"} => ~HasLateKid(hir, late, i)
        /\ n.resolved = "reduce" =>
             /\ hir.nodes[n.kids[2]].kind = "Lambda"
             /\ hir.nodes[hir.nodes[n.kids[2]].kids[1]].ops = <<"Parallel">>

\* Channels that differ, or the text keys of what black_box is given.
DictionarySupported(hir, i) ==
  LET kids == hir.nodes[i].kids
      half == Len(kids) \div 2
      Key(k) == hir.nodes[kids[k]]
  IN  \/ i \in PayloadDictionaries(hir) \cup DeferredDictionaries(hir)
      \/ \A j, k \in 1 .. half : Key(k).kind = "Name" /\ (j # k => Key(j).sym # Key(k).sym)

\* A lambda is the function of a reduce; a list of instances is iterated over.
UsedInPlace(hir, i, def) ==
  LET n == hir.nodes[i]
  IN  /\ n.kind = "Lambda" =>
           \E c \in DOMAIN hir.nodes : IsCallOf(hir.nodes[c], {"reduce"}) /\ hir.nodes[c].kids[2] = i
      /\ n.kind = "Attribute" /\ n.sym \in DOMAIN def.objects =>
           \E c \in DOMAIN hir.nodes : hir.nodes[c].kind = "Comprehension" /\ hir.nodes[c].kids[3] = i

NodeSupported(hir, late, i, def) ==
  LET n == hir.nodes[i]
  IN  /\ UsedInPlace(hir, i, def)
      /\ n.kind \in {"Aggregate", "Dictionary", "Comprehension"} => ~HasLateKid(hir, late, i)
      /\ ValueOperation(n) /\ HasLateKid(hir, late, i) => hir.facts[i].type \in ScalarTypes
      /\ CASE n.kind = "Assignment" ->
                n.ops = <<"Assign">> /\ Len(n.kids) = 2 /\ hir.nodes[n.kids[1]].kind = "Name"
           [] n.kind = "ConditionalExpression" -> hir.nodes[n.kids[1]].kind = "Compare"
           [] n.kind = "Subscript" -> SubscriptSupported(hir, i)
           [] n.kind = "Binary" -> BinarySupported(hir, i)
           [] n.kind = "Dictionary" -> DictionarySupported(hir, i)
           [] n.kind = "Comprehension" -> ComprehensionSupported(hir.nodes, i, def)
           [] n.kind = "Call" -> CallSupported(hir, late, i)
           [] OTHER -> TRUE

\* The arguments a definition is known to get: those of the entry.
KnownArguments(d) ==
  LET params == BindableParameters(Definitions[d])
  IN  IF d = Entry /\ EntryAccepted(params)
      THEN BindParameters(Definitions[d], EntryArguments(params)) ELSE <<>>

Supported ==
  LET late == LateIn
  IN  \A d \in DOMAIN hirs :
        /\ StatementsSupported(Definitions[d], KnownArguments(d))
        /\ \A i \in DOMAIN hirs[d].nodes : NodeSupported(hirs[d], late[d], i, Definitions[d])

-----------------------------------------------------------------------------
(* Programs that need no more than the rules of the types.                 *)

\* Every argument and every result has the declared type.
TypesAgree ==
  \A d \in DOMAIN hirs :
    /\ ~ArgumentMismatch(hirs[d], Definitions)
    /\ Definitions[d].returns # "infer" => ~ReturnMismatch(hirs[d], Definitions[d].returns)

\* The static type of a name is that of every value it can have.
NamesTyped(hir) ==
  \A i, j \in DOMAIN hir.nodes :
    LET a == hir.nodes[i]
        b == hir.nodes[j]
    IN  a.kind = "Assignment" /\ b.kind = "Assignment"
          /\ hir.nodes[a.kids[1]].sym = hir.nodes[b.kids[1]].sym =>
          hir.facts[i].type = hir.facts[j].type

\* A duration that is a constant of an expression is a whole number of cycles.
WholeOperand(hir, late, k) ==
  \/ k \in late
  \/ hir.facts[k].type # "Duration"
  \/ hir.facts[k].resolved \in {u \in DurationUnits : CyclesPer[u][2] = 1}

\* What may be done with a link-time value: it is stored, passed on, computed
\* with, and gives a length; it takes no part in a choice or a count.
LinkUsePlain(hir, late, i) ==
  LET n == hir.nodes[i]
      OneType == hir.facts[n.kids[2]].type = hir.facts[n.kids[3]].type
  IN  \/ n.kind \in {"Assignment", "Return", "Expression"}
      \/ n.kind = "Call" /\ n.targets # <<>>
      \/ n.kind = "If" /\ n.kids[1] \notin late
      \/ n.kind = "ConditionalExpression" /\ n.kids[1] \notin late /\ OneType
      \/ /\ ValueOperation(n) /\ n.ops[1] \notin {"LogicalNot", "FloorDivide"}
         /\ \A k \in KidsOf(hir.nodes, i) :
              WholeOperand(hir, late, k) /\ ~(hir.nodes[k].kind = "Call" /\ hir.nodes[k].targets # <<>>)
      \/ IsCallOf(n, {"cycles", "round", "identity", "hold", "pulse", "rf_pulse", "linear_ramp"})

\* The condition of an `if' reads parameters, fields and constants.
ConditionPlain(nodes, facts, i) ==
  nodes[i].kind = "If" =>
    \A j \in Subtree(nodes, nodes[i].kids[1]) :
      nodes[j].kind # "Call" /\ facts[j].node = 0

\* sum is typed as a number whatever it adds.
LinkUsesPlain ==
  LET late == LateIn
  IN  \A d \in DOMAIN hirs :
        LET hir == hirs[d]
            nodes == hir.nodes
        IN  /\ NamesTyped(hir)
            /\ \A i \in DOMAIN nodes :
                 /\ ConditionPlain(nodes, hir.facts, i)
                 /\ HasLateKid(hir, late[d], i) =>
                      /\ LinkUsePlain(hir, late[d], i)
                      /\ ValueOperation(nodes[i]) =>
                           \A j \in DOMAIN nodes : ~IsCallOf(nodes[j], {"sum"})

\* Where a template is invoked directly, template(channel), no template has a
\* slot among its operands: the check takes the whole callee for structural.
InvokesKnownTemplates ==
  \A d \in DOMAIN hirs :
    LET hir == hirs[d]
        invokes == \E i \in DOMAIN hir.nodes :
                     hir.nodes[i].kind = "Call" /\ hir.facts[hir.nodes[i].kids[1]].type = "MorphismTemplate"
    IN  invokes =>
          \A i \in DOMAIN hir.nodes :
            hir.nodes[i].kind = "Call" /\ hir.facts[i].type = "MorphismTemplate" =>
              \A j \in Subtree(hir.nodes, i) : hir.facts[j].avail # "Link"

-----------------------------------------------------------------------------
(* Properties.                                                             *)

SameMeaning ==
  \A slots \in Environments :
    LET meant == Meaning(slots, FALSE)
    IN  meant.t = "morphism" => MorphismMeaning(result, "", slots) = meant.m

\* A program that is specialised means what executing its source statement by
\* statement means, for every value the link-time slots can get: names are
\* resolved, calls inlined, branches selected, comprehensions unrolled and
\* templates shared without changing an operation, a duration, a channel or the
\* order of anything.  Of a program that Python itself would stop in, it says
\* nothing.
SpecializesAsSource == phase = "done" /\ Supported => SameMeaning

\* A program in which link-time values are only stored, passed and computed
\* with is refused only for a reason: executing it, arms that are not taken
\* included, fails or gives no Morphism.
JustifiedRejection ==
  phase = "failed" /\ Supported /\ TypesAgree /\ LinkUsesPlain /\ InvokesKnownTemplates =>
    \E slots \in Environments : Meaning(slots, TRUE).t # "morphism"

\* A template plan is published at most once however often and on however many
\* channels it is bound, and a published template is the body of its plan.
TemplatesShared ==
  /\ Len(arena.templates) = Cardinality(DOMAIN arena.published)
  /\ \A i, j \in DOMAIN arena.published :
       arena.published[i] = arena.published[j] => i = j
  /\ \A i \in DOMAIN arena.published :
       arena.templates[arena.published[i]] = PlanBody(arena.plans, i)

\* Only the selected arm of an `if' takes part in the program, nested ones
\* included.
SelectedArmOnly == phase = "done" => SameMeaning

=============================================================================
