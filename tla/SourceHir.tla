------------------------------ MODULE SourceHir ------------------------------
(***************************************************************************)
(* The typed Source HIR of a definition                                    *)
(* (rust/catseq-frontend/src/source_hir.rs) and the checks the typed       *)
(* report makes of it (typed.rs, typed/definition_analysis.rs).            *)
(*                                                                         *)
(* A syntax tree is a record                                               *)
(*   [kind, sym, ops, lit, body, orelse, pos, keys, resolved, targets,     *)
(*    kids, size]                                                          *)
(* whose kids are trees; a node of the HIR is the same record whose kids   *)
(* are the ids of nodes.  `resolved' and `targets' of a call, and          *)
(* `resolved' of a name that stands for a function, are what name          *)
(* resolution and the reachability search find for it (external to this    *)
(* module).  A type is a string, "none" where the code has no type.        *)
(*                                                                         *)
(* A definition is [params, returns, body, fields, owner]; a parameter is  *)
(* [name, type, default]; `returns' is "infer" without an annotation;      *)
(* `fields' maps a field of the class to [type, value], whose value is     *)
(* absent when the field is only known at link time.                       *)
(***************************************************************************)
EXTENDS Integers, Sequences, SequencesExt, FiniteSets

NoValue == [t |-> "none"]

ValueOperations ==
  {"Add", "Subtract", "Multiply", "Divide", "FloorDivide", "Modulo", "Negate",
   "Positive", "LogicalNot"}
Compositions == {"AutoSerial", "StrictSerial", "Parallel"}
BooleanOperations == {"And", "Or"}

\* value_operation() and morphism_composition() of a node.
ValueOperation(n) == n.kind \in {"Binary", "Unary"} /\ n.ops[1] \in ValueOperations
MorphismComposition(n) == n.kind = "Binary" /\ n.ops[1] \in Compositions

-----------------------------------------------------------------------------
(* The traversal.                                                          *)

SizeOf(trees) == FoldLeft(LAMBDA total, tree : total + tree.size, 0, trees)

\* The ids of sibling trees when the first node they hold gets id base + 1: a
\* node is pushed when the traversal leaves it, behind everything below it.
ExitIds(trees, base) ==
  [k \in DOMAIN trees |-> base + SizeOf(SubSeq(trees, 1, k))]

\* The nodes of a forest in the order in which Enter / Exit pushes them.
RECURSIVE Traverse(_, _)
Traverse(trees, base) ==
  IF trees = <<>> THEN <<>>
  ELSE LET tree == Head(trees)
       IN  Append(Traverse(tree.kids, base), [tree EXCEPT !.kids = ExitIds(@, base)])
             \o Traverse(Tail(trees), base + tree.size)

\* The names a target binds.
RECURSIVE TargetNames(_, _)
TargetNames(nodes, id) ==
  CASE nodes[id].kind = "Name" -> {nodes[id].sym}
    [] nodes[id].kind = "Aggregate" ->
         UNION {TargetNames(nodes, nodes[id].kids[k]) : k \in DOMAIN nodes[id].kids}
    [] OTHER -> {}

FunctionLocalNames(nodes) ==
  UNION {LET n == nodes[i] IN
         CASE n.kind = "Assignment" ->
                UNION {TargetNames(nodes, n.kids[k]) : k \in 1 .. Len(n.kids) - 1}
           [] n.kind = "Loop" -> TargetNames(nodes, n.kids[1])
           [] n.kind = "Comprehension" -> TargetNames(nodes, n.kids[2])
           [] OTHER -> {} : i \in DOMAIN nodes}

-----------------------------------------------------------------------------
(* Types and availability.                                                 *)

OptionalOf(type) == "Optional[" \o type \o "]"
ScanParamOf(type) == "ScanParam[" \o type \o "]"
ScalarTypes == {"Bool", "Int64", "Float64", "Duration", "String"}

IsNumericScalar(type) == type \in {"Int64", "Float64"}

ScalarBinaryType(operation, left, right) ==
  CASE operation \in {"Add", "Subtract"} /\ left = "Duration" /\ right = "Duration" ->
         "Duration"
    [] operation = "Multiply"
         /\ \/ left = "Duration" /\ IsNumericScalar(right)
            \/ right = "Duration" /\ IsNumericScalar(left) -> "Duration"
    [] operation = "Divide" /\ left = "Duration" /\ IsNumericScalar(right) -> "Duration"
    [] operation = "Divide" /\ left = "Duration" /\ right = "Duration" -> "Float64"
    [] OTHER ->
         IF "Duration" \in {left, right} THEN "none"
         ELSE IF "Float64" \in {left, right} THEN "Float64"
         ELSE IF {left, right} = {"Int64"} THEN "Int64" ELSE "none"

\* The type a binary operator is given while the HIR is built.
BinaryType(operation, left, right) ==
  CASE operation \in {"AutoSerial", "Parallel"} ->
         IF {left, right} = {"MorphismTemplate"} THEN "MorphismTemplate" ELSE "Morphism"
    [] operation \in ValueOperations -> ScalarBinaryType(operation, left, right)
    [] OTHER -> "none"

\* intrinsics::return_type of a registered operation.
ReturnType(path) ==
  CASE path \in {"identity", "dict_to_morphism", "repeat_morphism", "reduce", "black_box"} ->
         "Morphism"
    [] path \in {"hold", "pulse", "set_state", "set_high", "set_low", "rf_on", "rf_off",
                 "rf_pulse", "linear_ramp", "global_sync"} -> "MorphismTemplate"
    [] path = "sum" -> "Float64"
    [] path \in {"len", "round"} -> "Int64"
    [] path = "cycles" -> "Duration"
    [] path \in {"range", "enumerate", "zip", "tuple", "ones_like"} -> "FixedAggregate"
    [] OTHER -> "none"

DurationUnits == {"s", "ms", "us", "ns"}

LiteralType(lit) ==
  CASE lit.t = "null" -> "Unit" [] lit.t = "bool" -> "Bool" [] lit.t = "int" -> "Int64"
    [] lit.t = "float" -> "Float64" [] OTHER -> "String"

KidType(kidFacts, k) == IF k \in DOMAIN kidFacts THEN kidFacts[k].type ELSE "none"

\* The latest availability of the children.
Joined(kidFacts) ==
  IF \E k \in DOMAIN kidFacts : kidFacts[k].avail = "Link" THEN "Link" ELSE "Compile"

Fact(type, avail) ==
  [type |-> type, avail |-> avail, node |-> 0, resolved |-> "", targets |-> <<>>,
   value |-> NoValue]

NameFact(n, locals, params, shadowed) ==
  LET bound == n.sym \in DOMAIN locals
      unit  == n.sym \in DurationUnits \ shadowed
      type  == CASE bound /\ locals[n.sym].type # "none" -> locals[n.sym].type
                 [] n.sym \in DOMAIN params -> params[n.sym]
                 [] unit -> "Duration"
                 [] OTHER -> "none"
  IN  [Fact(type, IF bound THEN locals[n.sym].avail ELSE "Compile")
         EXCEPT !.node = IF bound THEN locals[n.sym].node ELSE 0,
                !.resolved = IF unit THEN n.sym ELSE ""]

\* self.<field>: a field the class declares and gives no value is a link value.
AttributeFact(n, fields) ==
  IF n.sym \in DOMAIN fields
  THEN [Fact(fields[n.sym].type,
             IF fields[n.sym].value.t = "none" THEN "Link" ELSE "Compile")
          EXCEPT !.value = fields[n.sym].value]
  ELSE Fact("none", "Compile")

\* scan[<param>]: the value of a scanned parameter is a link value.
SubscriptFact(kidFacts) ==
  IF KidType(kidFacts, 1) = "ScanBindings"
  THEN Fact(CHOOSE t \in ScalarTypes :
              \/ KidType(kidFacts, 2) = ScanParamOf(t)
              \/ t = "Float64" /\ \A u \in ScalarTypes : KidType(kidFacts, 2) # ScanParamOf(u),
            "Link")
  ELSE Fact("none", Joined(kidFacts))

CallFact(n, kidFacts) ==
  LET type == ReturnType(n.sym)
  IN  Fact(type, IF type \in {"Morphism", "MorphismTemplate"} THEN "Compile"
                 ELSE Joined(kidFacts))

\* What is recorded about an expression when the traversal leaves it.
ExpressionFact(n, kidFacts, locals, params, shadowed, fields) ==
  CASE n.kind = "Name" -> NameFact(n, locals, params, shadowed)
    [] n.kind = "Constant" -> Fact(LiteralType(n.lit), "Compile")
    [] n.kind = "Attribute" -> AttributeFact(n, fields)
    [] n.kind = "Subscript" -> SubscriptFact(kidFacts)
    [] n.kind = "Binary" /\ n.ops[1] \in BooleanOperations -> Fact("Bool", Joined(kidFacts))
    [] n.kind = "Binary" ->
         Fact(BinaryType(n.ops[1], KidType(kidFacts, 1), KidType(kidFacts, 2)),
              Joined(kidFacts))
    [] n.kind = "Unary" -> Fact(KidType(kidFacts, 1), Joined(kidFacts))
    [] n.kind = "Compare" -> Fact("Bool", Joined(kidFacts))
    [] n.kind = "ConditionalExpression" -> Fact(KidType(kidFacts, 2), Joined(kidFacts))
    [] n.kind = "Dictionary" -> Fact("ChannelBindings", Joined(kidFacts))
    [] n.kind \in {"Aggregate", "Comprehension"} -> Fact("FixedAggregate", Joined(kidFacts))
    [] n.kind = "Lambda" -> Fact("Lambda", "Compile")
    [] n.kind = "Call" -> CallFact(n, kidFacts)

Statements == {"Assignment", "Return", "Expression", "If", "Loop"}

StatementFact(n, kidFacts) ==
  Fact(IF n.kind = "Return" THEN KidType(kidFacts, 1) ELSE "Unit", Joined(kidFacts))

\* An assignment makes its value what later reads of the name refer to, in the
\* order of the text.  An augmented assignment does not.
BindLocal(n, nodes, facts, locals) ==
  IF n.kind = "Assignment" /\ n.ops[1] # "AugAssign" /\ nodes[n.kids[1]].kind = "Name"
  THEN LET value == n.kids[Len(n.kids)]
       IN  (nodes[n.kids[1]].sym
              :> [node |-> value, type |-> facts[value].type, avail |-> facts[value].avail])
             @@ locals
  ELSE locals

\* lower_definition_hir: the facts of all nodes, in the order they are pushed.
DefinitionFacts(def, nodes) ==
  LET params == [x \in {p.name : p \in Range(def.params)} |->
                   (CHOOSE p \in Range(def.params) : p.name = x).type]
      shadowed == FunctionLocalNames(nodes) \cup DOMAIN params
      Exit(st, n) ==
        LET kidFacts == [k \in DOMAIN n.kids |-> st.facts[n.kids[k]]]
            fact == IF n.kind \in Statements THEN StatementFact(n, kidFacts)
                    ELSE ExpressionFact(n, kidFacts, st.locals, params, shadowed, def.fields)
        IN  [facts |-> Append(st.facts, fact),
             locals |-> BindLocal(n, nodes, st.facts, st.locals)]
  IN  FoldLeft(Exit, [facts |-> <<>>, locals |-> <<>>], nodes).facts

LowerDefinitionHir(def) ==
  LET nodes == Traverse(def.body, 0)
  IN  [nodes |-> nodes, roots |-> ExitIds(def.body, 0), facts |-> DefinitionFacts(def, nodes)]

-----------------------------------------------------------------------------
(* The checks.                                                             *)

\* Mutant: the arguments of a call are structural as well.
StructuralWithArguments(hir) ==
  LET seeds == UNION {Range(hir.nodes[i].kids) :
                      i \in {j \in DOMAIN hir.nodes : hir.nodes[j].kind \in {"Call", "If"}}}
      Spread(roles, i) ==
        IF i \in roles
        THEN roles \cup Range(hir.nodes[i].kids) \cup ({hir.facts[i].node} \ {0})
        ELSE roles
  IN  FoldLeft(Spread, seeds, Reverse([i \in DOMAIN hir.nodes |-> i]))

\* The nodes whose value decides the shape of the program: callees, channels
\* of a dictionary and the first child of a control statement, with all they
\* are computed from.  Ids only refer to smaller ids.
StructuralNodes(hir) ==
  LET seeds == UNION {LET n == hir.nodes[i] IN
                      CASE n.kind = "Call" -> {n.kids[1]}
                        [] n.kind = "Dictionary" ->
                             {n.kids[k] : k \in 1 .. Len(n.kids) \div 2}
                        [] n.kind \in {"If", "Loop"} -> {n.kids[1]}
                        [] OTHER -> {} : i \in DOMAIN hir.nodes}
      Spread(roles, i) ==
        IF i \in roles
        THEN roles \cup Range(hir.nodes[i].kids) \cup ({hir.facts[i].node} \ {0})
        ELSE roles
  IN  FoldLeft(Spread, seeds, Reverse([i \in DOMAIN hir.nodes |-> i]))

\* first_link_structural_use
LinkControlled(hir) ==
  \E i \in StructuralNodes(hir) : hir.facts[i].avail = "Link"

\* resolve_call: what the reachability search found out about the calls.
ResolveCalls(hir) ==
  [hir EXCEPT !.facts =
     [i \in DOMAIN @ |->
        IF hir.nodes[i].kind = "Call" /\ hir.nodes[i].resolved # ""
        THEN [@[i] EXCEPT !.resolved = hir.nodes[i].resolved,
                          !.targets = hir.nodes[i].targets]
        ELSE @[i]]]

\* apply_definition_signatures: a call has the type its definitions return.
ApplySignature(fact, returns) ==
  LET types == {returns[t.def] : t \in Range(fact.targets)}
  IN  IF Cardinality(types) = 1
      THEN LET type == CHOOSE t \in types : TRUE
           IN  [fact EXCEPT !.type = type,
                            !.avail = IF type \in {"Morphism", "MorphismTemplate"}
                                      THEN "Compile" ELSE @]
      ELSE fact

DerivedType(n, fact, kidFacts) ==
  CASE n.kind \in {"Return", "Unary"} -> KidType(kidFacts, 1)
    [] n.kind \in {"Assignment", "Expression"} -> KidType(kidFacts, Len(kidFacts))
    [] n.kind = "ConditionalExpression" -> KidType(kidFacts, 2)
    [] n.kind = "Call" /\ KidType(kidFacts, 1) = "MorphismTemplate" -> "Morphism"
    [] n.kind = "Binary" ->
         IF \E k \in DOMAIN kidFacts : kidFacts[k].type = "Morphism" THEN "Morphism"
         ELSE IF \A k \in DOMAIN kidFacts : kidFacts[k].type = "MorphismTemplate"
         THEN "MorphismTemplate"
         ELSE IF ValueOperation(n)
         THEN ScalarBinaryType(n.ops[1], KidType(kidFacts, 1), KidType(kidFacts, 2))
         ELSE "none"
    [] OTHER -> fact.type

DerivedFact(n, fact, kidFacts) ==
  [fact EXCEPT
     !.type = DerivedType(n, fact, kidFacts),
     !.resolved = IF n.kind = "Call" /\ @ = "" /\ KidType(kidFacts, 1) = "MorphismTemplate"
                  THEN "instantiate" ELSE @,
     !.avail = IF n.kind \in {"Return", "Assignment", "Expression",
                              "ConditionalExpression", "Unary", "Binary"}
               THEN Joined(kidFacts) ELSE @]

\* refresh_derived_facts: one pass in the order of the ids.
RefreshDerivedFacts(hir, returns) ==
  LET Refresh(done, n) ==
        LET signed == ApplySignature(hir.facts[Len(done) + 1], returns)
            fact == IF signed.node = 0 THEN signed
                    ELSE [signed EXCEPT !.type = done[signed.node].type,
                                        !.avail = done[signed.node].avail]
        IN  Append(done, DerivedFact(n, fact, [k \in DOMAIN n.kids |-> done[n.kids[k]]]))
  IN  [hir EXCEPT !.facts = FoldLeft(Refresh, <<>>, hir.nodes)]

\* inferred_return_type: of the first return with a type.
InferredReturnType(hir, otherwise) ==
  LET typed == {i \in DOMAIN hir.nodes :
                  hir.nodes[i].kind = "Return" /\ hir.facts[i].type # "none"}
  IN  IF typed = {} THEN otherwise
      ELSE hir.facts[CHOOSE i \in typed : \A j \in typed : i <= j].type

\* The rounds that carry inferred return types from callees to callers.
RECURSIVE InferReturns(_, _, _, _)
InferReturns(defs, hirs, returns, rounds) ==
  LET refreshed == [d \in DOMAIN hirs |-> RefreshDerivedFacts(hirs[d], returns)]
      inferred  == [d \in DOMAIN hirs |->
                      IF defs[d].returns # "infer" THEN returns[d]
                      ELSE InferredReturnType(refreshed[d], returns[d])]
  IN  IF inferred = returns \/ rounds = 0 THEN [hirs |-> refreshed, returns |-> inferred]
      ELSE InferReturns(defs, refreshed, inferred, rounds - 1)

ArgumentTypesCompatible(expected, found) ==
  \/ expected = found
  \/ expected = "Float64" /\ found = "Int64"
  \/ \E t \in ScalarTypes \cup {"Morphism", "MorphismTemplate"} :
       /\ expected = OptionalOf(t)
       /\ \/ found = t
          \/ t = "Float64" /\ found = "Int64"

ReturnTypesCompatible(expected, found) ==
  \/ expected = found
  \/ expected = "Float64" /\ found = "Int64"
  \/ expected = "Morphism" /\ found = "MorphismTemplate"

\* The parameters a call binds: without the instance of a method.
BindableParameters(def) == SelectSeq(def.params, LAMBDA p : p.type # "Instance")

\* intrinsics::parameter_types, as <<position, name, type>>.
ParameterTypes(path) ==
  CASE path \in {"hold", "pulse", "rf_pulse"} -> {<<1, "duration", "Duration">>}
    [] path = "linear_ramp" -> {<<2, "duration", "Duration">>}
    [] path = "cycles" -> {<<1, "count", "Int64">>}
    [] path = "black_box" -> {<<1, "duration_cycles", "Int64">>}
    [] OTHER -> {}

\* call_argument_node: the child bound to a parameter, 0 when there is none.
CallArgumentNode(n, position, name) ==
  IF position <= n.pos THEN n.kids[position + 1]
  ELSE LET at == {k \in DOMAIN n.keys : n.keys[k] = name}
       IN  IF at = {} THEN 0
           ELSE n.kids[1 + n.pos + (CHOOSE k \in at : \A j \in at : k <= j)]

ArgumentMismatch(hir, defs) ==
  \E i \in DOMAIN hir.nodes :
    LET n == hir.nodes[i]
        fact == hir.facts[i]
        expected == IF fact.targets = <<>> THEN ParameterTypes(fact.resolved)
                    ELSE UNION {LET ps == BindableParameters(defs[t.def])
                                IN  {<<k, ps[k].name, ps[k].type>> : k \in DOMAIN ps} :
                                t \in Range(fact.targets)}
    IN  /\ n.kind = "Call"
        /\ \E e \in expected :
             LET actual == CallArgumentNode(n, e[1], e[2])
             IN  /\ actual # 0
                 /\ hir.facts[actual].type # "none"
                 /\ ~ArgumentTypesCompatible(e[3], hir.facts[actual].type)

ReturnMismatch(hir, expected) ==
  \E i \in DOMAIN hir.nodes :
    /\ hir.nodes[i].kind = "Return"
    /\ hir.facts[i].type # "none"
    /\ ~ReturnTypesCompatible(expected, hir.facts[i].type)

\* The report of the typed check of all definitions: link-time values may not
\* decide a shape, arguments and returns have the declared types.
Accepts(defs, built, report) ==
  \A d \in DOMAIN defs :
    /\ ~LinkControlled(built[d])
    /\ ~ArgumentMismatch(report.hirs[d], defs)
    /\ defs[d].returns # "infer" => ~ReturnMismatch(report.hirs[d], report.returns[d])

FirstReturns(defs, built) ==
  [d \in DOMAIN defs |-> IF defs[d].returns # "infer" THEN defs[d].returns
                         ELSE InferredReturnType(built[d], "Unit")]

TypedReport(defs) ==
  LET Report(built, report) == [hirs |-> report.hirs, ok |-> Accepts(defs, built, report)]
      Infer(built) ==
        Report(built, InferReturns(defs, [d \in DOMAIN defs |-> ResolveCalls(built[d])],
                                   FirstReturns(defs, built), Cardinality(DOMAIN defs)))
  IN  Infer([d \in DOMAIN defs |-> LowerDefinitionHir(defs[d])])

=============================================================================
