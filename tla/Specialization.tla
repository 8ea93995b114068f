--------------------------- MODULE Specialization ---------------------------
(***************************************************************************)
(* Specialisation of a checked source program to one Morphism              *)
(* (rust/catseq-frontend/src/morphism_lowering.rs).                        *)
(*                                                                         *)
(* The lowerer visits the nodes of a definition in the order of their ids  *)
(* and gives each a value; a call of a source definition starts that       *)
(* definition on top of the stack with its own values.  Hardware           *)
(* operations give templates, which are plans until a channel is bound:    *)
(* then the plan is published once and instantiated.                       *)
(*                                                                         *)
(* A Morphism is a tree here; that the arena builder keeps what is built   *)
(* with it is the subject of MorphismArena.                                *)
(***************************************************************************)
EXTENDS ValueLowering

CONSTANTS Sources,          \* ids of the source programs
          DefinitionsOf(_), \* a program: definition name |-> definition
          ArgumentsOf(_)    \* the entry arguments to try with it

Entry == "run"

VARIABLES source,    \* the program: definition name |-> definition
          arguments, \* entry arguments: parameter name |-> value
          phase,     \* "check", "lower", "done", "failed"
          hirs,      \* definition name |-> its typed Source HIR
          frames,    \* the definitions being lowered, the innermost last
          arena,     \* [plans, published, templates]
          result     \* the Morphism of the entry

vars == <<source, arguments, phase, hirs, frames, arena, result>>

Definitions == source

-----------------------------------------------------------------------------
(* Morphisms.                                                              *)

NoMorphism == [k |-> "none"]
Atomic(op, args) == [k |-> "atomic", op |-> op, args |-> args]
WaitFor(duration, semantics) == [k |-> "wait", duration |-> duration, semantics |-> semantics]
Serial(kids, policies) == [k |-> "serial", kids |-> kids, policies |-> policies]
Parallel(kids) == [k |-> "parallel", kids |-> kids]
LoopRegion(body, count) == [k |-> "loop", body |-> body, count |-> count]
Instance(template, channel) == [k |-> "instance", template |-> template, channel |-> channel]
Opaque(duration, calls, payload) ==
  [k |-> "opaque", duration |-> duration, calls |-> calls, payload |-> payload]

MorphismOf(m) == [t |-> "morphism", m |-> m]

Compose(operation, left, right) ==
  CASE operation = "AutoSerial" -> Serial(<<left, right>>, <<"Auto">>)
    [] operation = "StrictSerial" -> Serial(<<left, right>>, <<"Strict">>)
    [] operation = "Parallel" -> Parallel(<<left, right>>)

-----------------------------------------------------------------------------
(* Template plans.                                                         *)

OperationPlan(op, args) == [kind |-> "Operation", op |-> op, args |-> args]
WaitPlan(duration, semantics) ==
  [kind |-> "Wait", duration |-> duration, semantics |-> semantics]
SerialPlan(kids, policies) == [kind |-> "Serial", kids |-> kids, policies |-> policies]
ParallelPlan(kids) == [kind |-> "Parallel", kids |-> kids]

Waveforms(derivation, args) == Operation(derivation, "Json", args)

\* The steps of a native template, in order.
NativeSteps(op, args) ==
  CASE op = "hold" -> <<WaitPlan(args[1], "LogicalDisplacement")>>
    [] op = "pulse" ->
         <<OperationPlan("set_high", <<>>), WaitPlan(args[1], "PhysicalInterval"),
           OperationPlan("set_low", <<>>)>>
    [] op = "rf_pulse" ->
         <<OperationPlan("rf_on", <<>>), WaitPlan(args[1], "PhysicalInterval"),
           OperationPlan("rf_off", <<>>)>>
    [] op = "set_state" ->
         LET reset == IF Len(args) > 1 THEN args[2] ELSE Constant(BoolOf(TRUE))
         IN  <<OperationPlan("load", <<Waveforms("Static", <<args[1], reset>>)>>),
               OperationPlan("play", <<>>)>>
    [] op = "linear_ramp" ->
         LET ramp == Waveforms("Linear", <<args[1], args[2]>>)
         IN  <<OperationPlan("load", <<ramp>>), OperationPlan("play", <<>>),
               WaitPlan(args[2], "PhysicalInterval"),
               OperationPlan("load", <<Waveforms("RampEndpoint", <<ramp>>)>>),
               OperationPlan("play", <<>>)>>
    [] OTHER -> <<OperationPlan(op, args)>>

\* The argument of a native template that must be a Duration, 0 for none.
DurationArgument(op) ==
  CASE op \in {"hold", "pulse", "rf_pulse"} -> 1 [] op = "linear_ramp" -> 2 [] OTHER -> 0

NativeArgumentsOk(op, args) ==
  /\ op \in {"set_state", "linear_ramp"} => args # <<>>
  /\ LET at == DurationArgument(op)
     IN  at # 0 => at <= Len(args) /\ ExprType(args[at]) = "Duration"

\* push_intrinsic_template_plan: the steps, and their sequence behind them.
PushPlans(plans, steps) ==
  LET first == Len(plans)
  IN  IF Len(steps) = 1 THEN plans \o steps
      ELSE Append(plans \o steps,
                  SerialPlan([k \in DOMAIN steps |-> first + k],
                             [k \in 1 .. Len(steps) - 1 |-> "Auto"]))

TemplateOf(id) == [t |-> "template", id |-> id]

\* The body published for a plan.
RECURSIVE PlanBody(_, _)
PlanBody(plans, id) ==
  LET plan == plans[id]
  IN  CASE plan.kind = "Operation" -> Atomic(plan.op, plan.args)
        [] plan.kind = "Wait" -> WaitFor(plan.duration, plan.semantics)
        [] plan.kind = "Serial" ->
             Serial([k \in DOMAIN plan.kids |-> PlanBody(plans, plan.kids[k])], plan.policies)
        [] plan.kind = "Parallel" ->
             Parallel([k \in DOMAIN plan.kids |-> PlanBody(plans, plan.kids[k])])

\* Mutant: the template is published and not remembered.
InstantiateUnremembered(ar, id, channel) ==
  [arena |-> [ar EXCEPT !.templates = Append(@, PlanBody(ar.plans, id)),
                        !.published = (id :> Len(ar.templates) + 1) @@ @],
   m |-> Instance(Len(ar.templates) + 1, channel)]

\* instantiate_template: [arena, m].  A plan is published the first time.
InstantiateTemplate(ar, id, channel) ==
  IF id \in DOMAIN ar.published
  THEN [arena |-> ar, m |-> Instance(ar.published[id], channel)]
  ELSE LET new == Len(ar.templates) + 1
       IN  [arena |-> [ar EXCEPT !.templates = Append(@, PlanBody(ar.plans, id)),
                                 !.published = (id :> new) @@ @],
            m |-> Instance(new, channel)]

\* Children materialised one after the other: [arena, kids].
InstantiateAll(ar, bindings) ==
  FoldLeft(LAMBDA st, b : LET one == InstantiateTemplate(st.arena, b.id, b.channel)
                          IN  [arena |-> one.arena, kids |-> Append(st.kids, one.m)],
           [arena |-> ar, kids |-> <<>>], bindings)

\* One child stands for itself, several are parallel, none is an error.
Beside(kids) ==
  CASE kids = <<>> \/ (\E k \in DOMAIN kids : kids[k].k = "none") -> NoMorphism
    [] Len(kids) = 1 -> kids[1]
    [] OTHER -> Parallel(kids)

MaterializeBindings(ar, bindings) ==
  LET all == InstantiateAll(ar, bindings) IN [arena |-> all.arena, m |-> Beside(all.kids)]

\* materialize_morphism_value: [arena, m], NoMorphism for an error.
RECURSIVE MaterializeValue(_, _)
MaterializeValue(ar, v) ==
  CASE v.t = "morphism" -> [arena |-> ar, m |-> v.m]
    [] v.t = "bindings" -> MaterializeBindings(ar, v.of)
    [] v.t = "aggregate" ->
         LET all == FoldLeft(LAMBDA st, item :
                               LET one == MaterializeValue(st.arena, item)
                               IN  [arena |-> one.arena, kids |-> Append(st.kids, one.m)],
                             [arena |-> ar, kids |-> <<>>], v.items)
         IN  [arena |-> all.arena,
              m |-> IF Len(v.items) < 2 THEN NoMorphism ELSE Beside(all.kids)]
    [] v.t = "template" /\ ar.plans[v.id].kind = "Operation"
         /\ ar.plans[v.id].op = "global_sync" ->
         [arena |-> ar, m |-> Atomic("global_sync", ar.plans[v.id].args)]
    [] OTHER -> [arena |-> ar, m |-> NoMorphism]

\* materialize_aggregate, of the operand of a reduce.
MaterializeAggregate(ar, items) ==
  IF Len(items) = 1 THEN MaterializeValue(ar, items[1])
  ELSE MaterializeValue(ar, AggregateOf(items))

-----------------------------------------------------------------------------
(* Comprehensions.                                                         *)

\* bind_comprehension_target: name |-> value; the item fits the target.
RECURSIVE TargetFits(_, _, _)
TargetFits(hir, target, item) ==
  LET n == hir.nodes[target]
  IN  \/ n.kind = "Name"
      \/ /\ n.kind = "Aggregate" /\ item.t = "aggregate" /\ Len(item.items) = Len(n.kids)
         /\ \A k \in DOMAIN n.kids : TargetFits(hir, n.kids[k], item.items[k])

RECURSIVE BindTarget(_, _, _)
BindTarget(hir, target, item) ==
  LET n == hir.nodes[target]
  IN  IF n.kind = "Name" THEN n.sym :> item
      ELSE FoldLeft(LAMBDA bound, k : BindTarget(hir, n.kids[k], item.items[k]) @@ bound,
                    <<>>, [k \in DOMAIN n.kids |-> k])

AllOrNothing(values) ==
  IF \E k \in DOMAIN values : values[k].t = "none" THEN NoValue ELSE AggregateOf(values)

\* The values of the arguments of a call, behind the callee.
ArgumentValues(kidValues) == Tail(kidValues)
PresentArguments(kidValues) == SelectSeq(Tail(kidValues), LAMBDA v : v.t # "none")
FirstArgument(kidValues) == IF Len(kidValues) > 1 THEN kidValues[2] ELSE NoValue

IsNumericCall(n, fact) ==
  n.kind = "Call" /\ fact.type \in {"Float64", "Int64"} /\ fact.resolved \in {"len", "sum", "round"}

\* eval_compile_expression: a node of a comprehension again, with the targets
\* bound.  What it does not know keeps the value of the enclosing pass.
RECURSIVE EvalCompileExpression(_, _, _, _), LowerComprehension(_, _, _)
EvalCompileExpression(hir, id, values, bindings) ==
  LET n    == hir.nodes[id]
      fact == hir.facts[id]
      kids == [k \in DOMAIN n.kids |->
                 EvalCompileExpression(hir, n.kids[k], values, bindings)]
      operation == LowerOperation(n, kids, fact.type)
  IN  CASE n.kind = "Name" /\ n.sym \in DOMAIN bindings -> bindings[n.sym]
        [] \E k \in DOMAIN kids : kids[k].t = "error" -> Error
        [] n.kind = "Constant" -> n.lit
        [] n.kind = "Aggregate" -> AllOrNothing(kids)
        [] ValueOperation(n) -> IF operation.t = "none" THEN Error ELSE operation
        [] n.kind = "Call" /\ fact.resolved = "cycles" -> LowerCycles(FirstArgument(kids))
        [] n.kind = "Call" /\ fact.type = "FixedAggregate" ->
             LowerAggregateIntrinsic(fact.resolved, ArgumentValues(kids))
        [] IsNumericCall(n, fact) -> LowerNumericIntrinsic(fact.resolved, PresentArguments(kids))
        [] n.kind = "Subscript" -> LowerStaticSubscript(kids[1], kids[2])
        [] n.kind = "Compare" -> LowerCompileCompare(n, kids)
        [] n.kind = "Comprehension" ->
             LowerComprehension(hir, n, [i \in DOMAIN values |->
               IF i \in Range(n.kids) THEN kids[CHOOSE k \in DOMAIN kids : n.kids[k] = i]
               ELSE values[i]])
        [] n.kind = "ConditionalExpression" ->
             IF kids[1].t = "bool" THEN (IF kids[1].b THEN kids[2] ELSE kids[3]) ELSE NoValue
        [] OTHER -> values[id]

\* The first value of a kind, NoValue when there is none.
FirstWith(values, kinds) ==
  LET found == SelectSeq(values, LAMBDA v : v.t \in kinds)
  IN  IF found = <<>> THEN NoValue ELSE found[1]

\* The element for one item: "skip" when a filter says no, "stop" when a filter
\* has no value.
ComprehensionItem(hir, n, values, item) ==
  LET bindings == BindTarget(hir, n.kids[2], item)
      filters  == [k \in 1 .. Len(n.kids) - 3 |->
                     EvalCompileExpression(hir, n.kids[k + 3], values, bindings)]
      unusable == SelectSeq(filters, LAMBDA v : v.t # "bool")
      element  == EvalCompileExpression(hir, n.kids[1], values, bindings)
  IN  CASE ~TargetFits(hir, n.kids[2], item) -> Error
        [] unusable # <<>> -> IF unusable[1].t = "none" THEN [t |-> "stop"] ELSE Error
        [] \E k \in DOMAIN filters : ~filters[k].b -> [t |-> "skip"]
        [] element.t = "none" -> Error
        [] OTHER -> element

LowerComprehension(hir, n, values) ==
  LET iterable == values[n.kids[3]]
      element  == n.kids[1]
      items    == [k \in DOMAIN iterable.items |->
                     ComprehensionItem(hir, n, values, iterable.items[k])]
      ending   == FirstWith(items, {"error", "stop"})
  IN  IF iterable.t = "aggregate"
      THEN CASE ending.t = "error" -> Error
             [] ending.t = "stop" -> NoValue
             [] OTHER -> AggregateOf(SelectSeq(items, LAMBDA v : v.t # "skip"))
      ELSE CASE hir.facts[element].targets = <<>> -> NoValue
             [] values[element].t \in {"aggregate", "none"} -> values[element]
             [] OTHER -> AggregateOf(<<values[element]>>)

-----------------------------------------------------------------------------
(* Assignments and branches.                                               *)

\* nested_control_statements: the statements of an arm are not bound when they
\* are visited.
NestedStatements(hir) ==
  UNION {LET n == hir.nodes[i]
             skip == IF n.kind = "Loop" THEN 2 ELSE 1
         IN  IF n.kind \in {"If", "Loop"}
             THEN {n.kids[k] : k \in skip + 1 .. skip + n.body + n.orelse} ELSE {} :
         i \in DOMAIN hir.nodes}

BindAssignment(hir, statement, values, locals) ==
  LET kids  == hir.nodes[statement].kids
      value == values[kids[Len(kids)]]
      names == {hir.nodes[kids[k]].sym : k \in {j \in 1 .. Len(kids) - 1 :
                                                 hir.nodes[kids[j]].kind = "Name"}}
  IN  IF value.t = "none" THEN locals ELSE [x \in names |-> value] @@ locals

Condition(hir, n, values) == values[n.kids[1]]
TakesBody(condition) == condition.t = "bool" /\ condition.b
IsCompileCondition(condition) == condition.t \in {"bool", "null"}

\* The statements of the arm that is taken.
SelectedArm(n, condition) ==
  IF TakesBody(condition) THEN SubSeq(n.kids, 2, 1 + n.body)
  ELSE SubSeq(n.kids, 2 + n.body, 1 + n.body + n.orelse)

LastValue(values, statements) ==
  LET present == {k \in DOMAIN statements : values[statements[k]].t # "none"}
  IN  IF present = {} THEN NoValue
      ELSE values[statements[CHOOSE k \in present : \A j \in present : j <= k]]

\* lower_compile_if with apply_selected_statement: the locals behind the
\* branch.  A branch of the arm is applied again where the arm is taken.
RECURSIVE ApplyIf(_, _, _, _)
ApplyIf(hir, id, values, locals) ==
  LET n == hir.nodes[id]
      Apply(bound, statement) ==
        CASE hir.nodes[statement].kind = "Assignment" ->
               BindAssignment(hir, statement, values, bound)
          [] hir.nodes[statement].kind = "If" -> ApplyIf(hir, statement, values, bound)
          [] OTHER -> bound
  IN  FoldLeft(Apply, locals, SelectedArm(n, Condition(hir, n, values)))

-----------------------------------------------------------------------------
(* Entering definitions.                                                   *)

\* lower_entry_argument: an argument must have the type of its parameter.
EntryArgumentFits(type, value) ==
  \/ value.t = "null" /\ \E t \in ScalarTypes : type = OptionalOf(t)
  \/ \E t \in ScalarTypes :
       /\ type \in {t, OptionalOf(t)}
       /\ \/ t = LiteralType(value) /\ value.t # "null"
          \/ t \in {"Float64", "Duration"} /\ value.t \in {"int", "float"}

EntryValue(type, value) ==
  CASE type \in {"Float64", OptionalOf("Float64")} /\ value.t = "int" ->
         Decimal("float", Whole(value.i))
    [] type \in {"Duration", OptionalOf("Duration")} /\ value.t # "null" ->
         Decimal("duration", Times(NumericScalar(value), CyclesPer["s"]))
    [] OTHER -> value

\* Positional arguments first, then by name, then the default.
BindParameters(def, args) ==
  LET params     == BindableParameters(def)
      positional == SelectSeq(args, LAMBDA a : a.name = "")
      Value(k) ==
        LET named == {j \in DOMAIN args : args[j].name = params[k].name}
        IN  CASE k <= Len(positional) -> positional[k].value
              [] named # {} -> args[CHOOSE j \in named : \A i \in named : j <= i].value
              [] OTHER -> params[k].default
      bound == {k \in DOMAIN params : Value(k).t # "none"}
  IN  [x \in {params[k].name : k \in bound} |->
         Value(CHOOSE k \in bound : params[k].name = x)]

Frame(name, args, instance) ==
  [def |-> name, instance |-> instance, params |-> BindParameters(Definitions[name], args),
   locals |-> <<>>, values |-> <<>>, returned |-> <<>>]

Active(name) == \E f \in DOMAIN frames : frames[f].def = name

\* The arguments of a call of a definition; those without a value are left out.
SpecializationArguments(n, kidValues) ==
  LET args == [k \in 1 .. Len(kidValues) - 1 |->
                 [name |-> IF k <= n.pos THEN "" ELSE n.keys[k - n.pos],
                  value |-> kidValues[k + 1]]]
  IN  SelectSeq(args, LAMBDA a : a.value.t # "none")

\* call_instance_identity, and the instance the reachability search found.
CallInstance(n, target, current) ==
  CASE target.instance # "" -> target.instance
    [] n.receiver = "self" -> current
    [] n.receiver = "" -> Definitions[target.def].owner
    [] OTHER -> n.receiver

-----------------------------------------------------------------------------
(* The node being lowered.                                                 *)

Top == frames[Len(frames)]
Hir == hirs[Top.def]
At == Len(Top.values) + 1
Node == Hir.nodes[At]
NodeFact == Hir.facts[At]
Values(n) == [k \in DOMAIN n.kids |-> Top.values[n.kids[k]]]

Lowering == phase = "lower" /\ At <= Len(Hir.nodes)

IsDefinitionCall == Node.kind = "Call" /\ NodeFact.targets # <<>>

Fail ==
  /\ phase' = "failed"
  /\ UNCHANGED <<source, arguments, hirs, frames, arena, result>>

\* The node gets its value, the locals may change, and an error ends all.
Bind(v, ar, locals) ==
  IF v.t = "error" THEN Fail
  ELSE /\ frames' = [frames EXCEPT ![Len(frames)].values = Append(@, v),
                                   ![Len(frames)].locals = locals]
       /\ arena' = ar
       /\ UNCHANGED <<source, arguments, phase, hirs, result>>

Store(v) == Bind(v, arena, Top.locals)

\* A Morphism that was materialised, or the error instead of it.
StoreMorphism(built) ==
  Bind(IF built.m.k = "none" THEN Error ELSE MorphismOf(built.m), built.arena, Top.locals)

-----------------------------------------------------------------------------
(* Actions.                                                                *)

Init ==
  /\ \E id \in Sources : source = DefinitionsOf(id) /\ arguments \in ArgumentsOf(id)
  /\ phase = "check"
  /\ hirs = <<>>
  /\ frames = <<>>
  /\ arena = [plans |-> <<>>, published |-> <<>>, templates |-> <<>>]
  /\ result = NoMorphism

\* The typed check, and the entry with its arguments.
EntryArguments(params) ==
  LET given == SelectSeq(params, LAMBDA p : p.name \in DOMAIN arguments)
  IN  [k \in DOMAIN given |->
         [name |-> given[k].name, value |-> EntryValue(given[k].type, arguments[given[k].name])]]

EntryAccepted(params) ==
  /\ \A x \in DOMAIN arguments : \E p \in Range(params) : p.name = x
  /\ \A p \in Range(params) :
       p.name \in DOMAIN arguments => EntryArgumentFits(p.type, arguments[p.name])

Checked(report, params) ==
  /\ hirs' = report.hirs
  /\ IF report.ok /\ EntryAccepted(params)
     THEN /\ phase' = "lower"
          /\ frames' = <<Frame(Entry, EntryArguments(params), Definitions[Entry].owner)>>
     ELSE phase' = "failed" /\ frames' = frames

Check ==
  /\ phase = "check"
  /\ Checked(TypedReport(Definitions), BindableParameters(Definitions[Entry]))
  /\ UNCHANGED <<source, arguments, arena, result>>

\* Mutant: what the text assigned last comes first.
NameValueOfText(n, fact, frame) ==
  CASE fact.node # 0 -> frame.values[fact.node]
    [] n.sym \in DOMAIN frame.locals -> frame.locals[n.sym]
    [] n.sym \in DOMAIN frame.params -> frame.params[n.sym]
    [] fact.resolved \in DurationUnits -> LowerDurationUnit(fact.resolved)
    [] OTHER -> NoValue

\* A read: the value assigned last, a parameter, the value the text assigned
\* last before it, a parameter that is None, a duration unit.
NameValue(n, fact, frame) ==
  CASE n.sym \in DOMAIN frame.locals -> frame.locals[n.sym]
    [] n.sym \in DOMAIN frame.params /\ frame.params[n.sym].t # "null" -> frame.params[n.sym]
    [] fact.node # 0 -> frame.values[fact.node]
    [] n.sym \in DOMAIN frame.params -> frame.params[n.sym]
    [] fact.resolved \in DurationUnits -> LowerDurationUnit(fact.resolved)
    [] OTHER -> NoValue

ReadName == Lowering /\ Node.kind = "Name" /\ Store(NameValue(Node, NodeFact, Top))

LowerLiteral == Lowering /\ Node.kind = "Constant" /\ Store(Node.lit)

\* A value the class gives a field.
LowerCompileValue(value, type) ==
  CASE type = "Duration" /\ value.t # "duration" -> Error
    [] type = "Int64" /\ value.t = "float" ->
         IF value.q[2] = 1 THEN IntOf(value.q[1]) ELSE Error
    [] OTHER -> value

\* self.<field>: the slot of the field of this instance, or its value.
AttributeValue(n, fact, instance) ==
  CASE fact.avail = "Link" ->
         IF fact.type \in ScalarTypes
         THEN [t |-> "expr", e |-> Slot(<<instance, n.sym>>, fact.type)] ELSE Error
    [] fact.value.t # "none" /\ fact.type \in ScalarTypes ->
         LowerCompileValue(fact.value, fact.type)
    [] OTHER -> NoValue

ReadAttribute ==
  Lowering /\ Node.kind = "Attribute" /\ Store(AttributeValue(Node, NodeFact, Top.instance))

\* scan[<param>]: the runtime slot of the parameter.  Any other subscript has
\* no value, or is an error when it depends on a link-time value.
ReadScan ==
  /\ Lowering
  /\ Node.kind = "Subscript"
  /\ Store(CASE NodeFact.avail # "Link" -> NoValue
             [] NodeFact.type \notin ScalarTypes -> Error
             [] OTHER ->
                  [t |-> "expr",
                   e |-> Slot(<<"scan", Hir.nodes[Node.kids[2]].sym>>, NodeFact.type)])

ApplyOperation ==
  Lowering /\ ValueOperation(Node) /\ Store(LowerOperation(Node, Values(Node), NodeFact.type))

\* A call of a source definition: the next of its targets starts, unless it is
\* being lowered already.
CallDefinition ==
  /\ Lowering
  /\ IsDefinitionCall
  /\ LET target == NodeFact.targets[Len(Top.returned) + 1]
     IN  IF Active(target.def) THEN Fail
         ELSE /\ frames' = Append(frames,
                             Frame(target.def, SpecializationArguments(Node, Values(Node)),
                                   CallInstance(Node, target, Top.instance)))
              /\ UNCHANGED <<source, arguments, phase, hirs, arena, result>>

\* The end of a definition: its last root with a value is its result.  The
\* caller's node has it when all targets of the call have theirs.
FinishDefinition ==
  LET value  == LastValue(Top.values, Hir.roots)
      caller == frames[Len(frames) - 1]
      node   == hirs[caller.def].facts[Len(caller.values) + 1]
      all    == Append(caller.returned, value)
      resumed ==
        IF Len(all) < Len(node.targets) THEN [caller EXCEPT !.returned = all]
        ELSE [caller EXCEPT !.returned = <<>>,
                            !.values = Append(@, IF Len(all) = 1 THEN value ELSE AggregateOf(all))]
  IN  /\ phase = "lower"
      /\ At > Len(Hir.nodes)
      /\ Len(frames) > 1
      /\ IF value.t = "none" THEN Fail
         ELSE /\ frames' = Append(SubSeq(frames, 1, Len(frames) - 2), resumed)
              /\ UNCHANGED <<source, arguments, phase, hirs, arena, result>>

\* The end of the entry: only a Morphism is a program.
FinishEntry ==
  LET value == LastValue(Top.values, Hir.roots)
  IN  /\ phase = "lower"
      /\ At > Len(Hir.nodes)
      /\ Len(frames) = 1
      /\ IF value.t # "morphism" THEN Fail
         ELSE /\ phase' = "done"
              /\ result' = value.m
              /\ UNCHANGED <<source, arguments, hirs, frames, arena>>

IntrinsicCall(name) ==
  Lowering /\ Node.kind = "Call" /\ ~IsDefinitionCall /\ NodeFact.resolved = name

\* functools.reduce: the first aggregate is made parallel, whatever the function.
LowerReduce ==
  /\ IntrinsicCall("reduce")
  /\ LET aggregates == SelectSeq(ArgumentValues(Values(Node)), LAMBDA v : v.t = "aggregate")
     IN  IF aggregates = <<>> THEN Store(NoValue)
         ELSE StoreMorphism(MaterializeAggregate(arena, aggregates[1].items))

LowerCyclesCall == IntrinsicCall("cycles") /\ Store(LowerCycles(FirstArgument(Values(Node))))

\* repeat_morphism: the first Morphism, as often as the first scalar says.
LowerRepeat ==
  /\ IntrinsicCall("repeat_morphism")
  /\ LET body  == FirstWith(ArgumentValues(Values(Node)), {"morphism"})
         count == FirstWith(ArgumentValues(Values(Node)), Scalars)
     IN  IF body.t = "morphism" /\ count.t = "int" /\ count.i > 0
         THEN Store(MorphismOf(LoopRegion(body.m, Constant(count))))
         ELSE Fail

LowerAggregateCall ==
  /\ Lowering /\ Node.kind = "Call" /\ ~IsDefinitionCall
  /\ NodeFact.type = "FixedAggregate"
  /\ Store(LowerAggregateIntrinsic(NodeFact.resolved, ArgumentValues(Values(Node))))

LowerNumericCall ==
  /\ Lowering /\ ~IsDefinitionCall
  /\ IsNumericCall(Node, NodeFact)
  /\ Store(LowerNumericIntrinsic(NodeFact.resolved, PresentArguments(Values(Node))))

\* A hardware operation: its plans, with the last of them as the template.
LowerTemplateCall ==
  LET passed == ArgumentValues(Values(Node))
      args == IF PassedArguments(passed) = <<>> /\ NodeFact.resolved = "hold"
              THEN <<Constant(Cycles(0))>> ELSE CallArguments(passed)
      plans == PushPlans(arena.plans, NativeSteps(NodeFact.resolved, args))
  IN  /\ Lowering /\ Node.kind = "Call" /\ ~IsDefinitionCall
      /\ NodeFact.type = "MorphismTemplate"
      /\ IF CallArgumentsOk(passed) /\ NativeArgumentsOk(NodeFact.resolved, args)
         THEN Bind(TemplateOf(Len(plans)), [arena EXCEPT !.plans = plans], Top.locals)
         ELSE Fail

\* identity: only a literal 0 needs no unit.
LowerIdentity ==
  /\ IntrinsicCall("identity")
  /\ LET passed == ArgumentValues(Values(Node))
         args   == CallArguments(passed)
     IN  CASE ~CallArgumentsOk(passed) \/ args = <<>> -> Fail
           [] ExprType(args[1]) = "Duration" ->
                Store(MorphismOf(WaitFor(args[1], "LogicalDisplacement")))
           [] Hir.nodes[Node.kids[2]].kind = "Constant"
                /\ Hir.nodes[Node.kids[2]].lit = IntOf(0) ->
                Store(MorphismOf(WaitFor(Constant(Cycles(0)), "LogicalDisplacement")))
           [] OTHER -> Fail

LowerDictToMorphism ==
  /\ IntrinsicCall("dict_to_morphism")
  /\ LET map == FirstWith(ArgumentValues(Values(Node)), {"bindings"})
     IN  IF map.t = "none" THEN Fail ELSE StoreMorphism(MaterializeBindings(arena, map.of))

\* native_channel_key
ChannelKey(id) == Hir.nodes[id].sym

\* template(channel)
LowerInvocation ==
  /\ IntrinsicCall("instantiate")
  /\ LET template == Values(Node)[1]
     IN  IF template.t = "template" /\ Len(Node.kids) > 1
         THEN StoreMorphism(InstantiateTemplate(arena, template.id, ChannelKey(Node.kids[2])))
         ELSE Fail

\* The node a name stands for.
RECURSIVE ResolvedNode(_, _)
ResolvedNode(hir, id) ==
  IF hir.facts[id].node = 0 THEN id ELSE ResolvedNode(hir, hir.facts[id].node)

BlackBoxParameters ==
  <<"duration_cycles", "board_funcs", "user_args", "user_kwargs", "metadata">>

\* special_form_dictionaries: the dictionaries black_box takes.
DeferredDictionaries(hir) ==
  {ResolvedNode(hir, id) : id \in
     UNION {{hir.nodes[i].kids[k] : k \in 2 .. Len(hir.nodes[i].kids)} :
              i \in {j \in DOMAIN hir.nodes : hir.facts[j].resolved = "black_box"}}}

\* collect_native_payload_dictionaries: the dictionaries inside what black_box
\* passes to its callbacks.  Ids only refer to smaller ids.
PayloadDictionaries(hir) ==
  LET calls == {i \in DOMAIN hir.nodes : hir.facts[i].resolved = "black_box"}
      seeds == UNION {{CallArgumentNode(hir.nodes[i], p, BlackBoxParameters[p]) : p \in 3 .. 5} :
                        i \in calls} \ {0}
      Spread(found, i) ==
        IF i \in found
        THEN found \cup Range(hir.nodes[i].kids) \cup ({hir.facts[i].node} \ {0})
        ELSE found
  IN  {i \in FoldLeft(Spread, seeds, Reverse([i \in DOMAIN hir.nodes |-> i])) :
         hir.nodes[i].kind = "Dictionary"}

JsonObject(entries) == [t |-> "json", of |-> entries]

\* lower_string_dictionary: a later entry replaces an earlier one of its key.
StringDictionary(hir, id, values) ==
  LET n     == hir.nodes[ResolvedNode(hir, id)]
      half  == Len(n.kids) \div 2
      Key(k) == hir.nodes[n.kids[k]].lit
      items == [k \in 1 .. half |-> LoweredToJson(values[n.kids[half + k]])]
  IN  CASE id \in DOMAIN values /\ values[id].t = "null" -> JsonObject(<<>>)
        [] n.kind # "Dictionary" -> Error
        [] \E k \in 1 .. half : Key(k).t # "string" \/ items[k].t \in {"none", "error"} -> Error
        [] OTHER -> JsonObject(FoldLeft(LAMBDA entries, k : (Key(k).s :> items[k]) @@ entries,
                                        <<>>, [k \in 1 .. half |-> k]))

\* {channel: template}: keys first, then the values.
DictionaryValue(n, deferred) ==
  LET half == Len(n.kids) \div 2
      templates == [k \in 1 .. half |-> Top.values[n.kids[half + k]]]
  IN  IF \E k \in DOMAIN templates : templates[k].t # "template"
      THEN IF deferred THEN NoValue ELSE Error
      ELSE [t |-> "bindings",
            of |-> [k \in 1 .. half |->
                      [channel |-> ChannelKey(n.kids[k]), id |-> templates[k].id]]]

LowerDictionary ==
  /\ Lowering
  /\ Node.kind = "Dictionary"
  /\ Store(IF At \in PayloadDictionaries(Hir) THEN StringDictionary(Hir, At, Top.values)
           ELSE DictionaryValue(Node, At \in DeferredDictionaries(Hir)))

BlackBoxShapeOk(n) ==
  /\ n.pos <= Len(BlackBoxParameters)
  /\ \A k \in DOMAIN n.keys :
       \E p \in n.pos + 1 .. Len(BlackBoxParameters) : BlackBoxParameters[p] = n.keys[k]

\* <<board, callback>> of the entries of the dictionary; a board key is a
\* module constant, whose value is in lit; a callback is what its name
\* resolves to.
BlackBoxCalls(n) ==
  LET half == Len(n.kids) \div 2
  IN  [k \in 1 .. half |-> <<Hir.nodes[n.kids[k]].lit, Hir.nodes[n.kids[half + k]].resolved>>]

\* The name of a function resolves to a definition at the top of a module.
ModuleLevel(definition) == definition # "" /\ ~ContainsText(definition, "<locals>")

BlackBoxCallsOk(calls) ==
  /\ calls # <<>>
  /\ \A k \in DOMAIN calls : calls[k][1].t = "string" /\ ModuleLevel(calls[k][2])
  /\ \A j, k \in DOMAIN calls : j # k => calls[j][1] # calls[k][1]

\* A dictionary argument of black_box, empty when there is none.
DictionaryArgument(position) ==
  LET id == CallArgumentNode(Node, position, BlackBoxParameters[position])
  IN  IF id = 0 THEN JsonObject(<<>>) ELSE StringDictionary(Hir, id, Top.values)

LowerBlackBox ==
  /\ IntrinsicCall("black_box")
  /\ LET duration == CallArgumentNode(Node, 1, "duration_cycles")
         boards   == CallArgumentNode(Node, 2, "board_funcs")
         extra    == CallArgumentNode(Node, 3, "user_args")
         length   == Top.values[duration]
         calls    == BlackBoxCalls(Hir.nodes[ResolvedNode(Hir, boards)])
         json     == IF extra = 0 \/ Top.values[extra].t = "none" THEN AggregateOf(<<>>)
                     ELSE LoweredToJson(Top.values[extra])
         kwargs   == DictionaryArgument(4)
         metadata == DictionaryArgument(5)
     IN  IF /\ BlackBoxShapeOk(Node) /\ duration # 0 /\ boards # 0
            /\ length.t \in {"int", "expr"}
            /\ length.t = "expr" => ExprType(length.e) = "Int64"
            /\ json.t = "aggregate" /\ kwargs.t = "json" /\ metadata.t = "json"
            /\ Hir.nodes[ResolvedNode(Hir, boards)].kind = "Dictionary"
            /\ BlackBoxCallsOk(calls)
         THEN Store(MorphismOf(Opaque(TheExpr(length), calls, <<json, kwargs, metadata>>)))
         ELSE Fail

LowerAggregate ==
  Lowering /\ Node.kind = "Aggregate" /\ Store(AllOrNothing(Values(Node)))

LowerComprehensionNode ==
  Lowering /\ Node.kind = "Comprehension" /\ Store(LowerComprehension(Hir, Node, Top.values))

LowerCompare ==
  Lowering /\ Node.kind = "Compare" /\ Store(LowerCompileCompare(Node, Values(Node)))

\* Anything but a true condition takes the last operand.
LowerConditional ==
  /\ Lowering
  /\ Node.kind = "ConditionalExpression"
  /\ Store(Top.values[Node.kids[IF TakesBody(Condition(Hir, Node, Top.values)) THEN 2 ELSE 3]])

\* Both arms have been lowered; the statements of the selected one are applied.
LowerIf ==
  LET condition == Condition(Hir, Node, Top.values)
  IN  /\ Lowering
      /\ Node.kind = "If"
      /\ IF IsCompileCondition(condition)
         THEN Bind(LastValue(Top.values, SelectedArm(Node, condition)), arena,
                   ApplyIf(Hir, At, Top.values, Top.locals))
         ELSE Fail

\* >>, @ and |: of templates a plan, of anything else a Morphism.
Composition(op, left, right) ==
  CASE left.t = "none" \/ right.t = "none" -> Store(NoValue)
    [] left.t = "template" /\ right.t = "template" ->
         LET kids == <<left.id, right.id>>
             plan == CASE op = "AutoSerial" -> SerialPlan(kids, <<"Auto">>)
                       [] op = "StrictSerial" -> SerialPlan(kids, <<"Strict">>)
                       [] op = "Parallel" -> ParallelPlan(kids)
         IN  Bind(TemplateOf(Len(arena.plans) + 1), [arena EXCEPT !.plans = Append(@, plan)],
                  Top.locals)
    [] OTHER ->
         LET first  == MaterializeValue(arena, left)
             second == MaterializeValue(first.arena, right)
         IN  IF first.m.k = "none" \/ second.m.k = "none" THEN Fail
             ELSE Bind(MorphismOf(Compose(op, first.m, second.m)), second.arena, Top.locals)

LowerComposition ==
  /\ Lowering
  /\ Node.kind = "Binary" /\ ~ValueOperation(Node)
  /\ NodeFact.type \in {"Morphism", "MorphismTemplate"}
  /\ IF MorphismComposition(Node) /\ Len(Node.kids) = 2
     THEN LET operands == Values(Node) IN Composition(Node.ops[1], operands[1], operands[2])
     ELSE Fail

LowerReturn ==
  /\ Lowering
  /\ Node.kind \in {"Return", "Expression"}
  /\ Store(Top.values[Node.kids[1]])

\* An assignment of an arm is bound when the arm is selected.
LowerAssignment ==
  LET value == Top.values[Node.kids[Len(Node.kids)]]
  IN  /\ Lowering
      /\ Node.kind = "Assignment"
      /\ Bind(value, arena,
              IF At \in NestedStatements(Hir) THEN Top.locals
              ELSE BindAssignment(Hir, At, Top.values, Top.locals))

\* Everything else has no value.
LowerOther ==
  /\ Lowering
  /\ \/ Node.kind \in {"Loop", "Lambda"}
     \/ Node.kind = "Call" /\ ~IsDefinitionCall /\ NodeFact.type = "none"
     \/ /\ Node.kind = "Binary" /\ ~ValueOperation(Node)
        /\ NodeFact.type \notin {"Morphism", "MorphismTemplate"}
  /\ Store(NoValue)

Finished == phase \in {"done", "failed"} /\ UNCHANGED vars

Next ==
  \/ Check \/ FinishDefinition \/ FinishEntry
  \/ ReadName \/ LowerLiteral \/ ReadAttribute \/ ReadScan \/ ApplyOperation
  \/ CallDefinition \/ LowerReduce \/ LowerCyclesCall \/ LowerRepeat
  \/ LowerAggregateCall \/ LowerNumericCall \/ LowerTemplateCall \/ LowerIdentity
  \/ LowerDictToMorphism \/ LowerInvocation \/ LowerBlackBox
  \/ LowerDictionary \/ LowerAggregate \/ LowerComprehensionNode \/ LowerCompare
  \/ LowerConditional \/ LowerIf \/ LowerComposition \/ LowerReturn \/ LowerAssignment
  \/ LowerOther
  \/ Finished

Spec == Init /\ [][Next]_vars

=============================================================================
