--------------------------- MODULE SourceSemantics ---------------------------
(***************************************************************************)
(* What a source program means: an evaluator of its syntax trees that      *)
(* executes the statements one after the other, as Python does, with the   *)
(* link-time slots already given values, and what a specialised Morphism   *)
(* means under the same values.  SourceFragment compares the two.          *)
(*                                                                         *)
(* A value is tagged as in ValueLowering, without expressions; a template  *)
(* is a Morphism on channel ""; an object is an instance of a class.       *)
(***************************************************************************)
EXTENDS Specialization

CONSTANT Environments       \* values of the slots: a set of functions

\* A context: definition, local names, instance, slots, active definitions.
Context(def, env, self, slots, active, eager) ==
  [def |-> def, env |-> env, self |-> self, slots |-> slots, active |-> active,
   eager |-> eager]

-----------------------------------------------------------------------------
(* Numbers.                                                                *)

Dimension(v) == IF v.t = "duration" THEN 1 ELSE 0

\* An int is an Int64; beyond it there is no meaning.
Int64(i) == IF InInt64(i) THEN IntOf(i) ELSE Error

\* A number of a dimension: a whole one stays an int when both operands were.
Number(dimension, ints, q) ==
  CASE dimension = 1 -> Decimal("duration", q)
    [] ints -> Int64(q[1])
    [] OTHER -> Decimal("float", q)

\* The greatest whole number that is not above n / d.
Floor(n, d) == IF d > 0 THEN n \div d ELSE (-n) \div (-d)

Arithmetic(op, a, b) ==
  LET x == NumericScalar(a)
      y == NumericScalar(b)
      ints == a.t = "int" /\ b.t = "int"
      same == Dimension(a) = Dimension(b)
  IN  CASE ~(IsNumeric(a) /\ IsNumeric(b)) -> Error
        [] op = "Add" /\ same ->
             Number(Dimension(a), ints, Fraction(x[1] * y[2] + y[1] * x[2], x[2] * y[2]))
        [] op = "Subtract" /\ same ->
             Number(Dimension(a), ints, Fraction(x[1] * y[2] - y[1] * x[2], x[2] * y[2]))
        [] op = "Multiply" /\ Dimension(a) + Dimension(b) <= 1 ->
             Number(Dimension(a) + Dimension(b), ints, Fraction(x[1] * y[1], x[2] * y[2]))
        [] op = "Divide" /\ y[1] # 0 /\ Dimension(a) >= Dimension(b) ->
             Number(Dimension(a) - Dimension(b), FALSE,
                    IF y[1] > 0 THEN Fraction(x[1] * y[2], x[2] * y[1])
                    ELSE Fraction(-(x[1] * y[2]), -(x[2] * y[1])))
        [] op = "FloorDivide" /\ ints /\ y[1] # 0 -> IntOf(Floor(x[1], y[1]))
        [] op = "Modulo" /\ ints /\ y[1] # 0 -> IntOf(x[1] - y[1] * Floor(x[1], y[1]))
        [] OTHER -> Error

UnaryArithmetic(op, a) ==
  CASE op = "LogicalNot" /\ a.t = "bool" -> BoolOf(~a.b)
    [] op = "Negate" /\ a.t = "int" -> Int64(-a.i)
    [] op = "Negate" /\ IsNumeric(a) -> Decimal(a.t, <<-a.q[1], a.q[2]>>)
    [] op = "Positive" /\ IsNumeric(a) -> a
    [] OTHER -> Error

\* Two values that can be told apart: numbers, or scalars of one kind.
RECURSIVE Alike(_, _)
Alike(l, r) ==
  /\ {l.t, r.t} \subseteq Scalars => l.t = r.t \/ (IsNumeric(l) /\ IsNumeric(r))
  /\ l.t = "aggregate" /\ r.t = "aggregate" /\ Len(l.items) = Len(r.items) =>
       \A k \in DOMAIN l.items : Alike(l.items[k], r.items[k])

RECURSIVE Same(_, _)
Same(l, r) ==
  CASE IsNumeric(l) /\ IsNumeric(r) -> NumericScalar(l) = NumericScalar(r)
    [] l.t = "aggregate" /\ r.t = "aggregate" ->
         /\ Len(l.items) = Len(r.items)
         /\ \A k \in DOMAIN l.items : Same(l.items[k], r.items[k])
    [] OTHER -> l.t = r.t /\ l = r

\* l is one of the items of a list, or a part of a text.
Within(l, r) ==
  IF r.t = "string" THEN ContainsText(r.s, l.s)
  ELSE \E k \in DOMAIN r.items : Same(l, r.items[k])

\* l and r compare as op says.
Holds(op, l, r) ==
  LET left  == NumericScalar(l)[1] * NumericScalar(r)[2]
      right == NumericScalar(r)[1] * NumericScalar(l)[2]
  IN  CASE op \in {"Equal", "Is"} -> Same(l, r)
        [] op \in {"NotEqual", "IsNot"} -> ~Same(l, r)
        [] op = "Less" -> left < right
        [] op = "LessEqual" -> left <= right
        [] op = "Greater" -> left > right
        [] op = "GreaterEqual" -> left >= right
        [] op = "In" -> Within(l, r)
        [] op = "NotIn" -> ~Within(l, r)

Comparable(op, l, r) ==
  CASE op \in {"Equal", "Is", "NotEqual", "IsNot"} -> Alike(l, r)
    [] op \in {"In", "NotIn"} ->
         \/ l.t = "string" /\ r.t = "string"
         \/ r.t = "aggregate" /\ \A k \in DOMAIN r.items : Alike(l, r.items[k])
    [] OTHER -> IsNumeric(l) /\ IsNumeric(r)

Chain(ops, operands) ==
  CASE \E k \in DOMAIN ops : ~Comparable(ops[k], operands[k], operands[k + 1]) -> Error
    [] OTHER -> BoolOf(\A k \in DOMAIN ops : Holds(ops[k], operands[k], operands[k + 1]))

-----------------------------------------------------------------------------
(* Morphisms.                                                              *)

\* Parallel composition is associative.
Together(kids) ==
  Parallel(FoldLeft(LAMBDA all, m : all \o (IF m.k = "parallel" THEN m.kids ELSE <<m>>),
                    <<>>, kids))

Act(op, args, channel) == [k |-> "atomic", op |-> op, args |-> args, channel |-> channel]
InSequence(kids) == Serial(kids, [k \in 1 .. Len(kids) - 1 |-> "Auto"])
Physical(d) == WaitFor(d, "PhysicalInterval")
Displacement(d) == WaitFor(d, "LogicalDisplacement")
WaveformsOf(derivation, args) == [t |-> "waveforms", of |-> derivation, args |-> args]

\* The template bound to a channel.
RECURSIVE OnChannel(_, _)
OnChannel(m, channel) ==
  CASE m.k = "atomic" -> [m EXCEPT !.channel = channel]
    [] m.k \in {"serial", "parallel"} ->
         [m EXCEPT !.kids = [k \in DOMAIN @ |-> OnChannel(@[k], channel)]]
    [] OTHER -> m

TemplateValue(m) == [t |-> "template", m |-> m]

BoundMorphism(bindings) ==
  IF bindings.of = <<>> THEN Error
  ELSE LET kids == [k \in DOMAIN bindings.of |->
                      OnChannel(bindings.of[k].m, bindings.of[k].channel)]
       IN  MorphismOf(IF Len(kids) = 1 THEN kids[1] ELSE Together(kids))

\* A value used as a Morphism.
AsMorphism(v) ==
  CASE v.t = "bindings" -> BoundMorphism(v)
    [] v.t = "template" /\ v.m.k = "atomic" /\ v.m.op = "global_sync" -> MorphismOf(v.m)
    [] v.t = "morphism" -> v
    [] OTHER -> Error

Joining(op, left, right) ==
  CASE op = "AutoSerial" -> Serial(<<left, right>>, <<"Auto">>)
    [] op = "StrictSerial" -> Serial(<<left, right>>, <<"Strict">>)
    [] op = "Parallel" -> Together(<<left, right>>)

\* Two dictionaries have no composition.
ComposeValues(op, left, right) ==
  CASE left.t = "bindings" /\ right.t = "bindings" -> Error
    [] left.t = "template" /\ right.t = "template" ->
         TemplateValue(Joining(op, left.m, right.m))
    [] AsMorphism(left).t = "error" \/ AsMorphism(right).t = "error" -> Error
    [] OTHER -> MorphismOf(Joining(op, AsMorphism(left).m, AsMorphism(right).m))

-----------------------------------------------------------------------------
(* Operations.                                                             *)

\* Only a whole number of cycles can be waited for.
Waitable(v) == v.t = "duration" /\ v.q[2] = 1

\* In a list, and for a callback, a duration is a plain number.
RECURSIVE Plain(_)
Plain(v) ==
  CASE v.t = "aggregate" -> AggregateOf([k \in DOMAIN v.items |-> Plain(v.items[k])])
    [] v.t = "json" -> JsonObject([key \in DOMAIN v.of |-> Plain(v.of[key])])
    [] v.t = "duration" -> Decimal("float", v.q)
    [] OTHER -> v

\* An operation is given data, and durations it can wait for.
RECURSIVE IsData(_)
IsData(v) ==
  CASE v.t = "aggregate" -> \A k \in DOMAIN v.items : IsData(v.items[k])
    [] OTHER -> v.t \in {"null", "bool", "int", "float", "duration", "string"}

Acceptable(v) == IsData(v) /\ (v.t = "duration" => Waitable(v))

HardwareOperation(op, given) ==
  LET timed == DurationArgument(op)
      args  == [k \in DOMAIN given |-> IF given[k].t = "aggregate" THEN Plain(given[k]) ELSE given[k]]
      d     == IF op = "hold" /\ args = <<>> THEN Cycles(0) ELSE args[timed]
  IN  CASE \E k \in DOMAIN given : ~Acceptable(given[k]) -> Error
        [] timed # 0 /\ ~(op = "hold" /\ args = <<>>)
             /\ (timed > Len(args) \/ ~Waitable(args[timed])) -> Error
        [] op = "hold" -> TemplateValue(Displacement(d))
        [] op = "pulse" ->
             TemplateValue(InSequence(<<Act("set_high", <<>>, ""), Physical(d),
                                        Act("set_low", <<>>, "")>>))
        [] op = "rf_pulse" ->
             TemplateValue(InSequence(<<Act("rf_on", <<>>, ""), Physical(d),
                                        Act("rf_off", <<>>, "")>>))
        [] op = "set_state" ->
             IF args = <<>> THEN Error
             ELSE LET reset == IF Len(args) > 1 THEN args[2] ELSE BoolOf(TRUE)
                  IN  TemplateValue(InSequence(
                        <<Act("load", <<WaveformsOf("Static", <<args[1], reset>>)>>, ""),
                          Act("play", <<>>, "")>>))
        [] op = "linear_ramp" ->
             LET ramp == WaveformsOf("Linear", <<args[1], d>>)
             IN  TemplateValue(InSequence(
                   <<Act("load", <<ramp>>, ""), Act("play", <<>>, ""), Physical(d),
                     Act("load", <<WaveformsOf("RampEndpoint", <<ramp>>)>>, ""),
                     Act("play", <<>>, "")>>))
        [] OTHER -> TemplateValue(Act(op, args, ""))

\* Nothing has no sum: its kind would be unknown.
Total(items) ==
  IF items = <<>> THEN Error
  ELSE FoldLeft(LAMBDA a, b : IF a.t = "error" THEN a ELSE Arithmetic("Add", a, b),
                items[1], Tail(items))

\* A value between two whole numbers goes to the nearer, halfway to the even one.
Nearest(q) ==
  LET below == Floor(q[1], q[2])
      twice == 2 * (q[1] - below * q[2])
  IN  IF twice < q[2] \/ (twice = q[2] /\ below % 2 = 0) THEN below ELSE below + 1

\* The whole numbers from start to before stop; the one behind the last is an
\* Int64 as well.
Counting(start, stop, step) ==
  LET Up(k) == start + (k - 1) * step
      fit == {k \in 1 .. Magnitude(stop - start) :
                IF step > 0 THEN Up(k) < stop ELSE Up(k) > stop}
  IN  IF step = 0 \/ ~InInt64(Up(Cardinality(fit) + 1)) THEN Error
      ELSE AggregateOf([k \in 1 .. Cardinality(fit) |-> IntOf(Up(k))])

Lists(args) == \A k \in DOMAIN args : args[k].t = "aggregate"
WholeNumbers(args) == \A k \in DOMAIN args : args[k].t = "int"
ShortestOf(args) ==
  CHOOSE l \in {Len(args[k].items) : k \in DOMAIN args} :
    \A k \in DOMAIN args : l <= Len(args[k].items)

BuiltIn(name, args) ==
  CASE args = <<>> -> Error
    [] name = "cycles" -> IF args[1].t = "int" THEN Cycles(args[1].i) ELSE Error
    [] name = "len" -> IF Lists(args) THEN IntOf(Len(args[1].items)) ELSE Error
    [] name = "sum" -> IF Lists(args) THEN Total(args[1].items) ELSE Error
    [] name = "round" ->
         IF IsNumeric(args[1]) THEN Int64(Nearest(NumericScalar(args[1]))) ELSE Error
    [] name = "range" ->
         CASE ~WholeNumbers(args) -> Error
           [] Len(args) = 1 -> Counting(0, args[1].i, 1)
           [] Len(args) = 2 -> Counting(args[1].i, args[2].i, 1)
           [] OTHER -> Counting(args[1].i, args[2].i, args[3].i)
    [] name = "zip" ->
         IF ~Lists(args) THEN Error
         ELSE AggregateOf([i \in 1 .. ShortestOf(args) |->
                             AggregateOf([k \in DOMAIN args |-> args[k].items[i]])])
    [] name = "enumerate" ->
         LET from == IF Len(args) > 1 THEN args[2].i ELSE 0
         IN  IF args[1].t # "aggregate" \/ (Len(args) > 1 /\ args[2].t # "int") THEN Error
             ELSE AggregateOf([i \in DOMAIN args[1].items |->
                            AggregateOf(<<IntOf(from + i - 1), args[1].items[i]>>)])
    [] name = "tuple" -> IF Len(args) = 1 /\ Lists(args) THEN args[1] ELSE AggregateOf(args)
    [] name = "ones_like" ->
         IF args[1].t # "aggregate" THEN Error
         ELSE AggregateOf([i \in DOMAIN args[1].items |-> Decimal("float", Whole(1))])

BuiltIns ==
  {"cycles", "len", "sum", "round", "range", "zip", "enumerate", "tuple", "ones_like"}

\* An operation on evaluated arguments.
ApplyOperator(name, x, args) ==
  CASE \E k \in DOMAIN args : args[k].t = "error" -> Error
    [] name \in BuiltIns -> BuiltIn(name, args)
    [] name \in {"identity", "dict_to_morphism", "repeat_morphism"} /\ args = <<>> -> Error
    [] name = "identity" ->
         CASE Waitable(args[1]) -> MorphismOf(Displacement(args[1]))
           [] x.kids[2].kind = "Constant" /\ x.kids[2].lit = IntOf(0) ->
                MorphismOf(Displacement(Cycles(0)))
           [] OTHER -> Error
    [] name = "dict_to_morphism" ->
         IF args[1].t = "bindings" THEN BoundMorphism(args[1]) ELSE Error
    [] name = "repeat_morphism" ->
         IF Len(args) = 2 /\ args[1].t = "morphism" /\ args[2].t = "int" /\ args[2].i > 0
         THEN MorphismOf(LoopRegion(args[1].m, args[2])) ELSE Error
    [] OTHER -> HardwareOperation(name, args)

\* The names a target binds to an item.
RECURSIVE Unpack(_, _)
Unpack(target, item) ==
  IF target.kind = "Name" THEN target.sym :> item
  ELSE FoldLeft(LAMBDA bound, k : Unpack(target.kids[k], item.items[k]) @@ bound,
                <<>>, [k \in DOMAIN target.kids |-> k])

RECURSIVE Unpackable(_, _)
Unpackable(target, item) ==
  \/ target.kind = "Name"
  \/ /\ target.kind = "Aggregate" /\ item.t = "aggregate"
     /\ Len(item.items) = Len(target.kids)
     /\ \A k \in DOMAIN target.kids : Unpackable(target.kids[k], item.items[k])

-----------------------------------------------------------------------------
(* The evaluator.                                                          *)

RECURSIVE Eval(_, _), Execute(_, _, _), RunDefinition(_, _, _, _)

Evaluated(trees, c) == [k \in DOMAIN trees |-> Eval(trees[k], c)]
Fails(values) == \E k \in DOMAIN values : values[k].t = "error"

\* The instance a method is called on.
ReceiverOf(x, c) ==
  CASE x.receiver = "self" -> c.self
    [] x.receiver = "" -> Definitions[x.targets[1].def].owner
    [] x.receiver \in DOMAIN c.env -> c.env[x.receiver].id
    [] OTHER -> x.receiver

Callbacks(dictionary) ==
  LET half == Len(dictionary.kids) \div 2
  IN  [k \in 1 .. half |-> <<dictionary.kids[k].lit, dictionary.kids[half + k].resolved>>]

\* The position among the arguments of a parameter of black_box, 0 for none.
ArgumentAt(x, position) ==
  LET named == {k \in DOMAIN x.keys : x.keys[k] = BlackBoxParameters[position]}
  IN  CASE position <= x.pos -> position
        [] named # {} -> x.pos + (CHOOSE k \in named : TRUE)
        [] OTHER -> 0

\* A list or a dictionary for the callbacks, "error" for anything else.
PayloadArgument(x, position, args) ==
  LET given == Plain(args[ArgumentAt(x, position)])
      list  == position = 3
  IN  CASE ArgumentAt(x, position) = 0 -> IF list THEN AggregateOf(<<>>) ELSE JsonObject(<<>>)
        [] ~list /\ given.t = "null" -> JsonObject(<<>>)
        [] given.t = (IF list THEN "aggregate" ELSE "json") -> given
        [] OTHER -> Error

EvalBlackBox(x, args) ==
  LET calls   == Callbacks(x.kids[1 + ArgumentAt(x, 2)])
      length  == args[ArgumentAt(x, 1)]
      payload == [k \in 1 .. 3 |-> PayloadArgument(x, k + 2, args)]
  IN  IF /\ BlackBoxShapeOk(x) /\ ArgumentAt(x, 1) # 0 /\ ArgumentAt(x, 2) # 0
         /\ length.t = "int" /\ BlackBoxCallsOk(calls)
         /\ \A k \in 1 .. 3 : payload[k].t # "error"
      THEN MorphismOf(Opaque(length, calls, payload)) ELSE Error

\* The operations that look at more than the values of their arguments.
EvalForm(x, callee, args) ==
  CASE x.resolved = "black_box" -> EvalBlackBox(x, args)
    [] x.resolved = "reduce" ->
         IF args[2].t # "aggregate" \/ args[2].items = <<>> THEN Error
         ELSE LET parts == [k \in DOMAIN args[2].items |-> AsMorphism(args[2].items[k])]
                  Join(a, b) == IF a.t = "error" THEN a
                                ELSE ComposeValues(x.kids[2].kids[1].ops[1], a, b)
              IN  FoldLeft(Join, parts[1], Tail(parts))
    [] x.resolved # "" -> ApplyOperator(x.resolved, x, args)
    [] callee.t = "template" -> MorphismOf(OnChannel(callee.m, x.kids[2].sym))
    [] OTHER -> Error

EvalCall(x, c, callee, args) ==
  CASE x.targets = <<>> -> EvalForm(x, callee, args)
    [] Fails(args) -> Error
    [] OTHER ->
         RunDefinition(x.targets[1].def,
           [k \in DOMAIN args |->
              [name |-> IF k <= x.pos THEN "" ELSE x.keys[k - x.pos], value |-> args[k]]],
           ReceiverOf(x, c), c)

EvalDictionary(x, kids) ==
  LET half == Len(x.kids) \div 2
      LastAt(key) == CHOOSE k \in 1 .. half :
                     kids[k] = key /\ \A j \in k + 1 .. half : kids[j] # key
  IN  CASE \A k \in 1 .. half : kids[half + k].t = "template" ->
             [t |-> "bindings",
              of |-> [k \in 1 .. half |-> [channel |-> x.kids[k].sym, m |-> kids[half + k].m]]]
        [] \A k \in 1 .. half : kids[k].t = "string" ->
             JsonObject([s \in {kids[k].s : k \in 1 .. half} |->
                           kids[half + LastAt([t |-> "string", s |-> s])]])
        [] OTHER -> Error

\* Every filter is tried on every item.  An eager context needs an element.
EvalComprehension(x, c, iterable) ==
  LET Inner(item) == [c EXCEPT !.env = Unpack(x.kids[2], item) @@ @]
      Filters(item) == {Eval(x.kids[k], Inner(item)) : k \in 4 .. Len(x.kids)}
      Kept(item) == \A f \in Filters(item) : f.b
      AllOf(items) == IF Fails(items) \/ (c.eager /\ items = <<>>) THEN Error
                      ELSE AggregateOf(items)
      Elements(items) == AllOf([k \in DOMAIN items |-> Eval(x.kids[1], Inner(items[k]))])
  IN  CASE iterable.t # "aggregate" -> Error
        [] \E item \in Range(iterable.items) :
             ~Unpackable(x.kids[2], item) \/ \E f \in Filters(item) : f.t # "bool" -> Error
        [] OTHER -> Elements(SelectSeq(iterable.items, Kept))

\* The index counts from the end when it is negative.
EvalSubscript(list, index) ==
  LET at == IF index.i < 0 THEN Len(list.items) + index.i + 1 ELSE index.i + 1
  IN  IF list.t = "aggregate" /\ index.t = "int" /\ at \in DOMAIN list.items
      THEN list.items[at] ELSE Error

\* A field holds a value of the type it is declared with.
FieldValue(field) ==
  CASE field.type = "Duration" /\ field.value.t # "duration" -> Error
    [] field.type = "Int64" /\ field.value.t = "float" ->
         IF field.value.q[2] = 1 THEN IntOf(field.value.q[1]) ELSE Error
    [] OTHER -> field.value

EvalAttribute(x, c, def) ==
  CASE x.sym \in DOMAIN def.objects ->
         AggregateOf([k \in DOMAIN def.objects[x.sym] |->
                        [t |-> "object", id |-> def.objects[x.sym][k]]])
    [] x.sym \in DOMAIN def.fields ->
         IF def.fields[x.sym].value.t = "none" THEN c.slots[<<c.self, x.sym>>]
         ELSE FieldValue(def.fields[x.sym])
    [] OTHER -> Error

\* A name the definition assigns somewhere is no unit anywhere in it.
EvalName(x, c) ==
  CASE x.sym \in DOMAIN c.env -> c.env[x.sym]
    [] x.sym \in DurationUnits \ FunctionLocalNames(Traverse(Definitions[c.def].body, 0)) ->
         Decimal("duration", CyclesPer[x.sym])
    [] OTHER -> Error

\* An operator on the values of its operands.
EvalOperator(x, kids) ==
  CASE Fails(kids) -> Error
    [] x.kind = "Compare" -> Chain(x.ops, kids)
    [] x.kind = "Aggregate" -> AggregateOf(kids)
    [] x.kind = "Unary" -> UnaryArithmetic(x.ops[1], kids[1])
    [] x.ops[1] \in BooleanOperations ->
         IF kids[1].t # "bool" THEN Error
         ELSE IF kids[1].b = (x.ops[1] = "And") THEN kids[2] ELSE kids[1]
    [] MorphismComposition(x) -> ComposeValues(x.ops[1], kids[1], kids[2])
    [] x.ops[1] = "Add" /\ Lists(kids) -> AggregateOf(kids[1].items \o kids[2].items)
    [] OTHER -> Arithmetic(x.ops[1], kids[1], kids[2])

EvalNode(x, c, kids) ==
  CASE x.kind = "Name" -> EvalName(x, c)
    [] x.kind = "Constant" -> x.lit
    [] x.kind = "Attribute" -> EvalAttribute(x, c, Definitions[c.def])
    [] x.kind = "Subscript" ->
         IF x.kids[2].kind = "Name" THEN c.slots[<<"scan", x.kids[2].sym>>]
         ELSE EvalSubscript(kids[1], kids[2])
    [] x.kind = "Dictionary" -> EvalDictionary(x, kids)
    [] x.kind = "Comprehension" -> EvalComprehension(x, c, kids[3])
    [] x.kind = "Call" -> EvalCall(x, c, kids[1], [k \in 1 .. Len(kids) - 1 |-> kids[k + 1]])
    [] x.kind = "Lambda" -> [t |-> "lambda"]
    [] x.kind = "ConditionalExpression" ->
         IF kids[1].t # "bool" \/ (c.eager /\ Fails(kids)) THEN Error
         ELSE IF kids[1].b THEN kids[2] ELSE kids[3]
    [] OTHER -> EvalOperator(x, kids)

Eval(x, c) == EvalNode(x, c, Evaluated(x.kids, c))

Going(c) == [c |-> c, ret |-> NoValue]
Stopped(c, v) == [c |-> c, ret |-> v]

Bound(target, v, c) ==
  IF v.t = "error" \/ ~Unpackable(target, v) THEN Stopped(c, Error)
  ELSE Going([c EXCEPT !.env = Unpack(target, v) @@ @])

\* A branch.  An eager context also tries the arm that is not taken.
Branch(x, c, condition) ==
  LET Arm(taken) == Execute(IF taken THEN SubSeq(x.kids, 2, 1 + x.body)
                            ELSE SubSeq(x.kids, 2 + x.body, 1 + x.body + x.orelse), 1, c)
      Try(taken, other) == IF c.eager /\ other.ret.t = "error" THEN Stopped(c, Error) ELSE taken
  IN  IF condition.t \notin {"bool", "null"} THEN Stopped(c, Error)
      ELSE Try(Arm(TakesBody(condition)), Arm(~TakesBody(condition)))

Repeat(x, c, iterable) ==
  LET Round(st, item) ==
        IF st.ret.t # "none" THEN st
        ELSE Execute(SubSeq(x.kids, 3, 2 + x.body), 1,
                     [st.c EXCEPT !.env = Unpack(x.kids[1], item) @@ @])
  IN  IF iterable.t # "aggregate" THEN Stopped(c, Error)
      ELSE FoldLeft(Round, Going(c), iterable.items)

\* One statement: [c, ret]; ret is what it returns, or an error.
Step(x, c, kids) ==
  LET value == kids[Len(kids)]
  IN  CASE x.kind = "Assignment" ->
             Bound(x.kids[1],
                   IF x.ops[1] = "AugAssign" THEN EvalOperator([x EXCEPT !.kind = "Binary", !.ops = Tail(@)], kids)
                   ELSE value, c)
        [] x.kind = "Return" -> Stopped(c, value)
        [] x.kind = "Expression" -> IF value.t = "error" THEN Stopped(c, Error) ELSE Going(c)
        [] x.kind = "If" -> Branch(x, c, kids[1])
        [] x.kind = "Loop" -> Repeat(x, c, kids[2])

\* The statements from the k-th on.
Execute(statements, k, c) ==
  LET Continue(after) ==
        IF after.ret.t # "none" THEN after ELSE Execute(statements, k + 1, after.c)
  IN  IF k > Len(statements) THEN Going(c)
      ELSE Continue(Step(statements[k], c, Evaluated(statements[k].kids, c)))

\* What the run provides for a scan needs no argument.
IsScan(type) == type = "ScanBindings" \/ \E t \in ScalarTypes : type = ScanParamOf(t)

ResultOf(ended) == IF ended.ret.t = "none" THEN Null ELSE ended.ret

\* A call: every parameter needs a value, and no definition may call itself.
RunDefinition(name, args, self, c) ==
  LET params == BindParameters(Definitions[name], args)
  IN  IF \/ name \in c.active
         \/ \E p \in Range(BindableParameters(Definitions[name])) :
              p.name \notin DOMAIN params /\ ~IsScan(p.type)
      THEN Error
      ELSE ResultOf(Execute(Definitions[name].body, 1,
                      Context(name, params, self, c.slots, c.active \cup {name}, c.eager)))

\* The value of the entry under values of the slots.
Meaning(slots, eager) ==
  LET def == Definitions[Entry]
      params == BindableParameters(def)
  IN  IF ~EntryAccepted(params) THEN Error
      ELSE RunDefinition(Entry, EntryArguments(params), def.owner,
                         Context(Entry, <<>>, "", slots, {}, eager))

-----------------------------------------------------------------------------
(* The meaning of a specialised Morphism.                                  *)

RECURSIVE ExprMeaning(_, _)
ExprMeaning(x, slots) ==
  LET args == [k \in DOMAIN x.args |-> ExprMeaning(x.args[k], slots)]
  IN  CASE x.e = "const" -> x.v
        [] x.e = "slot" -> slots[x.name]
        [] x.op \in {"Static", "Linear", "RampEndpoint"} -> WaveformsOf(x.op, args)
        [] x.op = "Round" -> IntOf(Nearest(NumericScalar(args[1])))
        [] Len(args) = 1 -> UnaryArithmetic(x.op, args[1])
        [] OTHER -> Arithmetic(x.op, args[1], args[2])

RECURSIVE MorphismMeaning(_, _, _)
MorphismMeaning(m, channel, slots) ==
  CASE m.k = "atomic" ->
         Act(m.op, [k \in DOMAIN m.args |-> ExprMeaning(m.args[k], slots)], channel)
    [] m.k = "wait" -> WaitFor(ExprMeaning(m.duration, slots), m.semantics)
    [] m.k = "serial" ->
         Serial([k \in DOMAIN m.kids |-> MorphismMeaning(m.kids[k], channel, slots)], m.policies)
    [] m.k = "parallel" ->
         Together([k \in DOMAIN m.kids |-> MorphismMeaning(m.kids[k], channel, slots)])
    [] m.k = "loop" ->
         LoopRegion(MorphismMeaning(m.body, channel, slots), ExprMeaning(m.count, slots))
    [] m.k = "instance" -> MorphismMeaning(arena.templates[m.template], m.channel, slots)
    [] m.k = "opaque" -> Opaque(ExprMeaning(m.duration, slots), m.calls, m.payload)

=============================================================================
