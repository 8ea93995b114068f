---------------------------- MODULE ValueLowering ----------------------------
(***************************************************************************)
(* Compile-time values (rust/catseq-frontend/src/morphism_lowering/        *)
(* value_lowering.rs) over exact decimals                                  *)
(* (rust/catseq-core/src/exact_decimal.rs).                                *)
(*                                                                         *)
(* A lowered value is a record tagged by t: null, bool, int, float,        *)
(* duration, string, expr (a value known at link time), morphism,          *)
(* template, bindings, aggregate; "none" is the absent value, "error" a    *)
(* lowering error.  An exact decimal is a fraction <<numerator,            *)
(* denominator>> in lowest terms.  A value expression is a constant, a     *)
(* slot or an operation on expressions.                                    *)
(***************************************************************************)
EXTENDS SourceHir

CONSTANTS MaxInt64,         \* the largest Int64
          CyclesPer         \* a duration unit |-> its length in cycles, a fraction

ASSUME WidthAssumption == MaxInt64 \in Nat

Error == [t |-> "error"]
Null == [t |-> "null"]
BoolOf(b) == [t |-> "bool", b |-> b]
IntOf(i) == [t |-> "int", i |-> i]
AggregateOf(items) == [t |-> "aggregate", items |-> items]

Scalars == {"bool", "int", "float", "duration", "string", "expr"}

InInt64(i) == -MaxInt64 - 1 <= i /\ i <= MaxInt64
CheckedInt(i) == IF InInt64(i) THEN IntOf(i) ELSE NoValue

-----------------------------------------------------------------------------
(* Exact decimals.                                                         *)

Magnitude(i) == IF i < 0 THEN -i ELSE i

RECURSIVE Gcd(_, _)
Gcd(a, b) == IF b = 0 THEN a ELSE Gcd(b, a % b)

\* ExactDecimal::new, for a positive denominator.
Fraction(n, d) ==
  LET g == Gcd(Magnitude(n), d)
  IN  IF n < 0 THEN <<-(Magnitude(n) \div g), d \div g>> ELSE <<n \div g, d \div g>>

Whole(i) == <<i, 1>>
Plus(x, y) == Fraction(x[1] * y[2] + y[1] * x[2], x[2] * y[2])
Times(x, y) == Fraction(x[1] * y[1], x[2] * y[2])
Opposite(x) == <<-x[1], x[2]>>
Over(x, y) ==
  Fraction(IF y[1] < 0 THEN -(x[1] * y[2]) ELSE x[1] * y[2], x[2] * Magnitude(y[1]))
Below(x, y) == x[1] * y[2] < y[1] * x[2]

\* to_signed_cycle_delta_rounded: to the nearest, ties to the even neighbour.
Rounded(x) ==
  LET quotient == Magnitude(x[1]) \div x[2]
      twice    == 2 * (Magnitude(x[1]) % x[2])
      rounded  == IF twice > x[2] \/ (twice = x[2] /\ quotient % 2 # 0)
                  THEN quotient + 1 ELSE quotient
  IN  IF x[1] < 0 THEN -rounded ELSE rounded

-----------------------------------------------------------------------------
(* Scalars.                                                                *)

IsNumeric(v) == v.t \in {"int", "float", "duration"}
NumericScalar(v) == IF v.t = "int" THEN Whole(v.i) ELSE v.q
Decimal(tag, q) == [t |-> tag, q |-> q]

\* The kind a sum, a product or a quotient of two numbers has, "none" where
\* the operation is not defined on them.
SumKind(a, b) ==
  CASE a = "int" /\ b = "int" -> "int"
    [] a = "duration" /\ b = "duration" -> "duration"
    [] {a, b} \subseteq {"int", "float"} -> "float"
    [] OTHER -> "none"
ProductKind(a, b) ==
  CASE a = "int" /\ b = "int" -> "int"
    [] {a, b} \subseteq {"int", "float"} -> "float"
    [] (a = "duration") # (b = "duration") -> "duration"
    [] OTHER -> "none"
QuotientKind(a, b) ==
  CASE {a, b} \subseteq {"int", "float"} \/ (a = "duration" /\ b = "duration") -> "float"
    [] a = "duration" -> "duration"
    [] OTHER -> "none"

NumberOf(kind, q) ==
  CASE kind = "none" -> NoValue
    [] kind = "int" -> CheckedInt(q[1])
    [] OTHER -> Decimal(kind, q)

\* Division with remainder as the code does it: the remainder is never negative.
DivEuclid(a, b) == IF b > 0 THEN a \div b ELSE -(a \div (-b))
RemEuclid(a, b) == a % Magnitude(b)

FoldBinary(op, a, b) ==
  CASE op = "Add" -> NumberOf(SumKind(a.t, b.t), Plus(NumericScalar(a), NumericScalar(b)))
    [] op = "Subtract" ->
         NumberOf(SumKind(a.t, b.t), Plus(NumericScalar(a), Opposite(NumericScalar(b))))
    [] op = "Multiply" ->
         NumberOf(ProductKind(a.t, b.t), Times(NumericScalar(a), NumericScalar(b)))
    [] op = "Divide" /\ NumericScalar(b)[1] # 0 ->
         NumberOf(QuotientKind(a.t, b.t), Over(NumericScalar(a), NumericScalar(b)))
    [] op = "FloorDivide" /\ a.t = "int" /\ b.t = "int" /\ b # IntOf(0) ->
         IntOf(DivEuclid(a.i, b.i))
    [] op = "Modulo" /\ a.t = "int" /\ b.t = "int" /\ b # IntOf(0) ->
         IntOf(RemEuclid(a.i, b.i))
    [] OTHER -> NoValue

FoldUnary(op, a) ==
  CASE op = "Positive" -> a
    [] op = "Negate" /\ a.t = "int" -> CheckedInt(-a.i)
    [] op = "Negate" /\ a.t \in {"float", "duration"} -> Decimal(a.t, Opposite(a.q))
    [] op = "LogicalNot" /\ a.t = "bool" -> BoolOf(~a.b)
    [] OTHER -> NoValue

\* fold_scalar_operation: the value when it is known now, NoValue otherwise.
FoldScalarOperation(op, operands) ==
  CASE Len(operands) = 1 -> FoldUnary(op, operands[1])
    [] Len(operands) = 2 /\ IsNumeric(operands[1]) /\ IsNumeric(operands[2]) ->
         FoldBinary(op, operands[1], operands[2])
    [] OTHER -> NoValue

-----------------------------------------------------------------------------
(* Value expressions.                                                      *)

Constant(v) == [e |-> "const", v |-> v]
Slot(name, type) == [e |-> "slot", name |-> name, type |-> type]
Operation(op, type, args) == [e |-> "op", op |-> op, type |-> type, args |-> args]
Cycles(i) == Decimal("duration", Whole(i))

ExprType(x) ==
  IF x.e # "const" THEN x.type
  ELSE CASE x.v.t = "bool" -> "Bool" [] x.v.t = "int" -> "Int64"
         [] x.v.t = "float" -> "Float64" [] x.v.t = "duration" -> "Duration"
         [] x.v.t = "string" -> "String" [] OTHER -> "Json"

\* scalar_to_expr: the expression in a set, empty for a duration that is no
\* whole number of cycles.
ScalarToExpr(v) ==
  CASE v.t = "expr" -> {v.e}
    [] v.t = "duration" /\ v.q[2] # 1 -> {}
    [] OTHER -> {Constant(v)}

TheExpr(v) == CHOOSE x \in ScalarToExpr(v) : TRUE

\* lower_value_operation
LowerValueOperation(n, operands, type) ==
  LET op     == n.ops[1]
      folded == FoldScalarOperation(op, operands)
  IN  CASE \E k \in DOMAIN operands : operands[k].t \notin Scalars -> NoValue
        [] folded.t # "none" -> folded
        [] type \notin ScalarTypes -> NoValue
        [] \E k \in DOMAIN operands : ScalarToExpr(operands[k]) = {} -> Error
        [] op = "Positive" -> operands[1]
        [] op \in {"LogicalNot", "FloorDivide"} -> Error
        [] OTHER ->
             [t |-> "expr",
              e |-> Operation(op, type, [k \in DOMAIN operands |-> TheExpr(operands[k])])]

\* lower_aggregate_operation: + joins two aggregates.
LowerAggregateOperation(n, operands) ==
  IF n.ops[1] = "Add" /\ operands[1].t = "aggregate" /\ operands[2].t = "aggregate"
  THEN AggregateOf(operands[1].items \o operands[2].items) ELSE NoValue

\* A Binary or Unary node with a value operation.
LowerOperation(n, operands, type) ==
  LET joined == LowerAggregateOperation(n, operands)
  IN  IF joined.t # "none" THEN joined ELSE LowerValueOperation(n, operands, type)

\* lower_cycles_intrinsic, of the first argument or NoValue.
LowerCycles(argument) ==
  CASE argument.t = "int" -> Cycles(argument.i)
    [] argument.t = "expr" /\ ExprType(argument.e) = "Int64" ->
         [t |-> "expr",
          e |-> Operation("Multiply", "Duration", <<argument.e, Constant(Cycles(1))>>)]
    [] OTHER -> Error

LowerDurationUnit(unit) == Decimal("duration", CyclesPer[unit])

-----------------------------------------------------------------------------
(* Comparisons: the answer in a set, empty where it is not known now.      *)

RECURSIVE ValuesEqual(_, _)
ValuesEqual(l, r) ==
  CASE l.t = "null" \/ r.t = "null" -> {l.t = r.t}
    [] l.t = "bool" /\ r.t = "bool" -> {l.b = r.b}
    [] l.t = "string" /\ r.t = "string" -> {l.s = r.s}
    [] l.t \in Scalars /\ r.t \in Scalars ->
         IF IsNumeric(l) /\ IsNumeric(r) THEN {NumericScalar(l) = NumericScalar(r)} ELSE {}
    [] l.t = "aggregate" /\ r.t = "aggregate" ->
         IF Len(l.items) # Len(r.items) THEN {FALSE}
         ELSE FoldLeft(LAMBDA known, k : IF known = {TRUE}
                                         THEN ValuesEqual(l.items[k], r.items[k]) ELSE known,
                       {TRUE}, [k \in DOMAIN l.items |-> k])
    [] OTHER -> {FALSE}

\* One text occurs in the other.
ContainsText(text, part) ==
  \E from \in 0 .. Len(text) - Len(part) : SubSeq(text, from + 1, from + Len(part)) = part

\* compare_lowered_values
CompareValues(op, l, r) ==
  CASE op \in {"Equal", "Is"} -> ValuesEqual(l, r)
    [] op \in {"NotEqual", "IsNot"} -> {~b : b \in ValuesEqual(l, r)}
    [] op \in {"In", "NotIn"} /\ l.t = "string" /\ r.t = "string" ->
         {(op = "In") <=> ContainsText(r.s, l.s)}
    [] op \in {"In", "NotIn"} ->
         IF r.t # "aggregate"
            \/ \E k \in DOMAIN r.items : ValuesEqual(l, r.items[k]) = {}
         THEN {}
         ELSE {(op = "In") <=> \E k \in DOMAIN r.items : ValuesEqual(l, r.items[k]) = {TRUE}}
    [] ~(IsNumeric(l) /\ IsNumeric(r)) -> {}
    [] op = "Less" -> {Below(NumericScalar(l), NumericScalar(r))}
    [] op = "LessEqual" -> {~Below(NumericScalar(r), NumericScalar(l))}
    [] op = "Greater" -> {Below(NumericScalar(r), NumericScalar(l))}
    [] op = "GreaterEqual" -> {~Below(NumericScalar(l), NumericScalar(r))}

\* lower_compile_compare: a chain stops at the first comparison that fails.
LowerCompileCompare(n, operands) ==
  LET Link(known, k) == IF known = {TRUE}
                        THEN CompareValues(n.ops[k], operands[k], operands[k + 1]) ELSE known
      answer == FoldLeft(Link, {TRUE}, [k \in DOMAIN n.ops |-> k])
  IN  CASE \E k \in DOMAIN operands : operands[k].t = "none" -> NoValue
        [] answer = {} -> Error
        [] OTHER -> BoolOf(answer = {TRUE})

-----------------------------------------------------------------------------
(* Aggregates.                                                             *)

\* range: overflow is noticed when the value behind the last one is computed.
LowerRange(start, stop, step) ==
  LET distance == IF step > 0 THEN stop - start ELSE start - stop
      count    == IF distance <= 0 THEN 0
                  ELSE (distance + Magnitude(step) - 1) \div Magnitude(step)
  IN  IF InInt64(start + count * step)
      THEN AggregateOf([k \in 1 .. count |-> IntOf(start + (k - 1) * step)])
      ELSE Error

LowerRangeCall(args) ==
  CASE \E k \in DOMAIN args : args[k].t # "int" -> NoValue
    [] Len(args) = 1 -> LowerRange(0, args[1].i, 1)
    [] Len(args) = 2 -> LowerRange(args[1].i, args[2].i, 1)
    [] Len(args) = 3 /\ args[3] # IntOf(0) -> LowerRange(args[1].i, args[2].i, args[3].i)
    [] OTHER -> Error

LowerZip(args) ==
  LET lengths == {Len(args[k].items) : k \in DOMAIN args}
      length  == IF args = <<>> THEN 0 ELSE CHOOSE l \in lengths : \A m \in lengths : l <= m
  IN  AggregateOf([i \in 1 .. length |-> AggregateOf([k \in DOMAIN args |-> args[k].items[i]])])

LowerEnumerate(args) ==
  LET start == IF Len(args) = 1 THEN 0 ELSE args[2].i
  IN  AggregateOf([i \in DOMAIN args[1].items |->
                     AggregateOf(<<IntOf(start + i - 1), args[1].items[i]>>)])

\* lower_aggregate_intrinsic, of the arguments of the call.
LowerAggregateIntrinsic(name, args) ==
  CASE \E k \in DOMAIN args : args[k].t = "none" -> NoValue
    [] name = "range" -> LowerRangeCall(args)
    [] name = "zip" ->
         IF \A k \in DOMAIN args : args[k].t = "aggregate" THEN LowerZip(args) ELSE NoValue
    [] name = "enumerate" ->
         IF /\ args # <<>> /\ args[1].t = "aggregate"
            /\ Len(args) > 1 => args[2].t = "int"
         THEN LowerEnumerate(args) ELSE NoValue
    [] name = "tuple" ->
         IF Len(args) = 1 /\ args[1].t = "aggregate" THEN args[1] ELSE AggregateOf(args)
    [] name = "ones_like" ->
         IF args # <<>> /\ args[1].t = "aggregate"
         THEN AggregateOf([i \in DOMAIN args[1].items |-> Decimal("float", Whole(1))])
         ELSE NoValue
    [] OTHER -> NoValue

\* sum: the first element is taken out before the others are added; taking it
\* out of nothing panics.
LowerSum(items) ==
  CASE \E k \in DOMAIN items : items[k].t \notin Scalars -> NoValue
    [] items = <<>> -> Error
    [] OTHER -> FoldLeft(LAMBDA total, v : IF total.t = "none" THEN total
                                           ELSE FoldScalarOperation("Add", <<total, v>>),
                         items[1], Tail(items))

LowerRound(v) ==
  CASE v.t = "int" -> v
    [] v.t \in {"float", "duration"} ->
         IF InInt64(Rounded(v.q)) THEN IntOf(Rounded(v.q)) ELSE Error
    [] v.t = "expr" -> [t |-> "expr", e |-> Operation("Round", "Int64", <<v.e>>)]
    [] OTHER -> NoValue

\* lower_numeric_intrinsic, of the arguments that have a value.
LowerNumericIntrinsic(name, args) ==
  CASE args = <<>> -> NoValue
    [] name = "len" ->
         IF args[1].t = "aggregate" THEN IntOf(Len(args[1].items)) ELSE NoValue
    [] name = "sum" -> IF args[1].t = "aggregate" THEN LowerSum(args[1].items) ELSE NoValue
    [] name = "round" /\ Len(args) = 1 -> LowerRound(args[1])
    [] OTHER -> NoValue

\* lower_static_subscript: a negative index counts from the end.
LowerStaticSubscript(aggregate, index) ==
  IF aggregate.t # "aggregate" \/ index.t # "int" THEN NoValue
  ELSE LET at == IF index.i < 0 THEN Len(aggregate.items) + index.i ELSE index.i
       IN  IF at + 1 \in DOMAIN aggregate.items THEN aggregate.items[at + 1] ELSE NoValue

-----------------------------------------------------------------------------
(* Arguments of operations.                                                *)

\* lowered_to_json: a duration becomes its bare number of cycles.
RECURSIVE LoweredToJson(_)
LoweredToJson(v) ==
  CASE v.t = "aggregate" ->
         LET items == [k \in DOMAIN v.items |-> LoweredToJson(v.items[k])]
         IN  IF \E k \in DOMAIN items : items[k].t = "error" THEN Error
             ELSE AggregateOf(items)
    [] v.t = "duration" -> Decimal("float", v.q)
    [] v.t \in {"morphism", "template", "bindings"} -> Error
    [] OTHER -> v

\* One argument: its expression in a set, {} for an error.
ArgumentExpr(v) ==
  IF v.t \in Scalars THEN ScalarToExpr(v)
  ELSE LET json == LoweredToJson(v) IN IF json.t = "error" THEN {} ELSE {Constant(json)}

PassedArguments(args) ==
  SelectSeq(args, LAMBDA v : v.t \notin {"none", "morphism", "template", "bindings"})

\* call_arguments: what is passed to a native operation; arguments without a
\* value and Morphisms are left out.
CallArgumentsOk(args) ==
  \A k \in DOMAIN PassedArguments(args) : ArgumentExpr(PassedArguments(args)[k]) # {}
CallArguments(args) ==
  LET passed == PassedArguments(args)
  IN  [k \in DOMAIN passed |-> CHOOSE x \in ArgumentExpr(passed[k]) : TRUE]

=============================================================================
