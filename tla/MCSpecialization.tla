--------------------------- MODULE MCSpecialization ---------------------------
(***************************************************************************)
(* Source programs for Specialization.  A program is an entry `run' made   *)
(* of a first statement, a second block and a return, beside the fixed     *)
(* definitions leg, own, made, remade and again.                           *)
(***************************************************************************)
EXTENDS SourceFragment

CONSTANTS Firsts,   \* first statements to try alone, by number
          Bases,    \* first statements to combine with all second blocks
          Seconds,  \* second blocks
          Returns   \* return statements

-----------------------------------------------------------------------------
(* Syntax.                                                                 *)

Tree(kind, sym, kids) ==
  [kind |-> kind, sym |-> sym, ops |-> <<>>, lit |-> NoValue, body |-> 0, orelse |-> 0,
   pos |-> 0, keys |-> <<>>, resolved |-> "", targets |-> <<>>, receiver |-> "",
   kids |-> kids, size |-> 1 + SizeOf(kids)]

Name(x) == Tree("Name", x, <<>>)
Lit(v) == [Tree("Constant", "", <<>>) EXCEPT !.lit = v]
I(i) == Lit(IntOf(i))
None == Lit(Null)
Text(s) == Lit([t |-> "string", s |-> s])
SelfField(f) == Tree("Attribute", f, <<Name("self")>>)
Bin(op, a, b) == [Tree("Binary", "", <<a, b>>) EXCEPT !.ops = <<op>>]
Un(op, a) == [Tree("Unary", "", <<a>>) EXCEPT !.ops = <<op>>]
Cmp(ops, operands) == [Tree("Compare", "", operands) EXCEPT !.ops = ops]
Cond(test, a, b) == Tree("ConditionalExpression", "", <<test, a, b>>)
Dict(keys, values) == Tree("Dictionary", "", keys \o values)
List(items) == Tree("Aggregate", "", items)
Comp(element, target, iterable, filters) ==
  Tree("Comprehension", "", <<element, target, iterable>> \o filters)
Lambda(op) == Tree("Lambda", "", <<Bin(op, Name("a"), Name("b"))>>)
Item(v, i) == Tree("Subscript", "", <<v, I(i)>>)
Scan(p) == Tree("Subscript", "", <<Name("scan"), Name(p)>>)

\* A registered operation, with positional arguments and then keywords.
Op(name, args) ==
  [Tree("Call", name, <<Name(name)>> \o args) EXCEPT !.pos = Len(args), !.resolved = name]
OpWith(name, args, keys) ==
  [Op(name, args) EXCEPT !.pos = Len(args) - Len(keys), !.keys = keys]
\* A call of a definition of the program.
Source(name, args, keys) ==
  [Tree("Call", name, <<Name(name)>> \o args)
     EXCEPT !.pos = Len(args) - Len(keys), !.keys = keys, !.resolved = name,
            !.targets = <<[def |-> name, instance |-> ""]>>]
Method(receiver, name, args, instances) ==
  [Tree("Call", name, <<Tree("Attribute", name, <<Name(receiver)>>)>> \o args)
     EXCEPT !.pos = Len(args), !.resolved = name, !.receiver = receiver,
            !.targets = [k \in DOMAIN instances |-> [def |-> name, instance |-> instances[k]]]]
Invoke(template, channel) == [Tree("Call", "", <<template, Name(channel)>>) EXCEPT !.pos = 1]

Assign(x, value) == [Tree("Assignment", "", <<Name(x), value>>) EXCEPT !.ops = <<"Assign">>]
Augment(x, op, value) ==
  [Tree("Assignment", "", <<Name(x), value>>) EXCEPT !.ops = <<"AugAssign", op>>]
Return(value) == Tree("Return", "", <<value>>)
Do(value) == Tree("Expression", "", <<value>>)
If(test, body, orelse) ==
  [Tree("If", "", <<test>> \o body \o orelse) EXCEPT !.body = Len(body), !.orelse = Len(orelse)]
For(target, iterable, body) ==
  [Tree("Loop", "", <<target, iterable>> \o body) EXCEPT !.body = Len(body)]

Then(a, b) == Bin("AutoSerial", a, b)
Beside2(a, b) == Bin("Parallel", a, b)
Us(i) == Bin("Multiply", I(i), Name("us"))
PulseOn(duration, channel) == Invoke(Op("pulse", <<duration>>), channel)
BoundPulse(duration, channel) ==
  Then(Op("identity", <<I(0)>>), Dict(<<Name(channel)>>, <<Op("pulse", <<duration>>)>>))
Callback(definition) == [Name("callback") EXCEPT !.resolved = definition]
Board(name, id) == [Name(name) EXCEPT !.lit = [t |-> "string", s |-> id]]

-----------------------------------------------------------------------------
(* The programs.                                                           *)

Param(name, type, default) == [name |-> name, type |-> type, default |-> default]
Definition(params, returns, body, fields, owner) ==
  [params |-> params, returns |-> returns, body |-> body, fields |-> fields, owner |-> owner,
   objects |-> IF owner = "Exp" THEN [all |-> <<"q1", "q2">>] ELSE <<>>]
Field(type, value) == [type |-> type, value |-> value]
SelfParam == Param("self", "Instance", NoValue)

ExpFields ==
  [d |-> Field("Duration", NoValue), n |-> Field("Int64", NoValue),
   k |-> Field("Int64", IntOf(2)), w |-> Field("Int64", Decimal("float", <<3, 1>>)),
   bad |-> Field("Duration", IntOf(3))]

\* leg(d, n=2): a branch on a compile-time parameter.
Leg == Definition(
  <<Param("d", "Duration", NoValue), Param("n", "Int64", IntOf(2))>>, "Morphism",
  <<Assign("m", BoundPulse(Name("d"), "A")),
    If(Cmp(<<"Greater">>, <<Name("n"), I(1)>>),
       <<Assign("m", Then(Name("m"), Op("identity", <<Name("d")>>)))>>,
       <<Assign("m", Then(Op("identity", <<Name("us")>>), Name("m")))>>),
    Return(Name("m"))>>, <<>>, "lib")

\* own(self, k): a method that reads a link-time field of its instance.
Own == Definition(
  <<SelfParam, Param("k", "Int64", NoValue)>>, "Morphism",
  <<Return(BoundPulse(Bin("Multiply", SelfField("d"), Name("k")), "B"))>>,
  [d |-> Field("Duration", NoValue)], "Q")

\* made(): its return type is inferred.
Made == Definition(<<>>, "infer",
  <<Assign("t", Op("pulse", <<Name("us")>>)), Return(Name("t"))>>, <<>>, "lib")

\* remade(): its return type follows from that of made.
Remade == Definition(<<>>, "infer", <<Return(Source("made", <<>>, <<>>))>>, <<>>, "lib")

\* again(): calls itself.
Again == Definition(<<>>, "Morphism",
  <<Return(Then(Source("again", <<>>, <<>>), Op("identity", <<Name("us")>>)))>>, <<>>, "lib")

Template2 == Assign("t", Op("pulse", <<SelfField("d")>>))
OnBoth(x) == Dict(<<Name("A"), Name("B")>>, <<x, x>>)

ForI(element, iterable) == Comp(element, Name("i"), iterable, <<>>)
Reduced(element, iterable) ==
  Assign("m", Op("reduce", <<Lambda("Parallel"), ForI(element, iterable)>>))

FirstStatements == <<
  (* 1 *) <<Assign("m", BoundPulse(SelfField("d"), "A"))>>,
  (* 2 *) <<Assign("m", Source("leg", <<SelfField("d")>>, <<>>))>>,
  (* 3 *) <<Assign("m", Source("leg", <<I(1), Name("us")>>, <<"n", "d">>))>>,
  (* 4 *) <<Assign("m", Method("self", "own", <<SelfField("k")>>, <<"">>))>>,
  (* 5 *) <<Assign("m", Then(Method("other", "own", <<I(1)>>, <<"">>),
                             Method("other", "own", <<I(3)>>, <<"">>)))>>,
  (* 6 *) <<Template2, Assign("m", Then(Then(Op("identity", <<I(0)>>), OnBoth(Name("t"))),
                                        OnBoth(Name("t"))))>>,
  (* 7 *) <<Assign("m", Op("reduce", <<Lambda("Parallel"),
                Comp(Method("q", "own", <<I(1)>>, <<"q1", "q2">>), Name("q"),
                     SelfField("all"), <<>>)>>))>>,
  (* 8 *) <<Assign("m", Op("repeat_morphism", <<PulseOn(Name("us"), "A"), SelfField("w")>>))>>,
  (* 9 *) <<Assign("m", Op("dict_to_morphism", <<Dict(<<Name("A"), Name("B")>>,
                <<Bin("StrictSerial", Op("set_high", <<>>), Op("hold", <<Us(2)>>)),
                  Op("hold", <<>>)>>)>>))>>,
  (* 10 *) <<Assign("xs", Comp(Bin("Multiply", Name("i"), Name("v")),
                  List(<<Name("i"), Name("v")>>),
                  Op("enumerate", <<List(<<Name("us"), Us(2), Us(3)>>)>>),
                  <<Cmp(<<"Less">>, <<Name("i"), I(2)>>)>>)),
             Assign("m", Op("identity", <<Op("sum", <<Name("xs")>>)>>))>>,
  (* 11 *) <<Assign("m", OpWith("black_box",
                <<I(9), Dict(<<Board("BM", "main"), Board("BR", "rwg1")>>,
                               <<Callback("callback"), Callback("callback")>>), List(<<I(1)>>)>>,
                <<"duration_cycles", "board_funcs", "user_args">>))>>,
  (* 12 *) <<Assign("m", Op("identity", <<I(0)>>))>>,
  (* 13 *) <<Assign("m", Source("again", <<>>, <<>>))>>,
  (* 14 *) <<Assign("m", Source("leg", <<SelfField("d"), SelfField("n")>>, <<>>))>>,
  (* 15 *) <<Assign("m", PulseOn(I(3), "A"))>>,
  (* 16 *) <<Assign("m", Then(PulseOn(Name("us"), "A"),
                              Then(Op("global_sync", <<>>), BoundPulse(Scan("p"), "A"))))>>,
  (* 17 *) <<Assign("m", Then(Invoke(Op("set_state", <<List(<<I(1), SelfField("k")>>)>>), "R"),
                Beside2(Op("dict_to_morphism", <<Dict(<<Name("R")>>,
                           <<Op("linear_ramp", <<List(<<I(5)>>), SelfField("d")>>)>>)>>),
                        Invoke(Op("rf_pulse", <<Name("us")>>), "R2"))))>>,
  (* 18 *) <<Assign("m", Then(Invoke(Source("made", <<>>, <<>>), "A"),
                              Invoke(Then(Source("remade", <<>>, <<>>), Op("set_low", <<>>)), "B")))>>,
  (* 19 *) <<Assign("m", Op("identity", <<Op("cycles",
                <<Op("round", <<Bin("Divide", I(5), SelfField("k"))>>)>>)>>))>>,
  (* 20 *) <<Assign("m", Op("identity",
                <<Bin("Subtract", Op("cycles", <<SelfField("n")>>),
                      Bin("Multiply", SelfField("d"), I(2)))>>))>>,
  (* 21 *) <<Assign("m", Op("repeat_morphism", <<PulseOn(Name("us"), "A"), SelfField("n")>>))>>,
  (* 22 *) <<Assign("m", Op("identity", <<SelfField("bad")>>))>>,
  (* 23 *) <<Assign("xs", Comp(Bin("Subtract", Name("a"), Name("b")),
                  List(<<Name("a"), Name("b")>>),
                  Op("zip", <<Op("range", <<I(7), I(1), Un("Negate", I(2))>>),
                              Op("tuple", <<I(1), I(2)>>)>>),
                  <<>>)),
             Assign("m", Op("identity", <<Op("cycles",
                <<Bin("Add", Op("round", <<Op("sum", <<Name("xs")>>)>>),
                      Bin("FloorDivide", I(7), Op("len", <<Name("xs")>>)))>>)>>))>>,
  (* 24 *) <<Assign("m", Op("reduce", <<Lambda("Parallel"),
                Bin("Add", List(<<PulseOn(Name("us"), "A")>>),
                    List(<<BoundPulse(SelfField("d"), "B"), Op("identity", <<Us(1)>>)>>))>>))>>,
  (* 25 *) <<Assign("m", Op("identity", <<Bin("Multiply", Name("ns"), SelfField("n"))>>))>>,
  (* 26 *) <<Assign("m", PulseOn(SelfField("d"), "A"))>>,
  (* 27 *) <<Assign("m", Then(OnBoth(Op("set_high", <<>>)), OnBoth(Op("set_low", <<>>))))>>,
  (* 28 *) <<Assign("us", Bin("Multiply", I(4), Name("ns"))),
             Assign("m", Then(Source("leg", <<Name("us"), I(1)>>, <<>>),
                              Op("identity", <<Name("us")>>)))>>,
  (* 29 *) <<Assign("xs", Comp(Cond(Cmp(<<"In">>, <<Item(Name("v"), 0), List(<<I(1), I(2)>>)>>),
                                    Item(Name("v"), 1), Us(1)),
                  Name("v"),
                  Op("zip", <<Op("range", <<I(3)>>), List(<<Us(2), Us(3), Us(5)>>)>>),
                  <<Cmp(<<"NotEqual">>, <<Item(Name("v"), 0), I(1)>>)>>)),
             Assign("m", Op("identity", <<Op("sum", <<Name("xs")>>)>>))>>,
  (* 30 *) <<Assign("o", Dict(<<Text("a"), Text("b"), Text("a")>>, <<I(1), Us(2), I(3)>>)),
             Assign("m", OpWith("black_box",
                <<SelfField("k"), Dict(<<Board("BM", "main")>>, <<Callback("callback")>>), Name("o"),
                  Dict(<<Text("c")>>, <<List(<<Us(1), Dict(<<Text("d")>>, <<I(5)>>)>>)>>)>>,
                <<"metadata", "user_kwargs">>))>>,
  (* 31 *) <<Assign("m", Op("black_box",
                <<I(9), Dict(<<Board("BM", "main"), Board("BN", "main")>>,
                               <<Callback("callback"), Callback("callback")>>)>>))>>,
  (* 32 *) <<Reduced(Source("leg", <<Name("us"), Name("i")>>, <<>>), List(<<I(1), I(2)>>))>>,
  (* 33 *) <<Assign("m", Op("identity", <<Op("sum", <<ForI(Op("cycles", <<Name("i")>>),
                                                           Op("range", <<I(3)>>))>>)>>))>>,
  (* 34 *) <<Reduced(PulseOn(Bin("Multiply", Name("i"), Name("us")), "A"), List(<<I(1), I(2)>>))>>,
  (* 35 *) <<Reduced(Invoke(Op("hold", <<Bin("Multiply", Name("i"), Name("us"))>>), "A"),
                     List(<<I(1), I(2)>>))>>,
  (* 36 *) <<Assign("m", Op("identity", <<Op("cycles", <<Op("round", <<Op("sum",
                <<ForI(Op("round", <<Bin("Divide", Name("i"), I(2))>>), Op("range", <<I(4)>>))>>)>>)>>)>>))>>,
  (* 37 *) <<Reduced(Source("leg", <<SelfField("d"), I(1)>>, <<>>), List(<<I(1), I(2)>>))>>,
  (* 38 *) <<Assign("m", Op("black_box", <<I(9), Dict(<<Board("BM", "main")>>,
                                                     <<Callback("run.<locals>.callback")>>)>>))>>,
  (* 39 *) <<Assign("m", Then(
                Op("identity", <<Cond(Cmp(<<"In">>, <<Text("a"), Text("cat")>>), Us(1), Us(2))>>),
                Op("identity", <<Cond(Cmp(<<"NotIn">>, <<Text("ca"), Text("cat")>>), Us(3), Us(4))>>)))>>,
  (* 40 *) <<Assign("m", Op("identity",
                <<Cond(Bin("And", Name("flag"), Name("flag")), Us(1), Us(2))>>))>>,
  (* 41 *) <<Assign("m", Bin("Or", Op("identity", <<Us(1)>>), Op("identity", <<Us(2)>>)))>>,
  (* 42 *) <<Assign("m", Op("identity", <<Item(List(<<Us(1), Us(2)>>), 1)>>))>>,
  (* 43 *) <<Assign("m", Op("identity", <<Item(List(<<SelfField("d"), Us(2)>>), 0)>>))>>
>>

Longer == Assign("m", Then(Name("m"), Op("identity", <<Us(1)>>)))
Twice == Assign("m", Then(Name("m"), Name("m")))
XIsNone == Cmp(<<"Is">>, <<Name("x"), None>>)
FlagTest == Cmp(<<"Equal">>, <<Name("flag"), Lit(BoolOf(TRUE))>>)

SecondBlocks == <<
  (* 1 *) <<>>,
  (* 2 *) <<If(Name("flag"), <<Longer>>, <<>>)>>,
  (* 3 *) <<If(XIsNone, <<Assign("x", Us(3))>>, <<>>),
            Assign("m", Then(Op("identity", <<Name("x")>>), Name("m")))>>,
  (* 4 *) <<Assign("y", Cond(FlagTest, Us(1), SelfField("d"))), Assign("z", Name("y")),
            Assign("y", Us(2)),
            Assign("m", Bin("StrictSerial", Name("m"), BoundPulse(Name("z"), "A")))>>,
  (* 5 *) <<If(Name("flag"), <<Assign("y", Us(1)), Do(Name("m"))>>, <<Assign("y", Us(2))>>),
            Assign("m", Then(Name("m"), Op("identity", <<Name("y")>>)))>>,
  (* 6 *) <<If(Cmp(<<"Less", "LessEqual">>, <<I(0), SelfField("k"), I(2)>>),
               <<Twice>>, <<Longer>>)>>,
  (* 7 *) <<If(Cmp(<<"Greater">>, <<SelfField("n"), I(0)>>), <<Longer>>, <<>>)>>,
  (* 8 *) <<If(XIsNone, <<Longer>>,
               <<Assign("m", Then(Name("m"), Op("identity", <<Name("x")>>)))>>)>>,
  (* 9 *) <<If(Un("LogicalNot", Name("flag")), <<If(XIsNone, <<Twice>>, <<>>)>>, <<>>)>>,
  (* 10 *) <<For(Name("i"), Op("range", <<I(2)>>), <<Longer>>)>>,
  (* 11 *) <<Augment("m", "AutoSerial", PulseOn(Name("us"), "B"))>>,
  (* 12 *) <<If(Name("flag"), <<Return(Name("m"))>>, <<>>), Longer>>,
  (* 13 *) <<If(Name("flag"), <<Assign("y", Us(1)), Assign("z", Bin("Add", Name("y"), Name("y")))>>,
                <<Assign("z", Us(5))>>),
             Assign("m", Then(Name("m"), Op("identity", <<Name("z")>>)))>>,
  (* 14 *) <<If(Name("flag"), <<Longer, Twice>>, <<>>)>>,
  (* 15 *) <<If(Name("flag"), <<Assign("x", Us(3))>>, <<>>), If(XIsNone, <<Longer>>, <<>>)>>,
  (* 16 *) <<If(Bin("And", Name("flag"), Name("flag")), <<Longer>>, <<>>)>>,
  (* 17 *) <<[Tree("Assignment", "", <<List(<<Name("y"), Name("m")>>),
                                      List(<<Us(1), Op("identity", <<Us(2)>>)>>)>>)
                EXCEPT !.ops = <<"Assign">>]>>
>>

ReturnStatements == <<
  (* 1 *) <<Return(Name("m"))>>,
  (* 2 *) <<Return(Beside2(Name("m"), Dict(<<Name("B")>>, <<Op("set_high", <<>>)>>)))>>,
  (* 3 *) <<Return(Op("pulse", <<Name("us")>>))>>
>>

ProgramNumbers == (Firsts \X {1} \X Returns) \cup (Bases \X Seconds \X Returns)

ProgramDefinitions(program) ==
  [run |-> Definition(
     <<SelfParam, Param("x", OptionalOf("Duration"), Null), Param("flag", "Bool", BoolOf(TRUE)),
       Param("scan", "ScanBindings", NoValue), Param("p", ScanParamOf("Duration"), NoValue)>>,
     "Morphism",
     FirstStatements[program[1]] \o SecondBlocks[program[2]] \o ReturnStatements[program[3]],
     ExpFields, "Exp"),
   leg |-> Leg, own |-> Own, made |-> Made, remade |-> Remade, again |-> Again]

\* Nothing given, all given, only one given, and one that is unknown.
EntryArgumentSets(program) ==
  {<<>>, ("x" :> IntOf(1)) @@ ("flag" :> BoolOf(FALSE)), "x" :> Null, "flag" :> BoolOf(FALSE)}
    \cup (IF program[2] = 1 THEN {"q" :> IntOf(1), "flag" :> IntOf(1)} ELSE {})

SlotValues(d, n) ==
  (<<"Exp", "d">> :> Cycles(d)) @@ (<<"Exp", "n">> :> IntOf(n)) @@ (<<"Q", "d">> :> Cycles(d + 1))
    @@ (<<"q1", "d">> :> Cycles(d + 2)) @@ (<<"q2", "d">> :> Cycles(d + 3))
    @@ (<<"other", "d">> :> Cycles(d + 5)) @@ (<<"scan", "p">> :> Cycles(2 * d))
    
SlotEnvironments == {SlotValues(4, 0), SlotValues(7, 3)}

UnitCycles == [s |-> <<8, 1>>, ms |-> <<6, 1>>, us |-> <<4, 1>>, ns |-> <<1, 2>>]

=============================================================================
