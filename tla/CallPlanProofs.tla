--------------------------- MODULE CallPlanProofs ---------------------------
(***************************************************************************)
(* Proofs about the analyses, the traversal, the layout and the rendezvous *)
(* of compile_oasm_call_plan, for every program and every target.          *)
(***************************************************************************)
EXTENDS CallPlanSemantics, FiniteSetTheorems, TLAPS

-----------------------------------------------------------------------------
(* Induction and recursion over an interval.                               *)

\* A set of numbers that is not empty has a smallest element.
LEMMA LeastNumber ==
    ASSUME NEW S, S \subseteq Nat, S # {}
    PROVE  \E x \in S : \A y \in S : x <= y
<1> DEFINE less == OpToRel(<, Nat)
<1>1. IsWellFoundedOn(less, Nat)
  BY NatLessThanWellFounded
<1>2. \A x, y \in Nat : x < y => <<x, y>> \in less
  BY DEF OpToRel
<1> HIDE DEF less
<1>3. PICK x \in S : \A y \in S : ~(<<y, x>> \in less)
  BY <1>1, WFMin
<1>4. \A y \in S : ~(y < x)
  BY <1>2, <1>3, Zenon
<1>5. \A y \in S : x <= y
  BY <1>4
<1> QED BY <1>5

\* Induction from 0 to n, for a set of numbers.
LEMMA UpTo ==
    ASSUME NEW n \in Nat, NEW S, 0 \in S,
           \A k \in 0..(n - 1) : k \in S => k + 1 \in S
    PROVE  \A k \in 0..n : k \in S
<1> SUFFICES ASSUME \E k \in 0..n : k \notin S PROVE FALSE
  OBVIOUS
<1> DEFINE bad == {k \in 0..n : k \notin S}
<1>1. bad \subseteq Nat /\ bad # {}
  OBVIOUS
<1>2. PICK x \in bad : \A y \in bad : x <= y
  BY <1>1, LeastNumber
<1>3. x \in 0..n /\ x \notin S /\ x # 0
  BY <1>2
<1>4. x - 1 \in 0..(n - 1) /\ x - 1 \in 0..n /\ ~(x <= x - 1) /\ (x - 1) + 1 = x
  BY <1>3
<1>5. x - 1 \in S
  BY <1>2, <1>4
<1> QED BY <1>3, <1>4, <1>5

\* Induction over the numbers before n, for a set of numbers.
LEMMA Before ==
    ASSUME NEW n \in Nat, NEW S,
           \A k \in 1..n : (\A j \in 1..(k - 1) : j \in S) => k \in S
    PROVE  \A k \in 1..n : k \in S
<1> SUFFICES ASSUME \E k \in 1..n : k \notin S PROVE FALSE
  OBVIOUS
<1> DEFINE bad == {k \in 1..n : k \notin S}
<1>1. bad \subseteq Nat /\ bad # {}
  OBVIOUS
<1>2. PICK x \in bad : \A y \in bad : x <= y
  BY <1>1, LeastNumber
<1>3. x \in 1..n /\ x \notin S
  BY <1>2
<1>4. ASSUME NEW j \in 1..(x - 1) PROVE j \in S
  <2>1. j \in 1..n /\ ~(x <= j)
    BY <1>3
  <2> QED BY <1>2, <2>1
<1> QED BY <1>3, <1>4

Iterates(g, n, b, op) == g = [k \in 0..n |-> IF k = 0 THEN b ELSE op[k][g[k - 1]]]

\* A recursion of n steps has a solution: step k takes V[k - 1] to V[k].
LEMMA Iteration ==
    ASSUME NEW n \in Nat, NEW V, NEW b, b \in V[0], NEW op,
           \A k \in 1..n : \A v \in V[k - 1] : op[k][v] \in V[k]
    PROVE  \E g : /\ Iterates(g, n, b, op)
                  /\ \A k \in 0..n : g[k] \in V[k]
<1> DEFINE Is(g, m) == /\ Iterates(g, m, b, op)
                       /\ \A k \in 0..m : g[k] \in V[k]
           S == {m \in 0..n : \E g : Is(g, m)}
<1>1. 0 \in S
  <2> DEFINE g == [k \in 0..0 |-> b]
  <2>1. \A k \in 0..0 : k = 0
    OBVIOUS
  <2>2. g = [k \in 0..0 |-> IF k = 0 THEN b ELSE op[k][g[k - 1]]]
    BY <2>1
  <2>3. \A k \in 0..0 : g[k] \in V[k]
    BY <2>1
  <2>4. Is(g, 0)
    BY <2>2, <2>3 DEF Iterates
  <2>5. 0 \in 0..n
    OBVIOUS
  <2> HIDE DEF Is, g
  <2> QED BY <2>4, <2>5
<1>2. ASSUME NEW m \in 0..(n - 1), m \in S PROVE m + 1 \in S
  <2>1. PICK h : Is(h, m)
    BY <1>2
  <2>2. h = [k \in 0..m |-> IF k = 0 THEN b ELSE op[k][h[k - 1]]]
    BY <2>1 DEF Iterates
  <2> DEFINE g == [k \in 0..(m + 1) |-> IF k = m + 1 THEN op[m + 1][h[m]] ELSE h[k]]
  <2>3. g = [k \in 0..(m + 1) |-> IF k = 0 THEN b ELSE op[k][g[k - 1]]]
    <3>1. ASSUME NEW k \in 0..(m + 1)
          PROVE  g[k] = IF k = 0 THEN b ELSE op[k][g[k - 1]]
      <4>1. CASE k = m + 1
        <5>1. k # 0 /\ k - 1 = m /\ m \in 0..(m + 1) /\ m # m + 1
          BY <4>1
        <5> QED BY <4>1, <5>1
      <4>2. CASE k # m + 1
        <5>1. k \in 0..m
          BY <4>2
        <5>2. h[k] = IF k = 0 THEN b ELSE op[k][h[k - 1]]
          BY <5>1, <2>2
        <5>3. k # 0 => k - 1 \in 0..(m + 1) /\ k - 1 # m + 1
          BY <5>1
        <5> QED BY <4>2, <5>2, <5>3
      <4> QED BY <4>1, <4>2
    <3> HIDE DEF Is, S
    <3>2. g = [k \in 0..(m + 1) |-> g[k]]
      OBVIOUS
    <3> QED BY <3>1, <3>2
  <2>4. \A k \in 0..(m + 1) : g[k] \in V[k]
    <3> SUFFICES ASSUME NEW k \in 0..(m + 1) PROVE g[k] \in V[k]
      OBVIOUS
    <3>1. CASE k = m + 1
      <4>1. m \in 0..m /\ (m + 1) - 1 = m /\ m + 1 \in 1..n
        OBVIOUS
      <4>2. h[m] \in V[(m + 1) - 1]
        BY <2>1, <4>1
      <4>3. op[m + 1][h[m]] \in V[m + 1]
        BY <4>1, <4>2
      <4> QED BY <3>1, <4>3
    <3>2. CASE k # m + 1
      <4>1. k \in 0..m
        BY <3>2
      <4> QED BY <2>1, <3>2, <4>1
    <3> QED BY <3>1, <3>2
  <2>5. Is(g, m + 1)
    BY <2>3, <2>4 DEF Iterates
  <2>6. m + 1 \in 0..n
    OBVIOUS
  <2> HIDE DEF Is
  <2> QED BY <2>5, <2>6
<1>3. n \in S
  <2> HIDE DEF S
  <2>1. \A k \in 0..n : k \in S
    BY <1>1, <1>2, UpTo
  <2> QED BY <2>1
<1> QED BY <1>3

\* A recursion written as a function, started at b, whose steps stay in T.
LEMMA Recursion ==
    ASSUME NEW n \in Nat, NEW T, NEW b \in T, NEW op,
           \A k \in 1..n : \A v \in T : op[k][v] \in T
    PROVE  \E g : /\ Iterates(g, n, b, op)
                  /\ \A k \in 0..n : g[k] \in T
<1> DEFINE V == [k \in 0..n |-> T]
<1>1. \A k \in 0..n : V[k] = T
  OBVIOUS
<1>2. b \in V[0]
  OBVIOUS
<1>3. \A k \in 1..n : \A v \in V[k - 1] : op[k][v] \in V[k]
  <2> SUFFICES ASSUME NEW k \in 1..n PROVE \A v \in V[k - 1] : op[k][v] \in V[k]
    OBVIOUS
  <2>1. k \in 0..n /\ k - 1 \in 0..n
    OBVIOUS
  <2> HIDE DEF V
  <2> QED BY <1>1, <2>1
<1> HIDE DEF V
<1>4. PICK g : /\ Iterates(g, n, b, op)
               /\ \A k \in 0..n : g[k] \in V[k]
  BY <1>2, <1>3, Iteration
<1> QED BY <1>1, <1>4

PassOf(g, n, op) == g = [k \in 0..n |-> IF k = 0 THEN <<>> ELSE Append(g[k - 1], op[k][g[k - 1]])]

\* A forward pass of n nodes, whose results are in T.
LEMMA PassExists ==
    ASSUME NEW n \in Nat, NEW T, NEW op,
           \A k \in 1..n : \A v \in [1..(k - 1) -> T] : op[k][v] \in T
    PROVE  \E g : /\ PassOf(g, n, op)
                  /\ \A k \in 0..n : g[k] \in [1..k -> T]
<1> DEFINE V == [k \in 0..n |-> [1..k -> T]]
           step == [k \in 1..n |-> [v \in V[k - 1] |-> Append(v, op[k][v])]]
<1>1. \A k \in 0..n : V[k] = [1..k -> T]
  OBVIOUS
<1>2. <<>> \in V[0]
  OBVIOUS
<1>3. ASSUME NEW k \in 1..n, NEW v \in V[k - 1]
      PROVE  step[k][v] = Append(v, op[k][v]) /\ step[k][v] \in V[k]
  <2>1. k \in 0..n /\ k - 1 \in 0..n /\ k - 1 \in Nat /\ (k - 1) + 1 = k
    OBVIOUS
  <2>2. v \in [1..(k - 1) -> T]
    <3> HIDE DEF V, step
    <3> QED BY <1>1, <1>3, <2>1
  <2>3. op[k][v] \in T
    BY <2>2
  <2>4. step[k][v] = Append(v, op[k][v])
    <3> HIDE DEF V
    <3> QED BY <1>3
  <2>5. Append(v, op[k][v]) \in [1..k -> T]
    <3>1. v \in Seq(T) /\ Len(v) = k - 1
      BY <2>1, <2>2
    <3>2. Append(v, op[k][v]) \in Seq(T) /\ Len(Append(v, op[k][v])) = k
      BY <2>1, <2>3, <3>1
    <3> DEFINE w == Append(v, op[k][v])
    <3> HIDE DEF V, step, w
    <3>3. w \in Seq(T) /\ Len(w) = k
      BY <3>2 DEF w
    <3>4. w \in [1..k -> T]
      BY <3>3
    <3> QED BY <3>4 DEF w
  <2> HIDE DEF V, step
  <2> QED BY <1>1, <2>1, <2>4, <2>5
<1>4. PICK g : /\ Iterates(g, n, <<>>, step)
               /\ \A k \in 0..n : g[k] \in V[k]
  <2> HIDE DEF V, step
  <2>1. \A k \in 1..n : \A v \in V[k - 1] : step[k][v] \in V[k]
    BY <1>3
  <2> QED BY <1>2, <2>1, Iteration
<1>5. g = [k \in 0..n |-> IF k = 0 THEN <<>> ELSE step[k][g[k - 1]]]
  <2> HIDE DEF V, step
  <2> QED BY <1>4 DEF Iterates
<1>6. ASSUME NEW k \in 0..n
      PROVE  g[k] = IF k = 0 THEN <<>> ELSE Append(g[k - 1], op[k][g[k - 1]])
  <2> HIDE DEF V, step
  <2>1. CASE k = 0
    BY <1>5, <2>1
  <2>2. CASE k # 0
    <3>1. k \in 1..n /\ k - 1 \in 0..n
      BY <2>2
    <3>2. g[k - 1] \in V[k - 1]
      BY <1>4, <3>1
    <3>3. step[k][g[k - 1]] = Append(g[k - 1], op[k][g[k - 1]])
      BY <1>3, <3>1, <3>2
    <3> QED BY <1>5, <2>2, <3>3
  <2> QED BY <2>1, <2>2
<1>7. g = [k \in 0..n |-> g[k]]
  <2> HIDE DEF V, step
  <2> QED BY <1>5
<1>8. g = [k \in 0..n |-> IF k = 0 THEN <<>> ELSE Append(g[k - 1], op[k][g[k - 1]])]
  <2> HIDE DEF V, step
  <2> QED BY <1>6, <1>7
<1>9. \A k \in 0..n : g[k] \in [1..k -> T]
  <2> HIDE DEF V, step
  <2> QED BY <1>1, <1>4
<1> QED
  <2> HIDE DEF V, step
  <2> QED BY <1>8, <1>9 DEF PassOf

\* A sequence is a function.
LEMMA SequenceFunction ==
    ASSUME NEW T, NEW s \in Seq(T)
    PROVE  s \in [1..Len(s) -> T]
OBVIOUS

\* One more result.
LEMMA Extension ==
    ASSUME NEW T, NEW m \in Nat, NEW v \in [1..m -> T], NEW x \in T
    PROVE  /\ Append(v, x) \in [1..(m + 1) -> T]
           /\ Append(v, x)[m + 1] = x
           /\ \A j \in 1..m : Append(v, x)[j] = v[j]
<1>1. v \in Seq(T) /\ Len(v) = m
  OBVIOUS
<1>2. Append(v, x) \in Seq(T) /\ Len(Append(v, x)) = m + 1
  BY <1>1
<1>3. Append(v, x) \in [1..Len(Append(v, x)) -> T]
  BY <1>2, SequenceFunction, Zenon
<1>4. Append(v, x)[m + 1] = x /\ \A j \in 1..m : Append(v, x)[j] = v[j]
  BY <1>1
<1>5. Append(v, x) \in [1..(m + 1) -> T]
  BY <1>2, <1>3, Zenon
<1> QED BY <1>4, <1>5

\* A pass never changes a result it has given.
LEMMA PassPrefix ==
    ASSUME NEW n \in Nat, NEW F,
           \A k \in 1..n : \A j \in 1..(k - 1) : F[k][j] = F[k - 1][j]
    PROVE  \A k \in 0..n : \A j \in 1..k : F[n][j] = F[k][j]
<1> DEFINE S == {m \in 0..n : \A k \in 0..m : \A j \in 1..k : F[m][j] = F[k][j]}
<1>1. 0 \in S
  <2>1. \A k \in 0..0 : k = 0
    OBVIOUS
  <2> QED BY <2>1
<1>2. ASSUME NEW m \in 0..(n - 1), m \in S PROVE m + 1 \in S
  <2>1. m + 1 \in 0..n /\ m + 1 \in 1..n /\ (m + 1) - 1 = m
    OBVIOUS
  <2>2. ASSUME NEW k \in 0..(m + 1), NEW j \in 1..k PROVE F[m + 1][j] = F[k][j]
    <3>1. CASE k = m + 1
      BY <3>1
    <3>2. CASE k # m + 1
      <4>1. k \in 0..m /\ j \in 1..((m + 1) - 1)
        BY <3>2
      <4>2. F[m + 1][j] = F[m][j]
        <5> HIDE DEF S
        <5> QED BY <2>1, <4>1
      <4>3. F[m][j] = F[k][j]
        BY <1>2, <4>1
      <4> QED BY <4>2, <4>3
    <3> QED BY <3>1, <3>2
  <2> QED BY <2>1, <2>2
<1>3. n \in S
  <2> HIDE DEF S
  <2>1. \A k \in 0..n : k \in S
    BY <1>1, <1>2, UpTo
  <2> QED BY <2>1
<1> QED BY <1>3

-----------------------------------------------------------------------------
(* The sums of a Serial.                                                   *)

TimingErrors == {"none", "no Atomic Schema", "negative physical duration", "negative loop body",
                 "negative physical interval", "negative opaque duration", "unresolved definition"}
Timings == [duration : Int, logical : Int, frontier : Int, logicalFrontier : Int,
            rewinds : BOOLEAN, error : TimingErrors]
Points == [end : Int, far : Int]
NoTime == Timing(0, 0, 0, 0, FALSE, "none")
NoWay == [end |-> 0, far |-> 0]

\* The steps of SerialTiming.
LEMMA SerialSteps ==
    ASSUME NEW n \in Nat, NEW ts \in [1..n -> Timings]
    PROVE  \E g \in [0..n -> Timings] :
             /\ SerialTiming(ts) = g[n]
             /\ g[0] = NoTime
             /\ \A k \in 1..n : g[k] = Followed(g[k - 1], ts[k])
<1> DEFINE Is(g) == g = [i \in 0..n |-> IF i = 0 THEN NoTime ELSE Followed(g[i - 1], ts[i])]
           op == [k \in 1..n |-> [v \in Timings |-> Followed(v, ts[k])]]
<1>1. Len(ts) = n
  OBVIOUS
<1>2. NoTime \in Timings
  <2>1. FALSE \in BOOLEAN
    BY Zenon
  <2>2. "none" \in TimingErrors
    BY DEF TimingErrors
  <2>3. 0 \in Int
    OBVIOUS
  <2> QED BY <2>1, <2>2, <2>3, Zenon DEF NoTime, Timing, Timings
<1>3. \A v, t \in Timings : Followed(v, t) \in Timings
  BY DEF Followed, Timing, Timings, MaxOf
<1>4. ASSUME NEW k \in 1..n, NEW v \in Timings
      PROVE  op[k][v] = Followed(v, ts[k]) /\ op[k][v] \in Timings
  <2>1. ts[k] \in Timings
    OBVIOUS
  <2> QED BY <1>3, <2>1
<1> HIDE DEF op
<1>5. PICK h : /\ Iterates(h, n, NoTime, op)
               /\ \A k \in 0..n : h[k] \in Timings
  <2>1. \A k \in 1..n : \A v \in Timings : op[k][v] \in Timings
    BY <1>4
  <2> QED BY <1>2, <2>1, Recursion
<1>6. h = [k \in 0..n |-> IF k = 0 THEN NoTime ELSE op[k][h[k - 1]]]
  BY <1>5 DEF Iterates
<1>7. Is(h)
  <2>1. ASSUME NEW k \in 0..n
        PROVE  h[k] = IF k = 0 THEN NoTime ELSE Followed(h[k - 1], ts[k])
    <3>1. CASE k = 0
      BY <1>6, <3>1
    <3>2. CASE k # 0
      <4>1. k \in 1..n /\ k - 1 \in 0..n
        BY <3>2
      <4>2. op[k][h[k - 1]] = Followed(h[k - 1], ts[k])
        BY <1>4, <1>5, <4>1
      <4> QED BY <1>6, <3>2, <4>2
    <3> QED BY <3>1, <3>2
  <2>2. h = [k \in 0..n |-> h[k]]
    BY <1>6
  <2> QED BY <2>1, <2>2
<1> DEFINE g == CHOOSE f : Is(f)
<1>8. Is(g)
  BY <1>7
<1>9. SerialTiming(ts) = g[n]
  BY <1>1 DEF SerialTiming, NoTime
<1> HIDE DEF g
<1>10. g[0] = NoTime /\ \A k \in 1..n : g[k] = Followed(g[k - 1], ts[k])
  BY <1>8
<1>11. \A k \in 0..n : g[k] \in Timings
  <2> DEFINE S == {k \in 0..n : g[k] \in Timings}
  <2>1. 0 \in S
    BY <1>2, <1>10
  <2>2. ASSUME NEW k \in 0..(n - 1), k \in S PROVE k + 1 \in S
    <3>1. k + 1 \in 1..n /\ (k + 1) - 1 = k /\ k + 1 \in 0..n
      OBVIOUS
    <3>2. g[k + 1] = Followed(g[k], ts[k + 1]) /\ ts[k + 1] \in Timings /\ g[k] \in Timings
      BY <1>10, <2>2, <3>1
    <3> QED BY <1>3, <3>1, <3>2
  <2>3. \A k \in 0..n : k \in S
    <3> HIDE DEF S
    <3> QED BY <2>1, <2>2, UpTo
  <2> QED BY <2>3
<1>12. g \in [0..n -> Timings]
  <2>1. g = [k \in 0..n |-> g[k]]
    BY <1>8
  <2> QED BY <1>11, <2>1
<1> QED BY <1>9, <1>10, <1>12

\* The steps of Travel.
LEMMA TravelSteps ==
    ASSUME NEW n \in Nat, NEW parts \in [1..n -> Points]
    PROVE  \E g \in [0..n -> Points] :
             /\ Travel(parts) = g[n]
             /\ g[0] = NoWay
             /\ \A k \in 1..n : g[k] = Go(g[k - 1], parts[k])
<1> DEFINE Is(g) == g = [i \in 0..n |-> IF i = 0 THEN NoWay ELSE Go(g[i - 1], parts[i])]
           op == [k \in 1..n |-> [v \in Points |-> Go(v, parts[k])]]
<1>1. Len(parts) = n
  OBVIOUS
<1>2. NoWay \in Points
  BY DEF NoWay, Points
<1>3. \A v, t \in Points : Go(v, t) \in Points
  BY DEF Go, Points, MaxOf
<1>4. ASSUME NEW k \in 1..n, NEW v \in Points
      PROVE  op[k][v] = Go(v, parts[k]) /\ op[k][v] \in Points
  <2>1. parts[k] \in Points
    OBVIOUS
  <2> QED BY <1>3, <2>1
<1> HIDE DEF op
<1>5. PICK h : /\ Iterates(h, n, NoWay, op)
               /\ \A k \in 0..n : h[k] \in Points
  <2>1. \A k \in 1..n : \A v \in Points : op[k][v] \in Points
    BY <1>4
  <2> QED BY <1>2, <2>1, Recursion
<1>6. h = [k \in 0..n |-> IF k = 0 THEN NoWay ELSE op[k][h[k - 1]]]
  BY <1>5 DEF Iterates
<1>7. Is(h)
  <2>1. ASSUME NEW k \in 0..n
        PROVE  h[k] = IF k = 0 THEN NoWay ELSE Go(h[k - 1], parts[k])
    <3>1. CASE k = 0
      BY <1>6, <3>1
    <3>2. CASE k # 0
      <4>1. k \in 1..n /\ k - 1 \in 0..n
        BY <3>2
      <4>2. op[k][h[k - 1]] = Go(h[k - 1], parts[k])
        BY <1>4, <1>5, <4>1
      <4> QED BY <1>6, <3>2, <4>2
    <3> QED BY <3>1, <3>2
  <2>2. h = [k \in 0..n |-> h[k]]
    BY <1>6
  <2> QED BY <2>1, <2>2
<1> DEFINE g == CHOOSE f : Is(f)
<1>8. Is(g)
  BY <1>7
<1>9. Travel(parts) = g[n]
  BY <1>1 DEF Travel, NoWay
<1> HIDE DEF g
<1>10. g[0] = NoWay /\ \A k \in 1..n : g[k] = Go(g[k - 1], parts[k])
  BY <1>8
<1>11. \A k \in 0..n : g[k] \in Points
  <2> DEFINE S == {k \in 0..n : g[k] \in Points}
  <2>1. 0 \in S
    BY <1>2, <1>10
  <2>2. ASSUME NEW k \in 0..(n - 1), k \in S PROVE k + 1 \in S
    <3>1. k + 1 \in 1..n /\ (k + 1) - 1 = k /\ k + 1 \in 0..n
      OBVIOUS
    <3>2. g[k + 1] = Go(g[k], parts[k + 1]) /\ parts[k + 1] \in Points /\ g[k] \in Points
      BY <1>10, <2>2, <3>1
    <3> QED BY <1>3, <3>1, <3>2
  <2>3. \A k \in 0..n : k \in S
    <3> HIDE DEF S
    <3> QED BY <2>1, <2>2, UpTo
  <2> QED BY <2>3
<1>12. g \in [0..n -> Points]
  <2>1. g = [k \in 0..n |-> g[k]]
    BY <1>8
  <2> QED BY <1>11, <2>1
<1> QED BY <1>9, <1>10, <1>12

\* The steps of Cursor.
LEMMA CursorSteps ==
    ASSUME NEW n \in Nat, NEW amounts \in [1..n -> Int]
    PROVE  \E g \in [0..n -> Int] :
             /\ Cursor(amounts) = g
             /\ g[0] = 0
             /\ \A k \in 1..n : g[k] = g[k - 1] + amounts[k]
<1> DEFINE Is(g) == g = [i \in 0..n |-> IF i = 0 THEN 0 ELSE g[i - 1] + amounts[i]]
           op == [k \in 1..n |-> [v \in Int |-> v + amounts[k]]]
<1>1. Len(amounts) = n
  OBVIOUS
<1>2. 0 \in Int
  OBVIOUS
<1>3. \A v, t \in Int : v + t \in Int
  OBVIOUS
<1>4. ASSUME NEW k \in 1..n, NEW v \in Int
      PROVE  op[k][v] = v + amounts[k] /\ op[k][v] \in Int
  <2>1. amounts[k] \in Int
    OBVIOUS
  <2> QED BY <1>3, <2>1
<1> HIDE DEF op
<1>5. PICK h : /\ Iterates(h, n, 0, op)
               /\ \A k \in 0..n : h[k] \in Int
  <2>1. \A k \in 1..n : \A v \in Int : op[k][v] \in Int
    BY <1>4
  <2> QED BY <1>2, <2>1, Recursion
<1>6. h = [k \in 0..n |-> IF k = 0 THEN 0 ELSE op[k][h[k - 1]]]
  BY <1>5 DEF Iterates
<1>7. Is(h)
  <2>1. ASSUME NEW k \in 0..n
        PROVE  h[k] = IF k = 0 THEN 0 ELSE h[k - 1] + amounts[k]
    <3>1. CASE k = 0
      BY <1>6, <3>1
    <3>2. CASE k # 0
      <4>1. k \in 1..n /\ k - 1 \in 0..n
        BY <3>2
      <4>2. op[k][h[k - 1]] = h[k - 1] + amounts[k]
        BY <1>4, <1>5, <4>1
      <4> QED BY <1>6, <3>2, <4>2
    <3> QED BY <3>1, <3>2
  <2>2. h = [k \in 0..n |-> h[k]]
    BY <1>6
  <2> QED BY <2>1, <2>2
<1> DEFINE g == CHOOSE f : Is(f)
<1>8. Is(g)
  BY <1>7
<1>9. Cursor(amounts) = g
  BY <1>1 DEF Cursor
<1> HIDE DEF g
<1>10. g[0] = 0 /\ \A k \in 1..n : g[k] = g[k - 1] + amounts[k]
  BY <1>8
<1>11. \A k \in 0..n : g[k] \in Int
  <2> DEFINE S == {k \in 0..n : g[k] \in Int}
  <2>1. 0 \in S
    BY <1>2, <1>10
  <2>2. ASSUME NEW k \in 0..(n - 1), k \in S PROVE k + 1 \in S
    <3>1. k + 1 \in 1..n /\ (k + 1) - 1 = k /\ k + 1 \in 0..n
      OBVIOUS
    <3>2. g[k + 1] = g[k] + amounts[k + 1] /\ amounts[k + 1] \in Int /\ g[k] \in Int
      BY <1>10, <2>2, <3>1
    <3> QED BY <1>3, <3>1, <3>2
  <2>3. \A k \in 0..n : k \in S
    <3> HIDE DEF S
    <3> QED BY <2>1, <2>2, UpTo
  <2> QED BY <2>3
<1>12. g \in [0..n -> Int]
  <2>1. g = [k \in 0..n |-> g[k]]
    BY <1>8
  <2> QED BY <1>11, <2>1
<1> QED BY <1>9, <1>10, <1>12

-----------------------------------------------------------------------------
(* The arms of analyze_timing.                                             *)

\* Finitely many numbers have a largest one, and Max gives it.
LEMMA Largest ==
    ASSUME NEW n \in Nat \ {0}, NEW f \in [1..n -> Int], NEW values, values = {f[j] : j \in 1..n}
    PROVE  /\ Max(values) \in Int
           /\ Max(values) \in values
           /\ \A i \in 1..n : f[i] <= Max(values)
<1> DEFINE S == {m \in 0..(n - 1) : \E x \in 1..(m + 1) : \A i \in 1..(m + 1) : f[i] <= f[x]}
<1>1. 0 \in S
  <2>1. \A i \in 1..(0 + 1) : i = 1
    OBVIOUS
  <2>2. f[1] <= f[1] /\ 1 \in 1..(0 + 1)
    OBVIOUS
  <2>3. \E x \in 1..(0 + 1) : \A i \in 1..(0 + 1) : f[i] <= f[x]
    BY <2>1, <2>2
  <2> QED BY <2>3
<1>2. ASSUME NEW m \in 0..((n - 1) - 1), m \in S PROVE m + 1 \in S
  <2>1. PICK x \in 1..(m + 1) : \A i \in 1..(m + 1) : f[i] <= f[x]
    BY <1>2
  <2>2. m + 2 \in 1..n /\ x \in 1..n /\ \A i \in 1..((m + 1) + 1) : i \in 1..(m + 1) \/ i = m + 2
    OBVIOUS
  <2>3. \A i \in 1..(m + 1) : i \in 1..n /\ f[i] \in Int
    OBVIOUS
  <2>4. CASE f[m + 2] <= f[x]
    <3>1. \A i \in 1..((m + 1) + 1) : f[i] <= f[x]
      BY <2>1, <2>2, <2>4
    <3>2. x \in 1..((m + 1) + 1) /\ m + 1 \in 0..(n - 1)
      OBVIOUS
    <3> QED BY <3>1, <3>2
  <2>5. CASE ~(f[m + 2] <= f[x])
    <3>1. \A i \in 1..(m + 1) : f[i] <= f[m + 2]
      BY <2>1, <2>2, <2>3, <2>5
    <3>2. f[m + 2] <= f[m + 2] /\ m + 2 \in 1..((m + 1) + 1)
      BY <2>2
    <3> QED BY <2>2, <3>1, <3>2
  <2> QED BY <2>4, <2>5
<1>3. n - 1 \in S
  <2> HIDE DEF S
  <2>1. \A k \in 0..(n - 1) : k \in S
    <3>1. n - 1 \in Nat
      OBVIOUS
    <3> QED BY <1>1, <1>2, <3>1, UpTo
  <2> QED BY <2>1
<1>4. PICK x \in 1..n : \A i \in 1..n : f[i] <= f[x]
  BY <1>3
<1> HIDE DEF S
<1>5. f[x] \in values /\ \A y \in values : f[x] >= y
  <2>1. \A i \in 1..n : f[x] >= f[i]
    BY <1>4
  <2> QED BY <2>1
<1>6. Max(values) \in values /\ \A y \in values : Max(values) >= y
  BY <1>5, Zenon DEF Max
<1>7. values \subseteq Int
  OBVIOUS
<1>8. \A i \in 1..n : f[i] <= Max(values)
  <2>1. \A i \in 1..n : f[i] \in values
    OBVIOUS
  <2> QED BY <1>6, <1>7, <2>1
<1> QED BY <1>6, <1>7, <1>8

\* What a timing is made of.
LEMMA TimingRecord ==
    ASSUME NEW a \in Int, NEW b \in Int, NEW c \in Int, NEW d \in Int, NEW r \in BOOLEAN,
           NEW e \in TimingErrors
    PROVE  Timing(a, b, c, d, r, e) \in Timings
BY Zenon DEF Timing, Timings

\* Failures and exact durations are timings.
LEMMA SimpleTimings ==
    /\ \A e \in TimingErrors : Failed(e) \in Timings
    /\ \A d \in Int : Exact(d) \in Timings
<1>1. FALSE \in BOOLEAN
  BY Zenon
<1>2. "none" \in TimingErrors
  BY DEF TimingErrors
<1>3. ASSUME NEW e \in TimingErrors PROVE Failed(e) \in Timings
  <2>1. 0 \in Int
    OBVIOUS
  <2> QED BY <1>1, <2>1, TimingRecord DEF Failed
<1>4. ASSUME NEW d \in Int PROVE Exact(d) \in Timings
  <2>1. MaxOf(d, 0) \in Int
    BY DEF MaxOf
  <2>2. (d < 0) \in BOOLEAN
    OBVIOUS
  <2> QED BY <1>2, <2>1, <2>2, TimingRecord DEF Exact
<1> QED BY <1>3, <1>4

\* A loop's timing, by whether its body rewinds.
LEMMA LoopArm ==
    ASSUME NEW body \in Timings, NEW count \in Nat \ {0}
    PROVE  /\ LoopTimingOf(body, count) \in Timings
           /\ LoopTimingOf(body, count).error = "none" =>
                /\ LoopTimingOf(body, count).logical = body.logical * count
                /\ LoopTimingOf(body, count).rewinds = body.rewinds
                /\ LoopTimingOf(body, count).logicalFrontier =
                     IF body.rewinds
                     THEN (IF body.logical >= 0 THEN body.logical * (count - 1) ELSE 0)
                          + body.logicalFrontier
                     ELSE MaxOf(body.logical * count, 0)
<1>1. /\ body.duration \in Int /\ body.logical \in Int /\ body.frontier \in Int
      /\ body.logicalFrontier \in Int /\ body.rewinds \in BOOLEAN
  BY DEF Timings
<1>2. {FixedOverhead, LoopIterationOverhead(count)} \subseteq Int
  BY TimingAssumption DEF LoopIterationOverhead
<1>3. "none" \in TimingErrors /\ "negative loop body" \in TimingErrors /\ "negative loop body" # "none"
  BY DEF TimingErrors
<1>4. TRUE \in BOOLEAN /\ FALSE \in BOOLEAN
  BY Zenon
<1>5. \A x, y \in Int : x * y \in Int /\ x + y \in Int
  OBVIOUS
<1> DEFINE Repeated(delta, frontier) == (IF delta >= 0 THEN delta * (count - 1) ELSE 0) + frontier
           hardware == FixedOverhead + (body.duration + LoopIterationOverhead(count)) * count
           L == LoopTimingOf(body, count)
<1>6. CASE body.rewinds
  <2> DEFINE R == Timing(body.duration * count, body.logical * count,
                         Repeated(body.duration, body.frontier),
                         Repeated(body.logical, body.logicalFrontier), TRUE, "none")
  <2>1. L = R
    <3>1. (IF count = 0 THEN 0 ELSE count - 1) = count - 1
      OBVIOUS
    <3> QED BY <1>6, <3>1, Zenon DEF LoopTimingOf
  <2>2. \A x, y \in Int : Repeated(x, y) \in Int
    OBVIOUS
  <2> HIDE DEF Repeated
  <2>3. R \in Timings
    <3>1. body.duration * count \in Int /\ body.logical * count \in Int
      BY <1>1, <1>5
    <3>2. /\ Repeated(body.duration, body.frontier) \in Int
          /\ Repeated(body.logical, body.logicalFrontier) \in Int
      BY <1>1, <2>2, Zenon
    <3> QED BY <1>3, <1>4, <3>1, <3>2, TimingRecord, Zenon
  <2>4. R.logical = body.logical * count /\ R.rewinds = TRUE
        /\ R.logicalFrontier = Repeated(body.logical, body.logicalFrontier)
    BY DEF Timing
  <2> HIDE DEF R, L
  <2>5. body.rewinds = TRUE
    BY <1>1, <1>6
  <2> QED BY <1>6, <2>1, <2>3, <2>4, <2>5 DEF L, Repeated
<1>7. CASE ~body.rewinds /\ body.duration < 0
  <2>1. L = Failed("negative loop body")
    BY <1>7, Zenon DEF LoopTimingOf
  <2>2. L \in Timings /\ L.error # "none"
    <3>1. Failed("negative loop body").error = "negative loop body"
      BY DEF Failed, Timing
    <3> HIDE DEF L
    <3> QED BY <1>3, <2>1, <3>1, SimpleTimings, Zenon
  <2> QED BY <2>2
<1>8. CASE ~body.rewinds /\ ~(body.duration < 0)
  <2> DEFINE R == Timing(hardware, body.logical * count, hardware,
                         MaxOf(body.logical * count, 0), FALSE, "none")
  <2>1. L = R
    BY <1>8, Zenon DEF LoopTimingOf
  <2>2. hardware \in Int
    BY <1>1, <1>2, <1>5
  <2>3. MaxOf(body.logical * count, 0) \in Int
    BY <1>1, <1>5 DEF MaxOf
  <2> HIDE DEF hardware
  <2>4. R \in Timings
    <3>1. body.logical * count \in Int
      BY <1>1, <1>5
    <3> QED BY <1>3, <1>4, <2>2, <2>3, <3>1, TimingRecord, Zenon
  <2>5. R.logical = body.logical * count /\ R.rewinds = FALSE
        /\ R.logicalFrontier = MaxOf(body.logical * count, 0)
    BY DEF Timing
  <2> HIDE DEF R, L
  <2>6. body.rewinds = FALSE
    BY <1>1, <1>8
  <2> QED BY <1>8, <2>1, <2>4, <2>5, <2>6 DEF L
<1> QED BY <1>6, <1>7, <1>8

-----------------------------------------------------------------------------
(* An arm of analyze_timing follows the cursor of the program.             *)

\* The timing t of a node gives the end and the furthest point r of its cursor;
\* a node that does not rewind ends at its furthest point.
Agree(t, r) ==
    /\ r.end = t.logical /\ r.far = t.logicalFrontier
    /\ t.logicalFrontier >= 0 /\ t.logicalFrontier >= t.logical
    /\ ~t.rewinds => t.logicalFrontier = t.logical

\* One more child of a Serial.
LEMMA FollowedAgrees ==
    ASSUME NEW a \in Timings, NEW t \in Timings, NEW p \in Points, NEW r \in Points,
           Agree(a, p), Agree(t, r)
    PROVE  Agree(Followed(a, t), Go(p, r))
<1>1. /\ Followed(a, t).logical = a.logical + t.logical
      /\ Followed(a, t).logicalFrontier = MaxOf(a.logicalFrontier, a.logical + t.logicalFrontier)
      /\ Followed(a, t).rewinds = (a.rewinds \/ t.rewinds)
  BY Zenon DEF Followed, Timing
<1>2. /\ Go(p, r).end = p.end + r.end
      /\ Go(p, r).far = MaxOf(p.far, p.end + r.far)
  BY DEF Go
<1>3. /\ a.logical \in Int /\ t.logical \in Int /\ a.logicalFrontier \in Int
      /\ t.logicalFrontier \in Int
  BY DEF Timings
<1>4. ~Followed(a, t).rewinds => ~a.rewinds /\ ~t.rewinds
  BY <1>1
<1>5. ~Followed(a, t).rewinds => a.logicalFrontier = a.logical /\ t.logicalFrontier = t.logical
  BY <1>4 DEF Agree
<1>6. /\ a.logicalFrontier >= 0 /\ a.logicalFrontier >= a.logical
      /\ t.logicalFrontier >= 0 /\ t.logicalFrontier >= t.logical
  BY DEF Agree
<1> DEFINE far == MaxOf(a.logicalFrontier, a.logical + t.logicalFrontier)
<1>7. /\ far >= 0 /\ far >= a.logical + t.logical
      /\ (a.logicalFrontier = a.logical /\ t.logicalFrontier = t.logical)
           => far = a.logical + t.logical
  BY <1>3, <1>6 DEF MaxOf
<1>8. Go(p, r).end = a.logical + t.logical /\ Go(p, r).far = far
  BY <1>2 DEF Agree
<1> HIDE DEF far
<1>9. Followed(a, t).logicalFrontier = far
  BY <1>1 DEF far
<1> QED BY <1>1, <1>5, <1>7, <1>8, <1>9 DEF Agree

\* The Serial arm.
LEMMA SerialAgrees ==
    ASSUME NEW n \in Nat, NEW ts \in [1..n -> Timings], NEW rs \in [1..n -> Points],
           \A i \in 1..n : Agree(ts[i], rs[i])
    PROVE  /\ SerialTiming(ts) \in Timings /\ Travel(rs) \in Points
           /\ Agree(SerialTiming(ts), Travel(rs))
<1>1. PICK g \in [0..n -> Timings] :
             /\ SerialTiming(ts) = g[n]
             /\ g[0] = NoTime
             /\ \A k \in 1..n : g[k] = Followed(g[k - 1], ts[k])
  BY SerialSteps
<1>2. PICK h \in [0..n -> Points] :
             /\ Travel(rs) = h[n]
             /\ h[0] = NoWay
             /\ \A k \in 1..n : h[k] = Go(h[k - 1], rs[k])
  BY TravelSteps
<1> DEFINE S == {k \in 0..n : Agree(g[k], h[k])}
<1>3. 0 \in S
  BY <1>1, <1>2 DEF Agree, NoTime, NoWay, Timing
<1>4. ASSUME NEW k \in 0..(n - 1), k \in S PROVE k + 1 \in S
  <2>1. k + 1 \in 1..n /\ (k + 1) - 1 = k /\ k + 1 \in 0..n /\ k \in 0..n
    OBVIOUS
  <2>2. g[k + 1] = Followed(g[k], ts[k + 1]) /\ h[k + 1] = Go(h[k], rs[k + 1])
    BY <1>1, <1>2, <2>1
  <2>3. Agree(g[k], h[k]) /\ Agree(ts[k + 1], rs[k + 1])
    BY <1>4, <2>1
  <2>4. g[k] \in Timings /\ h[k] \in Points /\ ts[k + 1] \in Timings /\ rs[k + 1] \in Points
    BY <2>1
  <2>5. Agree(g[k + 1], h[k + 1])
    BY <2>2, <2>3, <2>4, FollowedAgrees
  <2> QED BY <2>1, <2>5
<1>5. n \in S
  <2> HIDE DEF S
  <2>1. \A k \in 0..n : k \in S
    BY <1>3, <1>4, UpTo
  <2> QED BY <2>1
<1> QED BY <1>1, <1>2, <1>5

\* The Parallel arm gives a timing.
LEMMA ParallelTyped ==
    ASSUME NEW n \in Nat \ {0}, NEW ts \in [1..n -> Timings]
    PROVE  ParallelTiming(ts) \in Timings
<1> DEFINE ds == [i \in 1..n |-> ts[i].duration]
           ls == [i \in 1..n |-> ts[i].logical]
           fs == [i \in 1..n |-> ts[i].frontier]
           gs == [i \in 1..n |-> ts[i].logicalFrontier]
           DS == {ts[i].duration : i \in 1..n}
           LS == {ts[i].logical : i \in 1..n}
           FS == {ts[i].frontier : i \in 1..n}
           GS == {ts[i].logicalFrontier : i \in 1..n}
           R == \E i \in DOMAIN ts : ts[i].rewinds
<1>1. \A i \in 1..n : /\ ts[i].duration \in Int /\ ts[i].logical \in Int /\ ts[i].frontier \in Int
                      /\ ts[i].logicalFrontier \in Int
  BY DEF Timings
<1>2. /\ ds \in [1..n -> Int] /\ ls \in [1..n -> Int] /\ fs \in [1..n -> Int] /\ gs \in [1..n -> Int]
  BY <1>1
<1>3. /\ DS = {ds[i] : i \in 1..n} /\ LS = {ls[i] : i \in 1..n}
      /\ FS = {fs[i] : i \in 1..n} /\ GS = {gs[i] : i \in 1..n}
  OBVIOUS
<1>4. ParallelTiming(ts) = Timing(Max(DS), Max(LS), Max(FS), Max(GS), R, "none")
  BY DEF ParallelTiming
<1>5. R \in BOOLEAN
  BY Zenon
<1> HIDE DEF ds, ls, fs, gs, DS, LS, FS, GS, R
<1>6. Max(DS) \in Int
  BY <1>2, <1>3, Largest
<1>7. Max(LS) \in Int
  BY <1>2, <1>3, Largest
<1>8. Max(FS) \in Int
  BY <1>2, <1>3, Largest
<1>9. Max(GS) \in Int
  BY <1>2, <1>3, Largest
<1>10. "none" \in TimingErrors
  BY DEF TimingErrors
<1>11. Timing(Max(DS), Max(LS), Max(FS), Max(GS), R, "none") \in Timings
  BY <1>5, <1>6, <1>7, <1>8, <1>9, <1>10, TimingRecord
<1> QED BY <1>4, <1>11

\* The Parallel arm.
LEMMA ParallelAgrees ==
    ASSUME NEW n \in Nat \ {0}, NEW ts \in [1..n -> Timings], NEW rs \in [1..n -> Points],
           \A i \in 1..n : Agree(ts[i], rs[i])
    PROVE  LET r == [end |-> Max({rs[i].end : i \in 1..n}), far |-> Max({rs[i].far : i \in 1..n})]
           IN  /\ ParallelTiming(ts) \in Timings /\ r \in Points
               /\ Agree(ParallelTiming(ts), r)
<1> DEFINE ds == [i \in 1..n |-> ts[i].duration]
           ls == [i \in 1..n |-> ts[i].logical]
           fs == [i \in 1..n |-> ts[i].frontier]
           gs == [i \in 1..n |-> ts[i].logicalFrontier]
           DS == {ts[i].duration : i \in 1..n}
           D == Max(DS)
           LS == {ts[i].logical : i \in 1..n}
           L == Max(LS)
           FS == {ts[i].frontier : i \in 1..n}
           F == Max(FS)
           GS == {ts[i].logicalFrontier : i \in 1..n}
           G == Max(GS)
           R == \E i \in DOMAIN ts : ts[i].rewinds
           P == ParallelTiming(ts)
<1>1. \A i \in 1..n : /\ ts[i].duration \in Int /\ ts[i].logical \in Int /\ ts[i].frontier \in Int
                      /\ ts[i].logicalFrontier \in Int /\ ts[i].rewinds \in BOOLEAN
  BY DEF Timings
<1>2. /\ ds \in [1..n -> Int] /\ ls \in [1..n -> Int] /\ fs \in [1..n -> Int] /\ gs \in [1..n -> Int]
  BY <1>1
<1>3. /\ DS = {ds[i] : i \in 1..n} /\ LS = {ls[i] : i \in 1..n}
      /\ FS = {fs[i] : i \in 1..n} /\ GS = {gs[i] : i \in 1..n}
  OBVIOUS
<1>4. D \in Int /\ F \in Int
  <2> HIDE DEF ds, fs, DS, FS
  <2> QED BY <1>2, <1>3, Largest
<1>5. L \in Int /\ (\E i \in 1..n : L = ls[i]) /\ (\A i \in 1..n : ls[i] <= L)
  <2> HIDE DEF ls, LS
  <2>1. Max(LS) \in Int
    BY <1>2, <1>3, Largest
  <2>2. Max(LS) \in LS
    BY <1>2, <1>3, Largest
  <2>3. \E i \in 1..n : Max(LS) = ls[i]
    BY <1>3, <2>2
  <2>4. \A i \in 1..n : ls[i] <= Max(LS)
    BY <1>2, <1>3, Largest
  <2> QED BY <2>1, <2>3, <2>4
<1>6. G \in Int /\ (\E i \in 1..n : G = gs[i]) /\ (\A i \in 1..n : gs[i] <= G)
  <2> HIDE DEF gs, GS
  <2>1. Max(GS) \in Int
    BY <1>2, <1>3, Largest
  <2>2. Max(GS) \in GS
    BY <1>2, <1>3, Largest
  <2>3. \E i \in 1..n : Max(GS) = gs[i]
    BY <1>3, <2>2
  <2>4. \A i \in 1..n : gs[i] <= Max(GS)
    BY <1>2, <1>3, Largest
  <2> QED BY <2>1, <2>3, <2>4
<1>7. P = Timing(D, L, F, G, R, "none")
  BY DEF ParallelTiming
<1>8. {rs[i].end : i \in 1..n} = LS /\ {rs[i].far : i \in 1..n} = GS
  <2>1. \A i \in 1..n : rs[i].end = ts[i].logical /\ rs[i].far = ts[i].logicalFrontier
    BY DEF Agree
  <2> QED BY <2>1
<1>9. /\ \A i \in 1..n : ls[i] = ts[i].logical /\ gs[i] = ts[i].logicalFrontier
      /\ \A i \in 1..n : gs[i] >= 0 /\ gs[i] >= ls[i]
  BY DEF Agree
<1>10. ~R => \A i \in 1..n : gs[i] = ls[i]
  BY <1>9 DEF Agree
<1>11. \A i \in 1..n : gs[i] \in Int /\ ls[i] \in Int
  BY <1>2
<1> HIDE DEF ds, ls, fs, gs, DS, LS, FS, GS, D, L, F, G, R, P
<1>12. G >= 0 /\ G >= L
  BY <1>5, <1>6, <1>9, <1>11
<1>13. ~R => G = L
  BY <1>5, <1>6, <1>10, <1>11
<1>14. R \in BOOLEAN
  BY Zenon DEF R
<1>15. "none" \in TimingErrors
  BY DEF TimingErrors
<1>16. P \in Timings
  BY <1>4, <1>5, <1>6, <1>7, <1>14, <1>15, TimingRecord, Zenon
<1>17. P.logical = L /\ P.logicalFrontier = G /\ P.rewinds = R
  BY <1>7, Zenon DEF Timing
<1> DEFINE r == [end |-> Max({rs[i].end : i \in 1..n}), far |-> Max({rs[i].far : i \in 1..n})]
<1>18. r.end = L /\ r.far = G /\ r \in Points
  BY <1>5, <1>6, <1>8 DEF L, G, Points
<1> HIDE DEF r
<1>19. Agree(P, r)
  BY <1>12, <1>13, <1>17, <1>18 DEF Agree
<1> QED BY <1>16, <1>18, <1>19 DEF P, r

\* Multiplication by a count.
LEMMA Products ==
    /\ \A e \in Int, k \in Int : e * (k + 1) = e * k + e
    /\ \A e \in Int, k \in Nat : e >= 0 => e * k >= 0
    /\ \A e \in Int, k \in Nat : e <= 0 => e * k <= 0
    /\ \A e \in Int, k \in Int : e * k \in Int
    /\ \A e \in Int : e * 0 = 0
<1>1. \A e \in Int, k \in Int : e * (k + 1) = e * k + e
  OBVIOUS
<1>2. \A e \in Int, k \in Nat : e >= 0 => e * k >= 0
  OBVIOUS
<1>3. \A e \in Int, k \in Nat : e <= 0 => e * k <= 0
  OBVIOUS
<1>4. \A e \in Int, k \in Int : e * k \in Int
  OBVIOUS
<1>5. \A e \in Int : e * 0 = 0
  OBVIOUS
<1> QED BY <1>1, <1>2, <1>3, <1>4, <1>5

\* The furthest point of k iterations (repeated_frontier).
FarAfter(e, f, k) == IF k = 0 THEN 0 ELSE (IF e >= 0 THEN e * (k - 1) ELSE 0) + f

\* One more iteration.
LEMMA FarAfterStep ==
    ASSUME NEW e \in Int, NEW f \in Int, NEW k \in Nat, f >= 0, f >= e
    PROVE  MaxOf(FarAfter(e, f, k), e * k + f) = FarAfter(e, f, k + 1)
<1>1. (k + 1) - 1 = k /\ k + 1 # 0
  OBVIOUS
<1> DEFINE p == e * k
           q == e * (k - 1)
<1>2. FarAfter(e, f, k + 1) = (IF e >= 0 THEN p ELSE 0) + f
  BY <1>1 DEF FarAfter
<1>3. p \in Int /\ q \in Int /\ (e <= 0 => p <= 0) /\ (k = 0 => p = 0) /\ p = q + e
  <2>1. k - 1 \in Int /\ (k - 1) + 1 = k
    OBVIOUS
  <2>2. p = q + e
    BY <2>1, Products
  <2> QED BY <2>1, <2>2, Products
<1>4. FarAfter(e, f, k) = IF k = 0 THEN 0 ELSE (IF e >= 0 THEN q ELSE 0) + f
  BY DEF FarAfter
<1> HIDE DEF p, q
<1>5. MaxOf(FarAfter(e, f, k), p + f) = (IF e >= 0 THEN p ELSE 0) + f
  BY <1>3, <1>4 DEF MaxOf
<1> QED BY <1>2, <1>5 DEF p

\* Where the cursor is after the iterations of a loop.
LEMMA LoopTravel ==
    ASSUME NEW count \in Nat, NEW r \in Points, r.far >= 0, r.far >= r.end
    PROVE  LET parts == [i \in 1..count |-> r]
           IN  /\ Travel(parts) \in Points
               /\ Travel(parts).end = r.end * count
               /\ Travel(parts).far = FarAfter(r.end, r.far, count)
<1> DEFINE parts == [i \in 1..count |-> r]
<1>1. parts \in [1..count -> Points] /\ \A i \in 1..count : parts[i] = r
  OBVIOUS
<1> HIDE DEF parts
<1>2. PICK h \in [0..count -> Points] :
             /\ Travel(parts) = h[count]
             /\ h[0] = NoWay
             /\ \A k \in 1..count : h[k] = Go(h[k - 1], parts[k])
  BY <1>1, TravelSteps
<1>3. r.end \in Int /\ r.far \in Int
  BY DEF Points
<1> DEFINE S == {k \in 0..count : h[k].end = r.end * k /\ h[k].far = FarAfter(r.end, r.far, k)}
<1>4. 0 \in S
  BY <1>2, <1>3, Products DEF NoWay, FarAfter
<1>5. ASSUME NEW k \in 0..(count - 1), k \in S PROVE k + 1 \in S
  <2>1. k + 1 \in 1..count /\ (k + 1) - 1 = k /\ k + 1 \in 0..count /\ k \in Nat
    OBVIOUS
  <2>2. h[k + 1] = Go(h[k], r)
    BY <1>1, <1>2, <2>1
  <2>3. h[k].end = r.end * k /\ h[k].far = FarAfter(r.end, r.far, k)
    BY <1>5
  <2>4. /\ h[k + 1].end = r.end * k + r.end
        /\ h[k + 1].far = MaxOf(FarAfter(r.end, r.far, k), r.end * k + r.far)
    BY <2>2, <2>3 DEF Go
  <2>5. h[k + 1].end = r.end * (k + 1)
    <3>1. k \in Int
      BY <2>1
    <3>2. r.end * (k + 1) = r.end * k + r.end
      BY <1>3, <3>1, Products, Zenon
    <3> QED BY <2>4, <3>2, Zenon
  <2>6. h[k + 1].far = FarAfter(r.end, r.far, k + 1)
    BY <1>3, <2>1, <2>4, FarAfterStep
  <2> QED BY <2>1, <2>5, <2>6
<1>6. count \in S
  <2> HIDE DEF S
  <2>1. \A k \in 0..count : k \in S
    BY <1>4, <1>5, UpTo
  <2> QED BY <2>1
<1>7. /\ Travel(parts) \in Points
      /\ Travel(parts).end = r.end * count
      /\ Travel(parts).far = FarAfter(r.end, r.far, count)
  BY <1>2, <1>6
<1> QED BY <1>7 DEF parts

\* The Loop arm.
LEMMA LoopAgrees ==
    ASSUME NEW body \in Timings, NEW r \in Points, Agree(body, r), NEW count \in Nat \ {0},
           LoopTimingOf(body, count).error = "none"
    PROVE  LET parts == [i \in 1..count |-> r]
           IN  Travel(parts) \in Points /\ Agree(LoopTimingOf(body, count), Travel(parts))
<1> DEFINE parts == [i \in 1..count |-> r]
           e == body.logical
           f == body.logicalFrontier
           L == LoopTimingOf(body, count)
<1>1. e \in Int /\ f \in Int /\ f >= 0 /\ f >= e /\ r.end = e /\ r.far = f
      /\ (~body.rewinds => f = e)
  BY DEF Timings, Agree
<1>2. /\ L.logical = e * count
      /\ L.rewinds = body.rewinds
      /\ L.logicalFrontier = IF body.rewinds
                             THEN (IF e >= 0 THEN e * (count - 1) ELSE 0) + f
                             ELSE MaxOf(e * count, 0)
  BY LoopArm
<1>3. /\ Travel(parts) \in Points
      /\ Travel(parts).end = e * count
      /\ Travel(parts).far = FarAfter(e, f, count)
  <2>1. count \in Nat /\ r.far >= 0 /\ r.far >= r.end
    BY <1>1
  <2> HIDE DEF e, f
  <2>2. /\ Travel(parts) \in Points
        /\ Travel(parts).end = r.end * count
        /\ Travel(parts).far = FarAfter(r.end, r.far, count)
    BY <2>1, LoopTravel
  <2> QED BY <1>1, <2>2
<1> DEFINE p == e * count
           q == e * (count - 1)
<1>4. p \in Int /\ q \in Int /\ p = q + e /\ (e <= 0 => p <= 0) /\ (e >= 0 => q >= 0 /\ p >= 0)
  <2>1. count - 1 \in Nat /\ (count - 1) + 1 = count /\ count \in Nat
    OBVIOUS
  <2> HIDE DEF e
  <2>2. p = q + e
    BY <1>1, <2>1, Products
  <2> QED BY <1>1, <2>1, <2>2, Products
<1>5. FarAfter(e, f, count) = (IF e >= 0 THEN q ELSE 0) + f
  BY DEF FarAfter
<1> HIDE DEF p, q, e, f, L, parts
<1>6. CASE body.rewinds
  <2>1. L.logicalFrontier = (IF e >= 0 THEN q ELSE 0) + f
    BY <1>2, <1>6 DEF q
  <2>2. L.logicalFrontier >= 0 /\ L.logicalFrontier >= p
    BY <1>1, <1>4, <2>1
  <2>3. L.rewinds
    BY <1>2, <1>6
  <2>4. Travel(parts).end = L.logical /\ Travel(parts).far = L.logicalFrontier /\ L.logical = p
    BY <1>2, <1>3, <1>5, <2>1 DEF p
  <2> QED BY <1>3, <2>2, <2>3, <2>4 DEF Agree, L, parts
<1>7. CASE ~body.rewinds
  <2>1. L.logicalFrontier = MaxOf(p, 0)
    BY <1>2, <1>7 DEF p
  <2>2. f = e /\ e >= 0
    BY <1>1, <1>7
  <2>3. L.logicalFrontier = p /\ p >= 0 /\ FarAfter(e, f, count) = p
    BY <1>1, <1>4, <1>5, <2>1, <2>2 DEF MaxOf
  <2>4. L.logical = p /\ Travel(parts).end = p
    BY <1>2, <1>3 DEF p
  <2> QED BY <1>3, <1>4, <2>3, <2>4 DEF Agree, L, parts
<1> QED BY <1>6, <1>7

-----------------------------------------------------------------------------
(* The passes over a program.                                              *)

\* What a pass has when it comes to node id.
Earlier(d, id, T) == \A j \in 1..(id - 1) : d[j] \in T
SameBefore(d, e, id) == \A j \in 1..(id - 1) : d[j] = e[j]

\* The children of a composition, and their results.
LEMMA ChildResults ==
    ASSUME NEW id \in Nat, NEW n, LinkedNode(n, id), n.kind \in {"Serial", "Parallel"},
           NEW d, NEW T, Earlier(d, id, T)
    PROVE  /\ Len(n.children) \in Nat \ {0}
           /\ [i \in 1..Len(n.children) |-> d[n.children[i]]] \in [1..Len(n.children) -> T]
           /\ \A i \in 1..Len(n.children) : n.children[i] \in 1..(id - 1)
<1>1. /\ Len(n.children) \in Nat \ {0} /\ DOMAIN n.children = 1..Len(n.children)
      /\ \A i \in DOMAIN n.children : n.children[i] \in 1..(id - 1)
  BY DEF LinkedNode
<1>2. \A i \in 1..Len(n.children) : d[n.children[i]] \in T
  BY <1>1 DEF Earlier
<1> QED BY <1>1, <1>2

\* Atomic operations take a fixed time that is not negative, or fail.
LEMMA AtomicArm ==
    ASSUME NEW n, n.d \in Int, n.hard \in BOOLEAN
    PROVE  /\ AtomicTiming(n) \in Timings
           /\ AtomicTiming(n).error = "none" =>
                \E d \in Nat : AtomicTiming(n) = Exact(d)
<1>1. HardInitCycles \in Nat
  BY TimingAssumption
<1>2. "no Atomic Schema" \in TimingErrors /\ "negative physical duration" \in TimingErrors
  BY DEF TimingErrors
<1>3. \A e \in TimingErrors : Failed(e).error = e
  BY DEF Failed, Timing
<1>4. CASE n.op \notin Operations
  <2>1. AtomicTiming(n) = Failed("no Atomic Schema")
    BY <1>4 DEF AtomicTiming
  <2>2. Failed("no Atomic Schema").error # "none"
    BY <1>2, <1>3
  <2> QED BY <1>2, <2>1, <2>2, SimpleTimings, Zenon
<1>5. CASE n.op \in Operations /\ n.op = "RwgInitialize" /\ n.hard
  <2>1. AtomicTiming(n) = Exact(HardInitCycles)
    BY <1>5, Zenon DEF AtomicTiming
  <2>2. HardInitCycles \in Int
    BY <1>1
  <2> QED BY <1>1, <2>1, <2>2, SimpleTimings, Zenon
<1>6. CASE n.op \in Operations /\ ~(n.op = "RwgInitialize" /\ n.hard) /\ n.d < 0
  <2>1. AtomicTiming(n) = Failed("negative physical duration")
    BY <1>6, Zenon DEF AtomicTiming
  <2>2. Failed("negative physical duration").error # "none"
    BY <1>2, <1>3
  <2> QED BY <1>2, <2>1, <2>2, SimpleTimings, Zenon
<1>7. CASE n.op \in Operations /\ ~(n.op = "RwgInitialize" /\ n.hard) /\ ~(n.d < 0)
  <2>1. AtomicTiming(n) = Exact(n.d)
    BY <1>7, Zenon DEF AtomicTiming
  <2>2. n.d \in Nat
    BY <1>7
  <2> QED BY <2>1, <2>2, SimpleTimings, Zenon
<1> QED BY <1>4, <1>5, <1>6, <1>7, Zenon

\* The arm of a node, by its kind.
LEMMA TimingArms ==
    ASSUME NEW d, NEW n
    PROVE  /\ n.kind = "Wait" => TimingOf(d, n) = IF n.physical /\ n.d < 0
                                                 THEN Failed("negative physical interval")
                                                 ELSE Exact(n.d)
           /\ n.kind = "Atomic" => TimingOf(d, n) = AtomicTiming(n)
           /\ n.kind = "Opaque" => TimingOf(d, n) = IF n.d < 0
                                                   THEN Failed("negative opaque duration")
                                                   ELSE Exact(n.d)
           /\ n.kind = "Instantiate" => TimingOf(d, n) = d[n.body]
           /\ n.kind = "Serial" =>
                TimingOf(d, n) = SerialTiming([i \in 1..Len(n.children) |-> d[n.children[i]]])
           /\ n.kind = "Parallel" =>
                TimingOf(d, n) = ParallelTiming([i \in 1..Len(n.children) |-> d[n.children[i]]])
           /\ n.kind = "Loop" => TimingOf(d, n) = LoopTimingOf(d[n.body], n.count)
           /\ n.kind = "DefinitionRef" => TimingOf(d, n) = Failed("unresolved definition")
BY DEF TimingOf

\* Results that agree before a node give its children the same results.
LEMMA SameChildren ==
    ASSUME NEW id \in Nat, NEW n, LinkedNode(n, id), n.kind \in {"Serial", "Parallel"},
           NEW d, NEW e, SameBefore(d, e, id)
    PROVE  [i \in 1..Len(n.children) |-> d[n.children[i]]]
             = [i \in 1..Len(n.children) |-> e[n.children[i]]]
<1>1. \A i \in 1..Len(n.children) : n.children[i] \in 1..(id - 1)
  BY DEF LinkedNode
<1>2. \A i \in 1..Len(n.children) : d[n.children[i]] = e[n.children[i]]
  BY <1>1 DEF SameBefore
<1> QED BY <1>2

\* A node's timing is made of those of earlier nodes.
LEMMA TimingLocal ==
    ASSUME NEW id \in Nat, NEW n, LinkedNode(n, id), NEW d, NEW e, SameBefore(d, e, id)
    PROVE  TimingOf(d, n) = TimingOf(e, n)
<1>1. CASE n.kind \in {"Serial", "Parallel"}
  <2> DEFINE bd == [i \in 1..Len(n.children) |-> d[n.children[i]]]
             be == [i \in 1..Len(n.children) |-> e[n.children[i]]]
  <2>1. bd = be
    BY <1>1, SameChildren
  <2> HIDE DEF bd, be
  <2>2. CASE n.kind = "Serial"
    <3>1. TimingOf(d, n) = SerialTiming(bd) /\ TimingOf(e, n) = SerialTiming(be)
      BY <2>2 DEF TimingOf, bd, be
    <3> QED BY <2>1, <3>1
  <2>3. CASE n.kind = "Parallel"
    <3>1. TimingOf(d, n) = ParallelTiming(bd) /\ TimingOf(e, n) = ParallelTiming(be)
      BY <2>3 DEF TimingOf, bd, be
    <3> QED BY <2>1, <3>1
  <2> QED BY <1>1, <2>2, <2>3
<1>2. CASE n.kind \in {"Instantiate", "Loop"}
  <2>1. n.body \in 1..(id - 1)
    BY <1>2 DEF LinkedNode
  <2>2. d[n.body] = e[n.body]
    BY <2>1 DEF SameBefore
  <2> QED BY <1>2, <2>2, TimingArms, Zenon
<1>3. CASE n.kind \in {"Wait", "Atomic", "Opaque", "DefinitionRef"}
  BY <1>3, TimingArms, Zenon
<1> QED BY <1>1, <1>2, <1>3 DEF LinkedNode, NodeKinds

\* The same for the reach of a node.
LEMMA ReachLocal ==
    ASSUME NEW id \in Nat, NEW n, LinkedNode(n, id), NEW d, NEW e, SameBefore(d, e, id)
    PROVE  Reach(d, n) = Reach(e, n)
<1>1. CASE n.kind \in {"Serial", "Parallel"}
  <2> DEFINE bd == [i \in 1..Len(n.children) |-> d[n.children[i]]]
             be == [i \in 1..Len(n.children) |-> e[n.children[i]]]
  <2>1. bd = be
    BY <1>1, SameChildren
  <2> HIDE DEF bd, be
  <2>2. CASE n.kind = "Serial"
    <3>1. Reach(d, n) = Travel(bd) /\ Reach(e, n) = Travel(be)
      BY <2>2 DEF Reach, bd, be
    <3> QED BY <2>1, <3>1
  <2>3. CASE n.kind = "Parallel"
    <3>1. Reach(d, n) = [end |-> Max({bd[i].end : i \in DOMAIN bd}),
                       far |-> Max({bd[i].far : i \in DOMAIN bd})]
          /\ Reach(e, n) = [end |-> Max({be[i].end : i \in DOMAIN be}),
                          far |-> Max({be[i].far : i \in DOMAIN be})]
      BY <2>3 DEF Reach, bd, be
    <3> QED BY <2>1, <3>1
  <2> QED BY <1>1, <2>2, <2>3
<1>2. CASE n.kind \in {"Instantiate", "Loop"}
  <2>1. n.body \in 1..(id - 1)
    BY <1>2 DEF LinkedNode
  <2>2. d[n.body] = e[n.body]
    BY <2>1 DEF SameBefore
  <2>3. CASE n.kind = "Instantiate"
    BY <2>2, <2>3 DEF Reach
  <2>4. CASE n.kind = "Loop"
    BY <2>2, <2>4 DEF Reach
  <2> QED BY <1>2, <2>3, <2>4
<1>3. CASE n.kind \in {"Wait", "Atomic", "Opaque", "DefinitionRef"}
  BY <1>3 DEF Reach
<1> QED BY <1>1, <1>2, <1>3 DEF LinkedNode, NodeKinds

\* The timing of a node, from timings.
LEMMA TimingTyped ==
    ASSUME NEW id \in Nat, NEW n, LinkedNode(n, id), NEW d, Earlier(d, id, Timings)
    PROVE  TimingOf(d, n) \in Timings
<1> DEFINE below == [i \in 1..Len(n.children) |-> d[n.children[i]]]
           m == Len(n.children)
<1>1. CASE n.kind = "Wait"
  <2>1. n.d \in Int
    BY <1>1 DEF LinkedNode
  <2>2. Exact(n.d) \in Timings /\ Failed("negative physical interval") \in Timings
    BY <2>1, SimpleTimings DEF TimingErrors
  <2> QED BY <1>1, <2>2, TimingArms
<1>2. CASE n.kind = "Atomic"
  <2>1. n.d \in Int /\ n.hard \in BOOLEAN
    BY <1>2 DEF LinkedNode
  <2> QED BY <1>2, <2>1, AtomicArm, TimingArms
<1>3. CASE n.kind = "Opaque"
  <2>1. n.d \in Int
    BY <1>3 DEF LinkedNode
  <2>2. Exact(n.d) \in Timings /\ Failed("negative opaque duration") \in Timings
    BY <2>1, SimpleTimings DEF TimingErrors
  <2> QED BY <1>3, <2>2, TimingArms
<1>4. CASE n.kind = "Instantiate"
  <2>1. n.body \in 1..(id - 1)
    BY <1>4 DEF LinkedNode
  <2> QED BY <1>4, <2>1, TimingArms DEF Earlier
<1>5. CASE n.kind = "Serial"
  <2>1. m \in Nat /\ below \in [1..m -> Timings]
    BY <1>5, ChildResults
  <2> HIDE DEF below, m
  <2>2. PICK g \in [0..m -> Timings] : SerialTiming(below) = g[m]
    BY <2>1, SerialSteps
  <2>3. SerialTiming(below) \in Timings
    BY <2>1, <2>2
  <2>4. TimingOf(d, n) = SerialTiming(below)
    BY <1>5, TimingArms DEF below
  <2> QED BY <2>3, <2>4
<1>6. CASE n.kind = "Parallel"
  <2>1. m \in Nat \ {0} /\ below \in [1..m -> Timings]
    BY <1>6, ChildResults
  <2> HIDE DEF below, m
  <2>2. ParallelTiming(below) \in Timings
    BY <2>1, ParallelTyped
  <2>3. TimingOf(d, n) = ParallelTiming(below)
    BY <1>6, TimingArms DEF below
  <2> QED BY <2>2, <2>3
<1>7. CASE n.kind = "Loop"
  <2>1. n.body \in 1..(id - 1) /\ n.count \in Nat \ {0}
    BY <1>7 DEF LinkedNode
  <2>2. d[n.body] \in Timings
    BY <2>1 DEF Earlier
  <2>3. LoopTimingOf(d[n.body], n.count) \in Timings
    BY <2>1, <2>2, LoopArm
  <2> QED BY <1>7, <2>3, TimingArms
<1>8. CASE n.kind = "DefinitionRef"
  <2>1. Failed("unresolved definition") \in Timings
    BY SimpleTimings DEF TimingErrors
  <2> QED BY <1>8, <2>1, TimingArms
<1> QED BY <1>1, <1>2, <1>3, <1>4, <1>5, <1>6, <1>7, <1>8 DEF LinkedNode, NodeKinds

\* The reach of a node, from reaches.
LEMMA ReachTyped ==
    ASSUME NEW id \in Nat, NEW n, LinkedNode(n, id), NEW d, Earlier(d, id, Points)
    PROVE  Reach(d, n) \in Points
<1> DEFINE below == [i \in 1..Len(n.children) |-> d[n.children[i]]]
           m == Len(n.children)
<1>1. CASE n.kind \in {"Wait", "Opaque"}
  <2>1. n.d \in Int
    BY <1>1 DEF LinkedNode
  <2>2. MaxOf(n.d, 0) \in Int
    BY <2>1 DEF MaxOf
  <2>3. Reach(d, n) = [end |-> n.d, far |-> IF n.kind = "Wait" THEN MaxOf(n.d, 0) ELSE n.d]
    BY <1>1 DEF Reach
  <2> QED BY <2>1, <2>2, <2>3 DEF Points
<1>2. CASE n.kind = "Atomic"
  <2>1. n.d \in Int /\ n.hard \in BOOLEAN
    BY <1>2 DEF LinkedNode
  <2>2. AtomicTiming(n).duration \in Int
    BY <2>1, AtomicArm DEF Timings
  <2>3. Reach(d, n) = [end |-> AtomicTiming(n).duration, far |-> AtomicTiming(n).duration]
    BY <1>2 DEF Reach
  <2> QED BY <2>2, <2>3 DEF Points
<1>3. CASE n.kind = "Instantiate"
  <2>1. n.body \in 1..(id - 1)
    BY <1>3 DEF LinkedNode
  <2> QED BY <1>3, <2>1 DEF Earlier, Reach
<1>4. CASE n.kind = "Serial"
  <2>1. m \in Nat /\ below \in [1..m -> Points]
    BY <1>4, ChildResults
  <2> HIDE DEF below, m
  <2>2. PICK g \in [0..m -> Points] : Travel(below) = g[m]
    BY <2>1, TravelSteps
  <2>3. Travel(below) \in Points
    BY <2>1, <2>2
  <2>4. Reach(d, n) = Travel(below)
    BY <1>4 DEF below, Reach
  <2> QED BY <2>3, <2>4
<1>5. CASE n.kind = "Parallel"
  <2>1. m \in Nat \ {0} /\ below \in [1..m -> Points]
    BY <1>5, ChildResults
  <2>2. Reach(d, n) = [end |-> Max({below[i].end : i \in DOMAIN below}),
                       far |-> Max({below[i].far : i \in DOMAIN below})]
    BY <1>5 DEF Reach
  <2> HIDE DEF below, m
  <2> DEFINE es == [i \in 1..m |-> below[i].end]
             fs == [i \in 1..m |-> below[i].far]
             E == {below[i].end : i \in DOMAIN below}
             F == {below[i].far : i \in DOMAIN below}
  <2>3. es \in [1..m -> Int] /\ fs \in [1..m -> Int]
    BY <2>1 DEF Points
  <2>4. E = {es[i] : i \in 1..m} /\ F = {fs[i] : i \in 1..m}
    BY <2>1
  <2> HIDE DEF es, fs, E, F
  <2>5. Max(E) \in Int
    BY <2>1, <2>3, <2>4, Largest
  <2>6. Max(F) \in Int
    BY <2>1, <2>3, <2>4, Largest
  <2>7. Reach(d, n) = [end |-> Max(E), far |-> Max(F)]
    BY <2>2, Zenon DEF E, F
  <2> QED BY <2>5, <2>6, <2>7 DEF Points
<1>6. CASE n.kind = "Loop"
  <2>1. n.body \in 1..(id - 1) /\ n.count \in Nat
    BY <1>6 DEF LinkedNode
  <2>2. d[n.body] \in Points
    BY <2>1 DEF Earlier
  <2> DEFINE parts == [i \in 1..n.count |-> d[n.body]]
  <2>3. parts \in [1..n.count -> Points]
    BY <2>2
  <2> HIDE DEF parts
  <2>4. PICK g \in [0..n.count -> Points] : Travel(parts) = g[n.count]
    BY <2>1, <2>3, TravelSteps
  <2>5. Travel(parts) \in Points
    BY <2>1, <2>4
  <2>6. Reach(d, n) = Travel(parts)
    BY <1>6 DEF parts, Reach
  <2> QED BY <2>5, <2>6
<1>7. CASE n.kind = "DefinitionRef"
  <2>1. Reach(d, n) = [end |-> 0, far |-> 0]
    BY <1>7 DEF Reach
  <2> QED BY <2>1 DEF Points
<1> QED BY <1>1, <1>2, <1>3, <1>4, <1>5, <1>6, <1>7 DEF LinkedNode, NodeKinds

\* What analyze_timing finds out about a node agrees with the cursor.
LEMMA NodeAgrees ==
    ASSUME NEW id \in Nat, NEW n, LinkedNode(n, id),
           NEW d, Earlier(d, id, Timings), NEW e, Earlier(e, id, Points),
           \A j \in 1..(id - 1) : Agree(d[j], e[j]),
           TimingOf(d, n).error = "none"
    PROVE  Agree(TimingOf(d, n), Reach(e, n))
<1> DEFINE m == Len(n.children)
           bd == [i \in 1..m |-> d[n.children[i]]]
           be == [i \in 1..m |-> e[n.children[i]]]
<1>1. \A x \in TimingErrors : Failed(x).error = x
  BY DEF Failed, Timing
<1>2. ASSUME NEW x \in Int, NEW r, r = [end |-> x, far |-> MaxOf(x, 0)]
      PROVE  Agree(Exact(x), r)
  <2>1. r.end = x /\ r.far = MaxOf(x, 0)
    BY <1>2
  <2>2. Exact(x).logical = x /\ Exact(x).logicalFrontier = MaxOf(x, 0) /\ Exact(x).rewinds = (x < 0)
    BY Zenon DEF Exact, Timing
  <2>3. MaxOf(x, 0) >= 0 /\ MaxOf(x, 0) >= x /\ (~(x < 0) => MaxOf(x, 0) = x)
    BY DEF MaxOf
  <2> QED BY <2>1, <2>2, <2>3 DEF Agree
<1>3. \A x \in Nat : MaxOf(x, 0) = x
  BY DEF MaxOf
<1>4. CASE n.kind = "Wait"
  <2>1. n.d \in Int
    BY <1>4 DEF LinkedNode
  <2>2. TimingOf(d, n) = Exact(n.d)
    <3>1. "negative physical interval" \in TimingErrors
      BY DEF TimingErrors
    <3>2. Failed("negative physical interval").error # "none"
      BY <1>1, <3>1
    <3> QED BY <1>4, <3>2, TimingArms, Zenon
  <2>3. Reach(e, n) = [end |-> n.d, far |-> MaxOf(n.d, 0)]
    BY <1>4 DEF Reach
  <2> QED BY <1>2, <2>1, <2>2, <2>3
<1>5. CASE n.kind = "Atomic"
  <2>1. n.d \in Int /\ n.hard \in BOOLEAN
    BY <1>5 DEF LinkedNode
  <2>2. TimingOf(d, n) = AtomicTiming(n)
    BY <1>5, TimingArms
  <2>3. PICK x \in Nat : AtomicTiming(n) = Exact(x)
    BY <2>1, <2>2, AtomicArm
  <2>4. AtomicTiming(n).duration = x
    BY <2>3 DEF Exact, Timing
  <2>5. Reach(e, n) = [end |-> x, far |-> MaxOf(x, 0)]
    BY <1>3, <1>5, <2>4 DEF Reach
  <2>6. x \in Int
    OBVIOUS
  <2> QED BY <1>2, <2>2, <2>3, <2>5, <2>6
<1>6. CASE n.kind = "Opaque"
  <2>1. n.d \in Int
    BY <1>6 DEF LinkedNode
  <2>2. TimingOf(d, n) = Exact(n.d) /\ ~(n.d < 0)
    <3>1. "negative opaque duration" \in TimingErrors
      BY DEF TimingErrors
    <3>2. Failed("negative opaque duration").error # "none"
      BY <1>1, <3>1
    <3> QED BY <1>6, <3>2, TimingArms, Zenon
  <2>3. Reach(e, n) = [end |-> n.d, far |-> n.d]
    BY <1>6 DEF Reach
  <2>4. n.d = MaxOf(n.d, 0)
    BY <2>1, <2>2 DEF MaxOf
  <2>5. Reach(e, n) = [end |-> n.d, far |-> MaxOf(n.d, 0)]
    BY <2>3, <2>4
  <2> QED BY <1>2, <2>1, <2>2, <2>5
<1>7. CASE n.kind = "Instantiate"
  <2>1. n.body \in 1..(id - 1)
    BY <1>7 DEF LinkedNode
  <2>2. Reach(e, n) = e[n.body]
    BY <1>7 DEF Reach
  <2>3. TimingOf(d, n) = d[n.body]
    BY <1>7, TimingArms
  <2> QED BY <2>1, <2>2, <2>3
<1>8. ASSUME n.kind \in {"Serial", "Parallel"}
      PROVE  /\ m \in Nat \ {0} /\ bd \in [1..m -> Timings] /\ be \in [1..m -> Points]
             /\ \A i \in 1..m : Agree(bd[i], be[i])
  <2>1. /\ m \in Nat \ {0} /\ bd \in [1..m -> Timings]
        /\ \A i \in 1..m : n.children[i] \in 1..(id - 1)
    BY <1>8, ChildResults
  <2>2. be \in [1..m -> Points]
    BY <1>8, ChildResults
  <2>3. \A i \in 1..m : Agree(d[n.children[i]], e[n.children[i]])
    BY <2>1
  <2> HIDE DEF m
  <2> QED BY <2>1, <2>2, <2>3
<1>9. CASE n.kind = "Serial"
  <2>1. TimingOf(d, n) = SerialTiming(bd)
    BY <1>9, TimingArms
  <2>2. Reach(e, n) = Travel(be)
    BY <1>9 DEF Reach
  <2> HIDE DEF m, bd, be
  <2>3. m \in Nat
    BY <1>8, <1>9
  <2>4. Agree(SerialTiming(bd), Travel(be))
    BY <1>8, <1>9, <2>3, SerialAgrees
  <2> QED BY <2>1, <2>2, <2>4
<1>10. CASE n.kind = "Parallel"
  <2>1. TimingOf(d, n) = ParallelTiming(bd)
    BY <1>10, TimingArms
  <2>2. Reach(e, n) = [end |-> Max({be[i].end : i \in DOMAIN be}),
                       far |-> Max({be[i].far : i \in DOMAIN be})]
    BY <1>10 DEF Reach
  <2> HIDE DEF m, bd, be
  <2>3. DOMAIN be = 1..m
    BY <1>8, <1>10
  <2> DEFINE r == [end |-> Max({be[i].end : i \in 1..m}), far |-> Max({be[i].far : i \in 1..m})]
  <2>4. Agree(ParallelTiming(bd), r)
    BY <1>8, <1>10, ParallelAgrees
  <2>5. Reach(e, n) = r
    BY <2>2, <2>3
  <2> HIDE DEF r
  <2> QED BY <2>1, <2>4, <2>5
<1>11. CASE n.kind = "Loop"
  <2>1. n.body \in 1..(id - 1) /\ n.count \in Nat \ {0}
    BY <1>11 DEF LinkedNode
  <2>2. d[n.body] \in Timings /\ e[n.body] \in Points /\ Agree(d[n.body], e[n.body])
    BY <2>1 DEF Earlier
  <2>3. TimingOf(d, n) = LoopTimingOf(d[n.body], n.count)
    BY <1>11, TimingArms
  <2> DEFINE parts == [i \in 1..n.count |-> e[n.body]]
  <2>4. Reach(e, n) = Travel(parts)
    BY <1>11 DEF Reach
  <2>5. Agree(LoopTimingOf(d[n.body], n.count), Travel(parts))
    BY <2>1, <2>2, <2>3, LoopAgrees
  <2> QED BY <2>3, <2>4, <2>5
<1>12. CASE n.kind = "DefinitionRef"
  <2>1. "unresolved definition" \in TimingErrors
    BY DEF TimingErrors
  <2>2. Failed("unresolved definition").error # "none"
    BY <1>1, <2>1
  <2> QED BY <1>12, <2>2, TimingArms, Zenon
<1> HIDE DEF m, bd, be
<1> QED BY <1>4, <1>5, <1>6, <1>7, <1>9, <1>10, <1>11, <1>12 DEF LinkedNode, NodeKinds

\* analyze_timing gives every node its timing, from those of its children.
LEMMA TimingPass ==
    ASSUME NEW p, LinkedProgram(p)
    PROVE  /\ AnalyzeTiming(p) \in [1..Len(p.nodes) -> Timings]
           /\ \A id \in 1..Len(p.nodes) :
                AnalyzeTiming(p)[id] = TimingOf(AnalyzeTiming(p), p.nodes[id])
<1> DEFINE n == Len(p.nodes)
           Is(g) == g = [k \in 0..n |-> IF k = 0 THEN <<>>
                                       ELSE Append(g[k - 1], TimingOf(g[k - 1], p.nodes[k]))]
           op == [k \in 1..n |-> [v \in [1..(k - 1) -> Timings] |-> TimingOf(v, p.nodes[k])]]
           g == CHOOSE f : Is(f)
<1>1. n \in Nat /\ \A k \in 1..n : LinkedNode(p.nodes[k], k) /\ k \in Nat
  BY DEF LinkedProgram
<1>2. AnalyzeTiming(p) = g[n]
  BY DEF AnalyzeTiming, Forward
<1> HIDE DEF n, g
<1>3. ASSUME NEW k \in 1..n, NEW v \in [1..(k - 1) -> Timings]
      PROVE  TimingOf(v, p.nodes[k]) \in Timings
  <2>1. Earlier(v, k, Timings)
    BY DEF Earlier
  <2> QED BY <1>1, <2>1, TimingTyped
<1>4. ASSUME NEW k \in 1..n, NEW v \in [1..(k - 1) -> Timings]
      PROVE  op[k][v] = TimingOf(v, p.nodes[k])
  OBVIOUS
<1> HIDE DEF op
<1>5. PICK h : /\ h = [k \in 0..n |-> IF k = 0 THEN <<>> ELSE Append(h[k - 1], op[k][h[k - 1]])]
               /\ \A k \in 0..n : h[k] \in [1..k -> Timings]
  <2>1. \A k \in 1..n : \A v \in [1..(k - 1) -> Timings] : op[k][v] \in Timings
    BY <1>3, <1>4
  <2>2. \E h : PassOf(h, n, op) /\ \A k \in 0..n : h[k] \in [1..k -> Timings]
    BY <1>1, <2>1, PassExists
  <2> QED BY <2>2 DEF PassOf
<1>6. Is(h)
  <2>1. ASSUME NEW k \in 0..n
        PROVE  h[k] = IF k = 0 THEN <<>> ELSE Append(h[k - 1], TimingOf(h[k - 1], p.nodes[k]))
    <3>1. CASE k = 0
      BY <1>5, <3>1
    <3>2. CASE k # 0
      <4>1. k \in 1..n /\ k - 1 \in 0..n
        BY <1>1, <3>2
      <4>2. h[k - 1] \in [1..(k - 1) -> Timings]
        BY <1>5, <4>1
      <4>3. op[k][h[k - 1]] = TimingOf(h[k - 1], p.nodes[k])
        BY <1>4, <4>1, <4>2
      <4> QED BY <1>5, <3>2, <4>3
    <3> QED BY <3>1, <3>2
  <2>2. h = [k \in 0..n |-> h[k]]
    BY <1>5
  <2> QED BY <2>1, <2>2
<1>7. Is(g)
  BY <1>6 DEF g
<1>8. g[0] = <<>> /\ \A k \in 1..n : g[k] = Append(g[k - 1], TimingOf(g[k - 1], p.nodes[k]))
  <2>1. 0 \in 0..n /\ \A k \in 1..n : k \in 0..n /\ k # 0
    BY <1>1
  <2>2. \A k \in 0..n : g[k] = IF k = 0 THEN <<>> ELSE Append(g[k - 1], TimingOf(g[k - 1], p.nodes[k]))
    BY <1>7
  <2> QED BY <2>1, <2>2
<1> HIDE DEF Is
<1>9. ASSUME NEW k \in 1..n, g[k - 1] \in [1..(k - 1) -> Timings]
      PROVE  /\ g[k] \in [1..k -> Timings]
             /\ g[k][k] = TimingOf(g[k - 1], p.nodes[k])
             /\ \A j \in 1..(k - 1) : g[k][j] = g[k - 1][j]
  <2> DEFINE m == k - 1
             x == TimingOf(g[k - 1], p.nodes[k])
  <2>1. g[k] = Append(g[m], x) /\ x \in Timings /\ g[m] \in [1..m -> Timings]
    BY <1>3, <1>8, <1>9
  <2>2. m \in Nat /\ m + 1 = k
    BY <1>1
  <2> DEFINE v == g[m]
  <2> HIDE DEF m, x, v
  <2>3. m \in Nat /\ v \in [1..m -> Timings] /\ x \in Timings /\ g[k] = Append(v, x)
    BY <2>1, <2>2 DEF v
  <2>4. Append(v, x) \in [1..(m + 1) -> Timings]
    BY <2>3, Extension
  <2>5. Append(v, x)[m + 1] = x
    BY <2>3, Extension
  <2>6. \A j \in 1..m : Append(v, x)[j] = v[j]
    BY <2>3, Extension
  <2> QED BY <2>2, <2>3, <2>4, <2>5, <2>6 DEF m, x, v
<1>10. \A k \in 0..n : g[k] \in [1..k -> Timings]
  <2> DEFINE S == {k \in 0..n : g[k] \in [1..k -> Timings]}
  <2>1. <<>> \in [1..0 -> Timings]
    OBVIOUS
  <2>2. 0 \in S
    <3>1. 0 \in 0..n
      BY <1>1
    <3>2. g[0] \in [1..0 -> Timings]
      BY <1>8, <2>1
    <3> QED BY <3>1, <3>2
  <2>3. ASSUME NEW k \in 0..(n - 1), k \in S PROVE k + 1 \in S
    <3>1. k + 1 \in 1..n /\ (k + 1) - 1 = k /\ k + 1 \in 0..n
      BY <1>1
    <3>2. g[k + 1] \in [1..(k + 1) -> Timings]
      BY <1>9, <2>3, <3>1
    <3> QED BY <3>1, <3>2
  <2>4. \A k \in 0..n : k \in S
    <3> HIDE DEF S
    <3> QED BY <1>1, <2>2, <2>3, UpTo
  <2> QED BY <2>4
<1>11. \A k \in 1..n : k - 1 \in 0..n /\ k \in 0..n /\ k \in 1..k
  BY <1>1
<1>12. \A k \in 0..n : \A j \in 1..k : g[n][j] = g[k][j]
  <2>1. \A k \in 1..n : \A j \in 1..(k - 1) : g[k][j] = g[k - 1][j]
    BY <1>9, <1>10, <1>11
  <2> QED BY <1>1, <2>1, PassPrefix
<1>13. g[n] \in [1..n -> Timings]
  BY <1>1, <1>10
<1>14. ASSUME NEW id \in 1..n PROVE g[n][id] = TimingOf(g[n], p.nodes[id])
  <2>1. g[n][id] = TimingOf(g[id - 1], p.nodes[id])
    BY <1>9, <1>10, <1>11, <1>12
  <2>2. SameBefore(g[id - 1], g[n], id)
    BY <1>11, <1>12 DEF SameBefore
  <2>3. TimingOf(g[id - 1], p.nodes[id]) = TimingOf(g[n], p.nodes[id])
    BY <1>1, <2>2, TimingLocal
  <2> QED BY <2>1, <2>3
<1> QED BY <1>2, <1>13, <1>14 DEF n

\* The reach of every node, from those of its children.
LEMMA ReachPass ==
    ASSUME NEW p, LinkedProgram(p)
    PROVE  /\ Forward(p, Reach) \in [1..Len(p.nodes) -> Points]
           /\ \A id \in 1..Len(p.nodes) :
                Forward(p, Reach)[id] = Reach(Forward(p, Reach), p.nodes[id])
<1> DEFINE n == Len(p.nodes)
           Is(g) == g = [k \in 0..n |-> IF k = 0 THEN <<>>
                                       ELSE Append(g[k - 1], Reach(g[k - 1], p.nodes[k]))]
           op == [k \in 1..n |-> [v \in [1..(k - 1) -> Points] |-> Reach(v, p.nodes[k])]]
           g == CHOOSE f : Is(f)
<1>1. n \in Nat /\ \A k \in 1..n : LinkedNode(p.nodes[k], k) /\ k \in Nat
  BY DEF LinkedProgram
<1>2. Forward(p, Reach) = g[n]
  BY DEF Forward
<1> HIDE DEF n, g
<1>3. ASSUME NEW k \in 1..n, NEW v \in [1..(k - 1) -> Points]
      PROVE  Reach(v, p.nodes[k]) \in Points
  <2>1. Earlier(v, k, Points)
    BY DEF Earlier
  <2> QED BY <1>1, <2>1, ReachTyped
<1>4. ASSUME NEW k \in 1..n, NEW v \in [1..(k - 1) -> Points]
      PROVE  op[k][v] = Reach(v, p.nodes[k])
  OBVIOUS
<1> HIDE DEF op
<1>5. PICK h : /\ h = [k \in 0..n |-> IF k = 0 THEN <<>> ELSE Append(h[k - 1], op[k][h[k - 1]])]
               /\ \A k \in 0..n : h[k] \in [1..k -> Points]
  <2>1. \A k \in 1..n : \A v \in [1..(k - 1) -> Points] : op[k][v] \in Points
    BY <1>3, <1>4
  <2>2. \E h : PassOf(h, n, op) /\ \A k \in 0..n : h[k] \in [1..k -> Points]
    BY <1>1, <2>1, PassExists
  <2> QED BY <2>2 DEF PassOf
<1>6. Is(h)
  <2>1. ASSUME NEW k \in 0..n
        PROVE  h[k] = IF k = 0 THEN <<>> ELSE Append(h[k - 1], Reach(h[k - 1], p.nodes[k]))
    <3>1. CASE k = 0
      BY <1>5, <3>1
    <3>2. CASE k # 0
      <4>1. k \in 1..n /\ k - 1 \in 0..n
        BY <1>1, <3>2
      <4>2. h[k - 1] \in [1..(k - 1) -> Points]
        BY <1>5, <4>1
      <4>3. op[k][h[k - 1]] = Reach(h[k - 1], p.nodes[k])
        BY <1>4, <4>1, <4>2
      <4> QED BY <1>5, <3>2, <4>3
    <3> QED BY <3>1, <3>2
  <2>2. h = [k \in 0..n |-> h[k]]
    BY <1>5
  <2> QED BY <2>1, <2>2
<1>7. Is(g)
  BY <1>6 DEF g
<1>8. g[0] = <<>> /\ \A k \in 1..n : g[k] = Append(g[k - 1], Reach(g[k - 1], p.nodes[k]))
  <2>1. 0 \in 0..n /\ \A k \in 1..n : k \in 0..n /\ k # 0
    BY <1>1
  <2>2. \A k \in 0..n : g[k] = IF k = 0 THEN <<>> ELSE Append(g[k - 1], Reach(g[k - 1], p.nodes[k]))
    BY <1>7
  <2> QED BY <2>1, <2>2
<1> HIDE DEF Is
<1>9. ASSUME NEW k \in 1..n, g[k - 1] \in [1..(k - 1) -> Points]
      PROVE  /\ g[k] \in [1..k -> Points]
             /\ g[k][k] = Reach(g[k - 1], p.nodes[k])
             /\ \A j \in 1..(k - 1) : g[k][j] = g[k - 1][j]
  <2> DEFINE m == k - 1
             x == Reach(g[k - 1], p.nodes[k])
  <2>1. g[k] = Append(g[m], x) /\ x \in Points /\ g[m] \in [1..m -> Points]
    BY <1>3, <1>8, <1>9
  <2>2. m \in Nat /\ m + 1 = k
    BY <1>1
  <2> DEFINE v == g[m]
  <2> HIDE DEF m, x, v
  <2>3. m \in Nat /\ v \in [1..m -> Points] /\ x \in Points /\ g[k] = Append(v, x)
    BY <2>1, <2>2 DEF v
  <2>4. Append(v, x) \in [1..(m + 1) -> Points]
    BY <2>3, Extension
  <2>5. Append(v, x)[m + 1] = x
    BY <2>3, Extension
  <2>6. \A j \in 1..m : Append(v, x)[j] = v[j]
    BY <2>3, Extension
  <2> QED BY <2>2, <2>3, <2>4, <2>5, <2>6 DEF m, x, v
<1>10. \A k \in 0..n : g[k] \in [1..k -> Points]
  <2> DEFINE S == {k \in 0..n : g[k] \in [1..k -> Points]}
  <2>1. <<>> \in [1..0 -> Points]
    OBVIOUS
  <2>2. 0 \in S
    <3>1. 0 \in 0..n
      BY <1>1
    <3>2. g[0] \in [1..0 -> Points]
      BY <1>8, <2>1
    <3> QED BY <3>1, <3>2
  <2>3. ASSUME NEW k \in 0..(n - 1), k \in S PROVE k + 1 \in S
    <3>1. k + 1 \in 1..n /\ (k + 1) - 1 = k /\ k + 1 \in 0..n
      BY <1>1
    <3>2. g[k + 1] \in [1..(k + 1) -> Points]
      BY <1>9, <2>3, <3>1
    <3> QED BY <3>1, <3>2
  <2>4. \A k \in 0..n : k \in S
    <3> HIDE DEF S
    <3> QED BY <1>1, <2>2, <2>3, UpTo
  <2> QED BY <2>4
<1>11. \A k \in 1..n : k - 1 \in 0..n /\ k \in 0..n /\ k \in 1..k
  BY <1>1
<1>12. \A k \in 0..n : \A j \in 1..k : g[n][j] = g[k][j]
  <2>1. \A k \in 1..n : \A j \in 1..(k - 1) : g[k][j] = g[k - 1][j]
    BY <1>9, <1>10, <1>11
  <2> QED BY <1>1, <2>1, PassPrefix
<1>13. g[n] \in [1..n -> Points]
  BY <1>1, <1>10
<1>14. ASSUME NEW id \in 1..n PROVE g[n][id] = Reach(g[n], p.nodes[id])
  <2>1. g[n][id] = Reach(g[id - 1], p.nodes[id])
    BY <1>9, <1>10, <1>11, <1>12
  <2>2. SameBefore(g[id - 1], g[n], id)
    BY <1>11, <1>12 DEF SameBefore
  <2>3. Reach(g[id - 1], p.nodes[id]) = Reach(g[n], p.nodes[id])
    BY <1>1, <2>2, ReachLocal
  <2> QED BY <2>1, <2>3
<1> QED BY <1>2, <1>13, <1>14 DEF n

-----------------------------------------------------------------------------
(* The logical duration of a plan.                                         *)

\* Without a timing error, every node ends and reaches where the reference
\* says it does.
LEMMA ProgramAgrees ==
    ASSUME NEW p, LinkedProgram(p), ~TimingError(AnalyzeTiming(p))
    PROVE  \A id \in 1..Len(p.nodes) : Agree(AnalyzeTiming(p)[id], Forward(p, Reach)[id])
<1> DEFINE n == Len(p.nodes)
           t == AnalyzeTiming(p)
           r == Forward(p, Reach)
           S == {id \in 1..n : Agree(t[id], r[id])}
<1>1. n \in Nat /\ \A id \in 1..n : LinkedNode(p.nodes[id], id) /\ id \in Nat
  BY DEF LinkedProgram
<1>2. t \in [1..n -> Timings] /\ \A id \in 1..n : t[id] = TimingOf(t, p.nodes[id])
  BY TimingPass DEF AnalyzeTiming
<1>3. r \in [1..n -> Points] /\ \A id \in 1..n : r[id] = Reach(r, p.nodes[id])
  BY ReachPass
<1>4. \A id \in 1..n : t[id].error = "none"
  BY <1>2 DEF TimingError
<1> HIDE DEF n, t, r
<1>5. ASSUME NEW id \in 1..n, \A j \in 1..(id - 1) : j \in S PROVE id \in S
  <2>1. Earlier(t, id, Timings) /\ Earlier(r, id, Points)
    BY <1>1, <1>2, <1>3 DEF Earlier
  <2>2. \A j \in 1..(id - 1) : Agree(t[j], r[j])
    BY <1>5
  <2>3. TimingOf(t, p.nodes[id]).error = "none"
    BY <1>2, <1>4
  <2>4. Agree(TimingOf(t, p.nodes[id]), Reach(r, p.nodes[id]))
    BY <1>1, <2>1, <2>2, <2>3, NodeAgrees
  <2> QED BY <1>2, <1>3, <2>4
<1>6. \A id \in 1..n : id \in S
  <2> HIDE DEF S
  <2> QED BY <1>1, <1>5, Before
<1> QED BY <1>6 DEF n, t, r

\* What the phases after the analyses rely on: the analyses are those of the
\* program, and raised no error.
Analysed ==
    /\ phase = "analyze" => program \in Programs
    /\ phase \in {"lower", "loops", "compile", "done"} =>
         /\ program \in Programs /\ timing = AnalyzeTiming(program)
         /\ ~TimingError(AnalyzeTiming(program))

\* What a step of lowering leaves alone.
LEMMA LoweringKeeps ==
    ASSUME Lower
    PROVE  /\ phase = "lower" /\ phase' \in {"lower", "loops", "error"}
           /\ UNCHANGED <<program, timing, syncs>>
<1>1. ASSUME NEW why, Fail(why)
      PROVE  phase' = "error" /\ UNCHANGED <<program, timing, syncs>>
  BY <1>1 DEF Fail
<1>2. ASSUME NEW tasks, Continue(tasks)
      PROVE  phase' = phase /\ UNCHANGED <<program, timing, syncs>>
  BY <1>2 DEF Continue
<1>3. ASSUME NEW a, NEW b, NEW c, NEW d, Lowered(a, b, c, d)
      PROVE  phase' = phase /\ UNCHANGED <<program, timing, syncs>>
  BY <1>3 DEF Lowered, Continue
<1>4. CASE VisitWait
  BY <1>1, <1>2, <1>4 DEF VisitWait, Visiting
<1>5. CASE VisitInstantiate
  BY <1>1, <1>2, <1>5 DEF VisitInstantiate, Visiting
<1>6. CASE VisitSerial
  BY <1>1, <1>2, <1>6 DEF VisitSerial, Visiting
<1>7. CASE VisitParallel
  BY <1>1, <1>2, <1>7 DEF VisitParallel, Visiting
<1>8. CASE VisitRewindingLoop
  BY <1>1, <1>2, <1>8 DEF VisitRewindingLoop, Visiting
<1>9. CASE VisitHardwareLoop
  BY <1>1, <1>2, <1>9 DEF VisitHardwareLoop, Visiting
<1>10. CASE FinishLoop
  BY <1>1, <1>2, <1>10 DEF FinishLoop
<1>11. CASE VisitOpaque
  BY <1>1, <1>2, <1>11 DEF VisitOpaque, Visiting
<1>12. CASE AtomicRejected
  BY <1>1, <1>2, <1>12 DEF AtomicRejected, Visiting
<1>13. CASE GlobalSync
  BY <1>1, <1>2, <1>13 DEF GlobalSync, AtomicAt, Visiting
<1>14. CASE OpaqueOperation
  BY <1>1, <1>2, <1>14 DEF OpaqueOperation, AtomicAt, Visiting
<1>15. ASSUME NEW ops, Lowering(ops) PROVE phase = "lower"
  BY <1>15 DEF Lowering, AtomicAt, Visiting
<1>16. CASE LowerTtl
  BY <1>1, <1>3, <1>15, <1>16 DEF LowerTtl, TtlSet, TtlInitialize
<1>17. CASE LowerRwg
  <2>1. ASSUME NEW a, NEW b, NEW c, NEW d, LoadWaveforms(a, b, c, d)
        PROVE  phase' = phase /\ UNCHANGED <<program, timing, syncs>>
    BY <1>3, <2>1 DEF LoadWaveforms
  <2>2. CASE RwgInitialize
    BY <1>1, <1>3, <1>15, <2>2 DEF RwgInitialize
  <2>3. CASE RwgLoadJson
    BY <1>1, <2>1, <1>15, <2>3 DEF RwgLoadJson
  <2>4. CASE RwgLoadStatic
    BY <1>1, <2>1, <1>15, <2>4 DEF RwgLoadStatic
  <2>5. CASE RwgLoadLinear
    BY <1>1, <2>1, <1>15, <2>5 DEF RwgLoadLinear
  <2>6. CASE RwgLoadEndpoint
    BY <1>1, <2>1, <1>15, <2>6 DEF RwgLoadEndpoint
  <2>7. CASE RwgPlay
    BY <1>1, <1>3, <1>15, <2>7 DEF RwgPlay
  <2>8. CASE RwgRfSwitch
    BY <1>1, <1>3, <1>15, <2>8 DEF RwgRfSwitch
  <2> QED BY <1>17, <2>2, <2>3, <2>4, <2>5, <2>6, <2>7, <2>8 DEF LowerRwg
<1>18. CASE LowerRsp
  <2>1. CASE RspInitialize
    BY <1>1, <1>3, <1>15, <2>1 DEF RspInitialize
  <2>2. CASE RspPidConfig
    BY <1>1, <1>3, <1>15, <2>2 DEF RspPidConfig
  <2>3. CASE RspPidOperation
    BY <1>1, <1>3, <1>15, <2>3 DEF RspPidOperation
  <2>4. CASE RspRfConfig
    BY <1>1, <1>3, <1>15, <2>4 DEF RspRfConfig
  <2> QED BY <1>18, <2>1, <2>2, <2>3, <2>4 DEF LowerRsp
<1>19. CASE FinishLowering
  BY <1>1, <1>19 DEF FinishLowering
<1> QED BY <1>4, <1>5, <1>6, <1>7, <1>8, <1>9, <1>10, <1>11, <1>12, <1>13, <1>14, <1>16, <1>17,
           <1>18, <1>19 DEF Lower

\* What a step after lowering leaves alone.
LEMMA BuildingKeeps ==
    ASSUME ApplyLoopTiming \/ FinishLoops \/ CompileEpoch \/ Finish
    PROVE  /\ phase \in {"loops", "compile"} /\ phase' \in {"loops", "compile", "done", "error"}
           /\ UNCHANGED <<program, timing, syncs>>
<1>1. CASE ApplyLoopTiming
  BY <1>1 DEF ApplyLoopTiming
<1>2. CASE FinishLoops
  BY <1>2 DEF FinishLoops
<1>3. CASE CompileEpoch
  <2>1. ASSUME NEW why, Fail(why)
        PROVE  phase' = "error" /\ UNCHANGED <<program, timing, syncs>>
    BY <2>1 DEF Fail
  <2>2. ASSUME NEW a, NEW b, NEW c, AppendEpoch(a, b, c)
        PROVE  phase' = phase /\ UNCHANGED <<program, timing, syncs>>
    BY <2>2 DEF AppendEpoch
  <2> QED BY <1>3, <2>1, <2>2 DEF CompileEpoch
<1>4. CASE Finish
  BY <1>4 DEF Finish
<1> QED BY <1>1, <1>2, <1>3, <1>4

\* Analysed is inductive.
LEMMA AnalysedStep ==
    ASSUME Analysed, [Next]_vars
    PROVE  Analysed'
<1>1. CASE Start
  BY <1>1 DEF Start, Analysed
<1>2. CASE Analyze
  BY <1>2 DEF Analyze, Analysed, Fail
<1>3. CASE Lower
  BY <1>3, LoweringKeeps DEF Analysed
<1>4. CASE ApplyLoopTiming \/ FinishLoops \/ CompileEpoch \/ Finish
  BY <1>4, BuildingKeeps DEF Analysed
<1>5. CASE Returned \/ UNCHANGED vars
  BY <1>5 DEF Returned, vars, Analysed
<1> QED BY <1>1, <1>2, <1>3, <1>4, <1>5 DEF Next

\* The logical duration of a compiled program (logical_duration_cycles, computed
\* in one pass by timing.rs with a closed form for repeated bodies) is the
\* furthest point its cursor visits when every loop is run iteration by iteration,
\* for every linked program.
THEOREM LogicalDurationFurthest == Spec => []LogicalDurationIsFurthest
<1>1. Init => Analysed
  BY DEF Init, Analysed
<1>2. Analysed /\ [Next]_vars => Analysed'
  BY AnalysedStep
<1>3. Analysed => LogicalDurationIsFurthest
  <2> SUFFICES ASSUME Analysed, Done
               PROVE  timing[program.root].logicalFrontier = Furthest(program)
    BY DEF LogicalDurationIsFurthest
  <2>1. /\ LinkedProgram(program) /\ timing = AnalyzeTiming(program)
        /\ ~TimingError(AnalyzeTiming(program))
    BY CallPlanAssumption DEF Analysed, Done
  <2>2. program.root \in 1..Len(program.nodes)
    BY <2>1 DEF LinkedProgram
  <2>3. Agree(AnalyzeTiming(program)[program.root], Forward(program, Reach)[program.root])
    BY <2>1, <2>2, ProgramAgrees
  <2> QED BY <2>1, <2>3 DEF Agree, Furthest
<1> QED BY <1>1, <1>2, <1>3, PTL DEF Spec

-----------------------------------------------------------------------------
(* The epochs of a plan.                                                   *)

\* The epochs a task may still open or lower into: what a Visit leaves to do
\* stays within the syncs of the program.
TaskIn(t, p, s, last) ==
    /\ t.task \in {"Visit", "FinishLoop"}
    /\ t.epoch \in 0..last
    /\ t.task = "Visit" => t.node \in 1..Len(p.nodes) /\ t.epoch + s[t.node] <= last

\* The task passes the sync that ends epoch e.
Opens(t, s, e) == t.task = "Visit" /\ t.epoch <= e /\ e < t.epoch + s[t.node]

EventIn(e, last) == "epoch" \in DOMAIN e /\ e.epoch \in 0..last
EventsIn(es, last) == IsSequence(es) /\ \A i \in DOMAIN es : EventIn(es[i], last)

\* The stack: every sync of the program has been passed or is still to come.
StackOk(tasks, opened, p, s, last) ==
    /\ IsSequence(tasks) /\ \A i \in DOMAIN tasks : TaskIn(tasks[i], p, s, last)
    /\ 0 \in opened /\ opened \subseteq 0..last
    /\ \A e \in 0..(last - 1) : e + 1 \in opened \/ \E i \in DOMAIN tasks : Opens(tasks[i], s, e)

RampStops == /\ DOMAIN rwg = DOMAIN Bindings
             /\ \A c \in DOMAIN Bindings : "stop" \in DOMAIN rwg[c] /\ IsSequence(rwg[c].stop)

\* What the phases after the analyses rely on.
SyncsOk(p, s) == LinkedProgram(p) /\ s = AnalyzeEpochs(p) /\ ~EpochError(s)

EpochInv ==
    /\ error # "epoch has no origin"
    /\ phase \in {"idle", "analyze"} => /\ ttl = <<>> /\ direct = <<>> /\ epochs = <<>>
                                        /\ DOMAIN origins = {0} /\ RampStops
    /\ phase \in {"lower", "loops", "compile", "done"} =>
         /\ SyncsOk(program, syncs)
         /\ EventsIn(ttl, LastEpoch) /\ EventsIn(direct, LastEpoch)
    /\ phase = "lower" => /\ StackOk(pending, DOMAIN origins, program, syncs, LastEpoch)
                          /\ epochs = <<>> /\ RampStops
    /\ phase \in {"loops", "compile", "done"} => DOMAIN origins = 0..LastEpoch
    /\ phase = "loops" => epochs = <<>>
    /\ phase = "compile" => IsSequence(epochs) /\ Len(epochs) <= LastEpoch + 1
    /\ phase = "done" => IsSequence(epochs) /\ Len(epochs) = LastEpoch + 1

-----------------------------------------------------------------------------
(* Sequences.                                                              *)

\* A sequence is a function on 1..Len.
LEMMA SequenceShape ==
    ASSUME NEW s, IsSequence(s)
    PROVE  /\ Len(s) \in Nat /\ DOMAIN s = 1..Len(s)
           /\ s = [i \in 1..Len(s) |-> s[i]]
<1> DEFINE T == {s[i] : i \in DOMAIN s}
<1>1. s \in Seq(T)
  BY DEF IsSequence
<1> HIDE DEF T
<1> QED BY <1>1

\* A function on 1..n is a sequence.
LEMMA SequenceOf ==
    ASSUME NEW n \in Nat, NEW s, s = [i \in 1..n |-> s[i]]
    PROVE  IsSequence(s) /\ Len(s) = n /\ DOMAIN s = 1..n
<1> DEFINE T == {s[i] : i \in 1..n}
<1>1. DOMAIN s = 1..n
  OBVIOUS
<1>2. s \in [1..n -> T]
  OBVIOUS
<1>3. s \in Seq(T) /\ Len(s) = n
  <2> HIDE DEF T
  <2> QED BY <1>2
<1> QED BY <1>1, <1>3 DEF IsSequence

\* What Append gives.
LEMMA OneMore ==
    ASSUME NEW s, IsSequence(s), NEW x
    PROVE  /\ Len(s) \in Nat /\ DOMAIN s = 1..Len(s)
           /\ IsSequence(Append(s, x)) /\ Len(Append(s, x)) = Len(s) + 1
           /\ Append(s, x)[Len(s) + 1] = x
           /\ \A i \in 1..Len(s) : Append(s, x)[i] = s[i]
<1> DEFINE T == {s[i] : i \in DOMAIN s} \cup {x}
           m == Len(s)
           u == Append(s, x)
<1>1. m \in Nat /\ DOMAIN s = 1..m /\ s = [i \in 1..m |-> s[i]]
  BY SequenceShape
<1>2. x \in T /\ \A i \in 1..m : s[i] \in T
  BY <1>1
<1> HIDE DEF T, m
<1>3. s \in [1..m -> T]
  BY <1>1, <1>2
<1>4. u \in [1..(m + 1) -> T] /\ u[m + 1] = x /\ \A i \in 1..m : u[i] = s[i]
  <2>1. m \in Nat /\ x \in T
    BY <1>1, <1>2
  <2>2. Append(s, x) \in [1..(m + 1) -> T]
    BY <1>3, <2>1, Extension, Zenon
  <2>3. s \in Seq(T) /\ Len(s) = m
    BY <1>3, <2>1
  <2>4. Append(s, x)[m + 1] = x /\ \A i \in 1..m : Append(s, x)[i] = s[i]
    BY <2>1, <2>3
  <2> QED BY <2>2, <2>4, Zenon
<1> HIDE DEF u
<1>5. m + 1 \in Nat /\ u = [i \in 1..(m + 1) |-> u[i]]
  BY <1>1, <1>4
<1>6. IsSequence(u) /\ Len(u) = m + 1
  BY <1>5, SequenceOf
<1> QED BY <1>1, <1>4, <1>6 DEF u, m

\* The elements of c are those of a and b.
HasBoth(c, a, b) ==
    /\ IsSequence(c)
    /\ \A i \in DOMAIN c : (\E j \in DOMAIN a : c[i] = a[j]) \/ (\E j \in DOMAIN b : c[i] = b[j])
    /\ \A j \in DOMAIN a : \E i \in DOMAIN c : c[i] = a[j]
    /\ \A j \in DOMAIN b : \E i \in DOMAIN c : c[i] = b[j]

\* The elements of a concatenation are those of its parts.
LEMMA Joined ==
    ASSUME NEW a, IsSequence(a), NEW b, IsSequence(b)
    PROVE  HasBoth(a \o b, a, b)
<1> DEFINE T == {a[i] : i \in DOMAIN a} \cup {b[i] : i \in DOMAIN b}
           c == a \o b
           m == Len(a)
           n == Len(b)
<1>1. /\ m \in Nat /\ DOMAIN a = 1..m /\ a = [i \in 1..m |-> a[i]]
      /\ n \in Nat /\ DOMAIN b = 1..n /\ b = [i \in 1..n |-> b[i]]
  BY SequenceShape
<1>2. (\A i \in 1..m : a[i] \in T) /\ (\A i \in 1..n : b[i] \in T)
  BY <1>1
<1> HIDE DEF T, m, n
<1>3. a \in [1..m -> T] /\ b \in [1..n -> T]
  BY <1>1, <1>2
<1>4. a \in Seq(T) /\ b \in Seq(T) /\ Len(a) = m /\ Len(b) = n
  BY <1>1, <1>3 DEF m, n
<1>5. /\ c \in Seq(T) /\ Len(c) = m + n
      /\ \A i \in 1..(m + n) : c[i] = IF i <= m THEN a[i] ELSE b[i - m]
  BY <1>1, <1>4
<1> HIDE DEF c
<1>6. DOMAIN c = 1..(m + n) /\ c = [i \in 1..(m + n) |-> c[i]] /\ m + n \in Nat
  BY <1>1, <1>5
<1>7. IsSequence(c)
  BY <1>6, SequenceOf
<1>8. /\ m \in Nat /\ DOMAIN a = 1..m /\ n \in Nat /\ DOMAIN b = 1..n
      /\ DOMAIN c = 1..(m + n)
  BY <1>1, <1>6, Zenon
<1>9. \A i \in 1..(m + n) : (i <= m => c[i] = a[i]) /\ (~(i <= m) => c[i] = b[i - m])
  BY <1>5, Zenon
<1>10. ASSUME NEW i \in DOMAIN c
      PROVE  (\E j \in DOMAIN a : c[i] = a[j]) \/ (\E j \in DOMAIN b : c[i] = b[j])
  <2>1. CASE i <= m
    <3>1. i \in 1..m /\ c[i] = a[i]
      BY <1>8, <1>9, <2>1
    <3> QED BY <1>8, <3>1
  <2>2. CASE ~(i <= m)
    <3>1. i - m \in 1..n /\ c[i] = b[i - m]
      BY <1>8, <1>9, <2>2
    <3> QED BY <1>8, <3>1
  <2> QED BY <2>1, <2>2
<1>11. ASSUME NEW j \in DOMAIN a PROVE \E i \in DOMAIN c : c[i] = a[j]
  <2>1. j \in DOMAIN c /\ c[j] = a[j]
    BY <1>8, <1>9
  <2> QED BY <2>1
<1>12. ASSUME NEW j \in DOMAIN b PROVE \E i \in DOMAIN c : c[i] = b[j]
  <2>1. j + m \in 1..(m + n) /\ ~(j + m <= m) /\ (j + m) - m = j
    BY <1>8
  <2>2. j + m \in DOMAIN c /\ c[j + m] = b[j]
    BY <1>8, <1>9, <2>1
  <2> QED BY <2>2
<1>13. HasBoth(c, a, b)
  BY <1>7, <1>10, <1>11, <1>12 DEF HasBoth
<1> QED BY <1>13 DEF c

\* The elements of a sequence are its first one and those of its tail.
LEMMA Popped ==
    ASSUME NEW s, IsSequence(s), s # <<>>
    PROVE  /\ 1 \in DOMAIN s /\ IsSequence(Tail(s))
           /\ \A i \in DOMAIN Tail(s) : \E j \in DOMAIN s : Tail(s)[i] = s[j]
           /\ \A j \in DOMAIN s : j # 1 => \E i \in DOMAIN Tail(s) : Tail(s)[i] = s[j]
<1> DEFINE T == {s[i] : i \in DOMAIN s}
           m == Len(s)
           t == Tail(s)
<1>1. s \in Seq(T) /\ m \in Nat /\ DOMAIN s = 1..m
  BY SequenceShape DEF IsSequence
<1> HIDE DEF T
<1>2. m # 0
  BY <1>1
<1>3. /\ t \in Seq(T) /\ Len(t) = m - 1
      /\ \A i \in 1..(m - 1) : t[i] = s[i + 1]
  BY <1>1, <1>2
<1> HIDE DEF t, m
<1>4. DOMAIN t = 1..(m - 1) /\ t = [i \in 1..(m - 1) |-> t[i]] /\ m - 1 \in Nat
  BY <1>1, <1>2, <1>3
<1>5. IsSequence(t)
  BY <1>4, SequenceOf
<1>6. 1 \in DOMAIN s
  BY <1>1, <1>2
<1>7. ASSUME NEW i \in DOMAIN t PROVE \E j \in DOMAIN s : t[i] = s[j]
  <2>1. i + 1 \in DOMAIN s /\ t[i] = s[i + 1]
    BY <1>1, <1>3, <1>4
  <2> QED BY <2>1
<1>8. ASSUME NEW j \in DOMAIN s, j # 1 PROVE \E i \in DOMAIN t : t[i] = s[j]
  <2>1. j - 1 \in 1..(m - 1) /\ (j - 1) + 1 = j
    BY <1>1, <1>8
  <2>2. j - 1 \in DOMAIN t /\ t[j - 1] = s[j]
    BY <1>3, <1>4, <2>1
  <2> QED BY <2>2
<1> QED BY <1>5, <1>6, <1>7, <1>8 DEF t

\* Between two values of a function, one step passes each value in between.
LEMMA Crossing ==
    ASSUME NEW n \in Nat, NEW g \in [0..n -> Int], NEW x \in Int, g[0] <= x, x < g[n]
    PROVE  \E k \in 1..n : g[k - 1] <= x /\ x < g[k]
<1> SUFFICES ASSUME \A k \in 1..n : ~(g[k - 1] <= x /\ x < g[k]) PROVE FALSE
  OBVIOUS
<1> DEFINE S == {k \in 0..n : g[k] <= x}
<1>1. 0 \in S
  OBVIOUS
<1>2. ASSUME NEW k \in 0..(n - 1), k \in S PROVE k + 1 \in S
  <2>1. k + 1 \in 1..n /\ (k + 1) - 1 = k /\ k + 1 \in 0..n
    OBVIOUS
  <2>2. ~(x < g[k + 1]) /\ g[k + 1] \in Int
    BY <1>2, <2>1
  <2> QED BY <2>1, <2>2
<1>3. \A k \in 0..n : k \in S
  <2> HIDE DEF S
  <2> QED BY <1>1, <1>2, UpTo
<1>4. n \in 0..n /\ g[n] \in Int
  OBVIOUS
<1> QED BY <1>3, <1>4

\* A function that never goes down lies between its ends.
LEMMA Rising ==
    ASSUME NEW n \in Nat, NEW g \in [0..n -> Int], \A k \in 1..n : g[k - 1] <= g[k]
    PROVE  \A k \in 0..n : g[0] <= g[k] /\ g[k] <= g[n]
<1>1. \A k \in 0..n : g[0] <= g[k]
  <2> DEFINE S == {k \in 0..n : g[0] <= g[k]}
  <2>1. 0 \in S
    OBVIOUS
  <2>2. ASSUME NEW k \in 0..(n - 1), k \in S PROVE k + 1 \in S
    <3>1. k + 1 \in 1..n /\ (k + 1) - 1 = k /\ k + 1 \in 0..n /\ k \in 0..n
      OBVIOUS
    <3>2. g[k] <= g[k + 1] /\ g[0] <= g[k]
      BY <2>2, <3>1
    <3>3. g[0] \in Int /\ g[k] \in Int /\ g[k + 1] \in Int
      BY <3>1
    <3>4. g[0] <= g[k + 1]
      BY <3>2, <3>3
    <3> QED BY <3>1, <3>4
  <2>3. \A k \in 0..n : k \in S
    <3> HIDE DEF S
    <3> QED BY <2>1, <2>2, UpTo
  <2> QED BY <2>3
<1>2. \A k \in 0..n : g[k] <= g[n]
  <2> DEFINE S == {j \in 0..n : g[n - j] <= g[n]}
  <2>1. 0 \in S
    OBVIOUS
  <2>2. ASSUME NEW j \in 0..(n - 1), j \in S PROVE j + 1 \in S
    <3> DEFINE a == n - j
               b == n - (j + 1)
    <3>1. /\ a \in 1..n /\ a - 1 = b /\ j + 1 \in 0..n /\ a \in 0..n /\ b \in 0..n /\ n \in 0..n
      OBVIOUS
    <3>2. g[a] <= g[n]
      BY <2>2
    <3> HIDE DEF a, b
    <3>3. g[b] <= g[a]
      BY <3>1
    <3>4. g[a] \in Int /\ g[b] \in Int /\ g[n] \in Int
      BY <3>1
    <3>5. g[b] <= g[n]
      BY <3>2, <3>3, <3>4
    <3> QED BY <3>1, <3>5 DEF b
  <2>3. \A j \in 0..n : j \in S
    <3> HIDE DEF S
    <3> QED BY <2>1, <2>2, UpTo
  <2>4. ASSUME NEW k \in 0..n PROVE g[k] <= g[n]
    <3>1. n - k \in 0..n /\ n - (n - k) = k
      OBVIOUS
    <3> QED BY <2>3, <3>1
  <2> QED BY <2>4
<1> QED BY <1>1, <1>2

-----------------------------------------------------------------------------
(* The syncs of a program.                                                 *)

\* The number of syncs of a node is an integer ...
LEMMA SyncsTyped ==
    ASSUME NEW id \in Nat, NEW n, LinkedNode(n, id), NEW d, Earlier(d, id, Int)
    PROVE  SyncsOf(d, n) \in Int
<1> DEFINE below == [i \in 1..Len(n.children) |-> d[n.children[i]]]
           m == Len(n.children)
<1>1. CASE n.kind \in {"Instantiate", "Loop"}
  <2>1. n.body \in 1..(id - 1)
    BY <1>1 DEF LinkedNode
  <2>2. d[n.body] \in Int
    BY <2>1 DEF Earlier
  <2> QED BY <1>1, <2>2 DEF SyncsOf
<1>2. CASE n.kind = "Serial"
  <2>1. m \in Nat /\ below \in [1..m -> Int]
    BY <1>2, ChildResults
  <2>2. SyncsOf(d, n) = Cursor(below)[Len(below)]
    BY <1>2 DEF SyncsOf
  <2> HIDE DEF below, m
  <2>3. Len(below) = m
    BY <2>1
  <2>4. PICK g \in [0..m -> Int] : Cursor(below) = g
    BY <2>1, CursorSteps
  <2> QED BY <2>1, <2>2, <2>3, <2>4
<1>3. CASE n.kind = "Parallel"
  <2>1. m \in Nat \ {0} /\ below \in [1..m -> Int]
    BY <1>3, ChildResults
  <2>2. SyncsOf(d, n) = IF \A i \in DOMAIN below : below[i] = below[1] THEN below[1] ELSE -1
    BY <1>3 DEF SyncsOf
  <2> HIDE DEF below, m
  <2>3. below[1] \in Int
    BY <2>1
  <2> QED BY <2>2, <2>3
<1>4. CASE n.kind \in {"Wait", "Atomic", "Opaque", "DefinitionRef"}
  BY <1>4 DEF SyncsOf
<1> QED BY <1>1, <1>2, <1>3, <1>4 DEF LinkedNode, NodeKinds

\* ... made of those of earlier nodes.
LEMMA SyncsLocal ==
    ASSUME NEW id \in Nat, NEW n, LinkedNode(n, id), NEW d, NEW e, SameBefore(d, e, id)
    PROVE  SyncsOf(d, n) = SyncsOf(e, n)
<1>1. CASE n.kind \in {"Serial", "Parallel"}
  <2> DEFINE bd == [i \in 1..Len(n.children) |-> d[n.children[i]]]
             be == [i \in 1..Len(n.children) |-> e[n.children[i]]]
  <2>1. bd = be
    BY <1>1, SameChildren
  <2> HIDE DEF bd, be
  <2>2. CASE n.kind = "Serial"
    <3>1. SyncsOf(d, n) = Cursor(bd)[Len(bd)] /\ SyncsOf(e, n) = Cursor(be)[Len(be)]
      BY <2>2 DEF SyncsOf, bd, be
    <3> QED BY <2>1, <3>1
  <2>3. CASE n.kind = "Parallel"
    <3>1. /\ SyncsOf(d, n) = IF \A i \in DOMAIN bd : bd[i] = bd[1] THEN bd[1] ELSE -1
          /\ SyncsOf(e, n) = IF \A i \in DOMAIN be : be[i] = be[1] THEN be[1] ELSE -1
      BY <2>3 DEF SyncsOf, bd, be
    <3> QED BY <2>1, <3>1
  <2> QED BY <1>1, <2>2, <2>3
<1>2. CASE n.kind \in {"Instantiate", "Loop"}
  <2>1. n.body \in 1..(id - 1)
    BY <1>2 DEF LinkedNode
  <2>2. d[n.body] = e[n.body]
    BY <2>1 DEF SameBefore
  <2> QED BY <1>2, <2>2 DEF SyncsOf
<1>3. CASE n.kind \in {"Wait", "Atomic", "Opaque", "DefinitionRef"}
  BY <1>3 DEF SyncsOf
<1> QED BY <1>1, <1>2, <1>3 DEF LinkedNode, NodeKinds

\* The syncs of every node, from those of its children.
LEMMA SyncsPass ==
    ASSUME NEW p, LinkedProgram(p)
    PROVE  /\ AnalyzeEpochs(p) \in [1..Len(p.nodes) -> Int]
           /\ \A id \in 1..Len(p.nodes) :
                AnalyzeEpochs(p)[id] = SyncsOf(AnalyzeEpochs(p), p.nodes[id])
<1> DEFINE n == Len(p.nodes)
           Is(g) == g = [k \in 0..n |-> IF k = 0 THEN <<>>
                                       ELSE Append(g[k - 1], SyncsOf(g[k - 1], p.nodes[k]))]
           op == [k \in 1..n |-> [v \in [1..(k - 1) -> Int] |-> SyncsOf(v, p.nodes[k])]]
           g == CHOOSE f : Is(f)
<1>1. n \in Nat /\ \A k \in 1..n : LinkedNode(p.nodes[k], k) /\ k \in Nat
  BY DEF LinkedProgram
<1>2. AnalyzeEpochs(p) = g[n]
  BY DEF AnalyzeEpochs, Forward
<1> HIDE DEF n, g
<1>3. ASSUME NEW k \in 1..n, NEW v \in [1..(k - 1) -> Int]
      PROVE  SyncsOf(v, p.nodes[k]) \in Int
  <2>1. Earlier(v, k, Int)
    BY DEF Earlier
  <2> QED BY <1>1, <2>1, SyncsTyped
<1>4. ASSUME NEW k \in 1..n, NEW v \in [1..(k - 1) -> Int]
      PROVE  op[k][v] = SyncsOf(v, p.nodes[k])
  OBVIOUS
<1> HIDE DEF op
<1>5. PICK h : /\ h = [k \in 0..n |-> IF k = 0 THEN <<>> ELSE Append(h[k - 1], op[k][h[k - 1]])]
               /\ \A k \in 0..n : h[k] \in [1..k -> Int]
  <2>1. \A k \in 1..n : \A v \in [1..(k - 1) -> Int] : op[k][v] \in Int
    BY <1>3, <1>4
  <2>2. \E h : PassOf(h, n, op) /\ \A k \in 0..n : h[k] \in [1..k -> Int]
    BY <1>1, <2>1, PassExists
  <2> QED BY <2>2 DEF PassOf
<1>6. Is(h)
  <2>1. ASSUME NEW k \in 0..n
        PROVE  h[k] = IF k = 0 THEN <<>> ELSE Append(h[k - 1], SyncsOf(h[k - 1], p.nodes[k]))
    <3>1. CASE k = 0
      BY <1>5, <3>1
    <3>2. CASE k # 0
      <4>1. k \in 1..n /\ k - 1 \in 0..n
        BY <1>1, <3>2
      <4>2. h[k - 1] \in [1..(k - 1) -> Int]
        BY <1>5, <4>1
      <4>3. op[k][h[k - 1]] = SyncsOf(h[k - 1], p.nodes[k])
        BY <1>4, <4>1, <4>2
      <4> QED BY <1>5, <3>2, <4>3
    <3> QED BY <3>1, <3>2
  <2>2. h = [k \in 0..n |-> h[k]]
    BY <1>5
  <2> QED BY <2>1, <2>2
<1>7. Is(g)
  BY <1>6 DEF g
<1>8. g[0] = <<>> /\ \A k \in 1..n : g[k] = Append(g[k - 1], SyncsOf(g[k - 1], p.nodes[k]))
  <2>1. 0 \in 0..n /\ \A k \in 1..n : k \in 0..n /\ k # 0
    BY <1>1
  <2>2. \A k \in 0..n : g[k] = IF k = 0 THEN <<>> ELSE Append(g[k - 1], SyncsOf(g[k - 1], p.nodes[k]))
    BY <1>7
  <2> QED BY <2>1, <2>2
<1> HIDE DEF Is
<1>9. ASSUME NEW k \in 1..n, g[k - 1] \in [1..(k - 1) -> Int]
      PROVE  /\ g[k] \in [1..k -> Int]
             /\ g[k][k] = SyncsOf(g[k - 1], p.nodes[k])
             /\ \A j \in 1..(k - 1) : g[k][j] = g[k - 1][j]
  <2> DEFINE m == k - 1
             x == SyncsOf(g[k - 1], p.nodes[k])
  <2>1. g[k] = Append(g[m], x) /\ x \in Int /\ g[m] \in [1..m -> Int]
    BY <1>3, <1>8, <1>9
  <2>2. m \in Nat /\ m + 1 = k
    BY <1>1
  <2> DEFINE v == g[m]
  <2> HIDE DEF m, x, v
  <2>3. m \in Nat /\ v \in [1..m -> Int] /\ x \in Int /\ g[k] = Append(v, x)
    BY <2>1, <2>2 DEF v
  <2>4. Append(v, x) \in [1..(m + 1) -> Int]
    BY <2>3, Extension
  <2>5. Append(v, x)[m + 1] = x
    BY <2>3, Extension
  <2>6. \A j \in 1..m : Append(v, x)[j] = v[j]
    BY <2>3, Extension
  <2> QED BY <2>2, <2>3, <2>4, <2>5, <2>6 DEF m, x, v
<1>10. \A k \in 0..n : g[k] \in [1..k -> Int]
  <2> DEFINE S == {k \in 0..n : g[k] \in [1..k -> Int]}
  <2>1. <<>> \in [1..0 -> Int]
    OBVIOUS
  <2>2. 0 \in S
    <3>1. 0 \in 0..n
      BY <1>1
    <3>2. g[0] \in [1..0 -> Int]
      BY <1>8, <2>1
    <3> QED BY <3>1, <3>2
  <2>3. ASSUME NEW k \in 0..(n - 1), k \in S PROVE k + 1 \in S
    <3>1. k + 1 \in 1..n /\ (k + 1) - 1 = k /\ k + 1 \in 0..n
      BY <1>1
    <3>2. g[k + 1] \in [1..(k + 1) -> Int]
      BY <1>9, <2>3, <3>1
    <3> QED BY <3>1, <3>2
  <2>4. \A k \in 0..n : k \in S
    <3> HIDE DEF S
    <3> QED BY <1>1, <2>2, <2>3, UpTo
  <2> QED BY <2>4
<1>11. \A k \in 1..n : k - 1 \in 0..n /\ k \in 0..n /\ k \in 1..k
  BY <1>1
<1>12. \A k \in 0..n : \A j \in 1..k : g[n][j] = g[k][j]
  <2>1. \A k \in 1..n : \A j \in 1..(k - 1) : g[k][j] = g[k - 1][j]
    BY <1>9, <1>10, <1>11
  <2> QED BY <1>1, <2>1, PassPrefix
<1>13. g[n] \in [1..n -> Int]
  BY <1>1, <1>10
<1>14. ASSUME NEW id \in 1..n PROVE g[n][id] = SyncsOf(g[n], p.nodes[id])
  <2>1. g[n][id] = SyncsOf(g[id - 1], p.nodes[id])
    BY <1>9, <1>10, <1>11, <1>12
  <2>2. SameBefore(g[id - 1], g[n], id)
    BY <1>11, <1>12 DEF SameBefore
  <2>3. SyncsOf(g[id - 1], p.nodes[id]) = SyncsOf(g[n], p.nodes[id])
    BY <1>1, <2>2, SyncsLocal
  <2> QED BY <2>1, <2>3
<1> QED BY <1>2, <1>13, <1>14 DEF n

\* An accepted program: every node passes a number of syncs made of those of its
\* children.
LEMMA SyncsAreCounts ==
    ASSUME NEW p, NEW s, SyncsOk(p, s)
    PROVE  /\ Len(p.nodes) \in Nat /\ p.root \in 1..Len(p.nodes)
           /\ s \in [1..Len(p.nodes) -> Nat]
           /\ \A id \in 1..Len(p.nodes) : /\ LinkedNode(p.nodes[id], id)
                                          /\ s[id] = SyncsOf(s, p.nodes[id])
<1> DEFINE n == Len(p.nodes)
<1>1. n \in Nat /\ p.root \in 1..n /\ \A id \in 1..n : LinkedNode(p.nodes[id], id)
  BY DEF SyncsOk, LinkedProgram
<1>2. s \in [1..n -> Int] /\ \A id \in 1..n : s[id] = SyncsOf(s, p.nodes[id])
  BY SyncsPass DEF SyncsOk
<1> HIDE DEF n
<1>3. \A id \in 1..n : s[id] \in Nat
  BY <1>2 DEF SyncsOk, EpochError
<1>4. s \in [1..n -> Nat]
  BY <1>2, <1>3
<1> QED BY <1>1, <1>2, <1>4 DEF n

\* A loop passes no sync, and neither does its body; an operation passes one if
\* it is a global sync.
LEMMA LeafSyncs ==
    ASSUME NEW p, NEW s, SyncsOk(p, s), NEW id \in 1..Len(p.nodes)
    PROVE  /\ p.nodes[id].kind \in {"Wait", "Opaque"} => s[id] = 0
           /\ p.nodes[id].kind = "Atomic" => s[id] = IF p.nodes[id].op = "GlobalSync" THEN 1 ELSE 0
           /\ p.nodes[id].kind = "Loop" => s[id] = 0 /\ s[p.nodes[id].body] = 0
           /\ p.nodes[id].kind = "Instantiate" => s[id] = s[p.nodes[id].body]
           /\ p.nodes[id].kind \in {"Instantiate", "Loop"} => p.nodes[id].body \in 1..Len(p.nodes)
<1> DEFINE n == p.nodes[id]
           m == Len(p.nodes)
<1>1. m \in Nat /\ LinkedNode(n, id) /\ s[id] = SyncsOf(s, n) /\ s[id] \in Nat /\ id \in 1..m
  BY SyncsAreCounts
<1> HIDE DEF n, m
<1>2. n.kind \in {"Wait", "Opaque"} => s[id] = 0
  BY <1>1 DEF SyncsOf
<1>3. n.kind = "Atomic" => s[id] = IF n.op = "GlobalSync" THEN 1 ELSE 0
  BY <1>1 DEF SyncsOf
<1>4. n.kind = "Loop" => s[id] = 0 /\ s[n.body] = 0
  <2> SUFFICES ASSUME n.kind = "Loop" PROVE s[id] = 0 /\ s[n.body] = 0
    OBVIOUS
  <2>1. SyncsOf(s, n) = IF s[n.body] # 0 THEN -1 ELSE 0
    BY DEF SyncsOf
  <2> QED BY <1>1, <2>1
<1>5. n.kind = "Instantiate" => s[id] = s[n.body]
  BY <1>1 DEF SyncsOf
<1>6. n.kind \in {"Instantiate", "Loop"} => n.body \in 1..m
  <2>1. n.kind \in {"Instantiate", "Loop"} => n.body \in 1..(id - 1)
    BY <1>1 DEF LinkedNode
  <2> QED BY <1>1, <2>1
<1> QED BY <1>2, <1>3, <1>4, <1>5, <1>6 DEF n, m

\* The children of an accepted composition.
LEMMA ChildSyncs ==
    ASSUME NEW p, NEW s, SyncsOk(p, s), NEW id \in 1..Len(p.nodes), NEW cs, cs = p.nodes[id].children,
           p.nodes[id].kind \in {"Serial", "Parallel"}
    PROVE  /\ Len(cs) \in Nat \ {0} /\ DOMAIN cs = 1..Len(cs)
           /\ \A i \in 1..Len(cs) : cs[i] \in 1..Len(p.nodes) /\ s[cs[i]] \in Nat
<1>1. /\ Len(p.nodes) \in Nat /\ LinkedNode(p.nodes[id], id)
      /\ s \in [1..Len(p.nodes) -> Nat]
  BY SyncsAreCounts
<1>2. /\ Len(cs) \in Nat \ {0} /\ DOMAIN cs = 1..Len(cs)
      /\ \A i \in 1..Len(cs) : cs[i] \in 1..(id - 1)
  BY <1>1 DEF LinkedNode
<1>3. \A i \in 1..Len(cs) : cs[i] \in 1..Len(p.nodes)
  BY <1>1, <1>2
<1> QED BY <1>1, <1>2, <1>3

AllPass(cs, s, total) == \A i \in 1..Len(cs) : s[cs[i]] = total
ChainOf(g, cs, s, total) ==
    /\ g \in [0..Len(cs) -> Int] /\ Cursor([i \in DOMAIN cs |-> s[cs[i]]]) = g
    /\ g[0] = 0 /\ g[Len(cs)] = total
    /\ \A k \in 1..Len(cs) : g[k] = g[k - 1] + s[cs[k]]
    /\ \A k \in 0..Len(cs) : g[k] \in 0..total

\* Every branch of a Parallel passes the syncs of the whole.
LEMMA BranchSyncs ==
    ASSUME NEW p, NEW s, SyncsOk(p, s), NEW id \in 1..Len(p.nodes), NEW cs, cs = p.nodes[id].children,
           p.nodes[id].kind = "Parallel"
    PROVE  AllPass(cs, s, s[id])
<1> DEFINE n == p.nodes[id]
           m == Len(cs)
           below == [i \in 1..m |-> s[cs[i]]]
<1>1. s[id] = SyncsOf(s, n) /\ s[id] \in Nat
  BY SyncsAreCounts
<1>2. SyncsOf(s, n) = IF \A i \in DOMAIN below : below[i] = below[1] THEN below[1] ELSE -1
  BY DEF SyncsOf
<1>3. DOMAIN below = 1..m /\ \A i \in 1..m : below[i] = s[cs[i]]
  OBVIOUS
<1> HIDE DEF below, n
<1>4. \A i \in DOMAIN below : below[i] = below[1]
  BY <1>1, <1>2
<1>5. s[id] = below[1]
  BY <1>1, <1>2, <1>4
<1> QED BY <1>3, <1>4, <1>5 DEF AllPass

\* Where the cursor of a Serial is: it only goes up, from 0 to the syncs of the whole.
LEMMA ChainSyncs ==
    ASSUME NEW p, NEW s, SyncsOk(p, s), NEW id \in 1..Len(p.nodes), NEW cs, cs = p.nodes[id].children,
           p.nodes[id].kind = "Serial"
    PROVE  \E g : ChainOf(g, cs, s, s[id])
<1> DEFINE n == p.nodes[id]
           m == Len(cs)
           below == [i \in 1..m |-> s[cs[i]]]
<1>1. s[id] = SyncsOf(s, n) /\ s[id] \in Nat
  BY SyncsAreCounts
<1>2. m \in Nat /\ DOMAIN cs = 1..m /\ \A i \in 1..m : s[cs[i]] \in Nat
  BY ChildSyncs
<1>3. SyncsOf(s, n) = Cursor(below)[Len(below)]
  BY DEF SyncsOf
<1>4. below \in [1..m -> Int] /\ Len(below) = m /\ \A i \in 1..m : below[i] = s[cs[i]]
  BY <1>2
<1>5. [i \in DOMAIN cs |-> s[cs[i]]] = below
  BY <1>2
<1> HIDE DEF below, n, m
<1>6. PICK g \in [0..m -> Int] : /\ Cursor(below) = g /\ g[0] = 0
                                 /\ \A k \in 1..m : g[k] = g[k - 1] + below[k]
  BY <1>2, <1>4, CursorSteps
<1>7. \A k \in 1..m : g[k] = g[k - 1] + s[cs[k]]
  BY <1>4, <1>6
<1>8. g[m] = s[id]
  BY <1>1, <1>3, <1>4, <1>6
<1>9. \A k \in 1..m : g[k - 1] <= g[k]
  <2> SUFFICES ASSUME NEW k \in 1..m PROVE g[k - 1] <= g[k]
    OBVIOUS
  <2>1. k - 1 \in 0..m
    BY <1>2
  <2>2. g[k - 1] \in Int /\ s[cs[k]] \in Nat /\ g[k] = g[k - 1] + s[cs[k]]
    BY <1>2, <1>7, <2>1
  <2> QED BY <2>2
<1>10. \A k \in 0..m : g[0] <= g[k] /\ g[k] <= g[m]
  BY <1>2, <1>9, Rising
<1>11. \A k \in 0..m : g[k] \in 0..s[id]
  BY <1>1, <1>6, <1>8, <1>10
<1>12. ChainOf(g, cs, s, s[id])
  BY <1>5, <1>6, <1>7, <1>8, <1>11 DEF m, ChainOf
<1> QED BY <1>12

-----------------------------------------------------------------------------
(* The stack and the events.                                               *)

\* A task is popped and replaced by those it pushes, which open what it would
\* have opened and is not open yet.
LEMMA StackStep ==
    ASSUME NEW old, NEW opened, NEW p, NEW s, NEW last \in Nat,
           StackOk(old, opened, p, s, last), old # <<>>,
           NEW tasks, IsSequence(tasks), \A i \in DOMAIN tasks : TaskIn(tasks[i], p, s, last),
           NEW after, opened \subseteq after, after \subseteq 0..last,
           \A e \in 0..(last - 1) : Opens(old[1], s, e) =>
             e + 1 \in after \/ \E i \in DOMAIN tasks : Opens(tasks[i], s, e)
    PROVE  StackOk(tasks \o Tail(old), after, p, s, last)
<1> DEFINE t == Tail(old)
           new == tasks \o t
<1>1. IsSequence(old) /\ \A i \in DOMAIN old : TaskIn(old[i], p, s, last)
  BY DEF StackOk
<1>2. \A e \in 0..(last - 1) : e + 1 \in opened \/ \E i \in DOMAIN old : Opens(old[i], s, e)
  BY DEF StackOk
<1>3. 0 \in after
  BY DEF StackOk
<1>4. /\ IsSequence(t)
      /\ \A i \in DOMAIN t : \E j \in DOMAIN old : t[i] = old[j]
      /\ \A j \in DOMAIN old : j # 1 => \E i \in DOMAIN t : t[i] = old[j]
  BY <1>1, Popped
<1> HIDE DEF t
<1>5. HasBoth(new, tasks, t)
  BY <1>4, Joined
<1> HIDE DEF new
<1>6. /\ IsSequence(new)
      /\ \A i \in DOMAIN new : \/ \E j \in DOMAIN tasks : new[i] = tasks[j]
                               \/ \E j \in DOMAIN t : new[i] = t[j]
      /\ \A j \in DOMAIN tasks : \E i \in DOMAIN new : new[i] = tasks[j]
      /\ \A j \in DOMAIN t : \E i \in DOMAIN new : new[i] = t[j]
  BY <1>5 DEF HasBoth
<1>7. \A i \in DOMAIN new : TaskIn(new[i], p, s, last)
  BY <1>1, <1>4, <1>6
<1>8. ASSUME NEW e \in 0..(last - 1)
      PROVE  e + 1 \in after \/ \E i \in DOMAIN new : Opens(new[i], s, e)
  <2>1. CASE e + 1 \in opened
    BY <2>1
  <2>2. CASE \E i \in DOMAIN old : Opens(old[i], s, e)
    <3>1. PICK j \in DOMAIN old : Opens(old[j], s, e)
      BY <2>2
    <3>2. CASE j = 1
      BY <1>6, <3>1, <3>2
    <3>3. CASE j # 1
      BY <1>4, <1>6, <3>1, <3>3
    <3> QED BY <3>2, <3>3
  <2> QED BY <1>2, <2>1, <2>2
<1> QED BY <1>3, <1>6, <1>7, <1>8 DEF StackOk, new, t

\* A task that opens nothing is popped, and pushes nothing.
LEMMA StackPop ==
    ASSUME NEW old, NEW opened, NEW p, NEW s, NEW last \in Nat,
           StackOk(old, opened, p, s, last), old # <<>>,
           \A e \in 0..(last - 1) : ~Opens(old[1], s, e)
    PROVE  StackOk(<<>> \o Tail(old), opened, p, s, last)
<1> DEFINE none == <<>>
<1>1. none = [i \in 1..0 |-> none[i]]
  OBVIOUS
<1>2. DOMAIN none = {}
  OBVIOUS
<1> HIDE DEF none
<1>3. IsSequence(none)
  BY <1>1, SequenceOf
<1>4. opened \subseteq 0..last
  BY DEF StackOk
<1>5. StackOk(none \o Tail(old), opened, p, s, last)
  BY <1>2, <1>3, <1>4, StackStep
<1> QED BY <1>5 DEF none

\* Events of two sequences.
LEMMA EventsJoined ==
    ASSUME NEW last, NEW a, NEW b, EventsIn(a, last), EventsIn(b, last)
    PROVE  EventsIn(a \o b, last)
<1> DEFINE c == a \o b
<1>1. HasBoth(c, a, b)
  BY Joined DEF EventsIn
<1> HIDE DEF c
<1>2. EventsIn(c, last)
  BY <1>1 DEF HasBoth, EventsIn
<1> QED BY <1>2 DEF c

\* Events that are made.
LEMMA EventsMade ==
    ASSUME NEW last, NEW n \in Nat, NEW es, es = [i \in 1..n |-> es[i]],
           \A i \in 1..n : EventIn(es[i], last)
    PROVE  EventsIn(es, last)
<1>1. IsSequence(es) /\ DOMAIN es = 1..n
  BY SequenceOf
<1> QED BY <1>1 DEF EventsIn

\* Events that are changed, each within its epoch.
LEMMA EventsChanged ==
    ASSUME NEW last, NEW old, EventsIn(old, last), NEW es, es = [i \in DOMAIN old |-> es[i]],
           \A i \in DOMAIN old : EventIn(es[i], last)
    PROVE  EventsIn(es, last)
<1> DEFINE n == Len(old)
<1>1. n \in Nat /\ DOMAIN old = 1..n
  BY SequenceShape DEF EventsIn
<1> HIDE DEF n
<1>2. es = [i \in 1..n |-> es[i]] /\ \A i \in 1..n : EventIn(es[i], last)
  BY <1>1
<1> QED BY <1>1, <1>2, EventsMade

\* No events, and one.
LEMMA EventsFew ==
    ASSUME NEW last
    PROVE  EventsIn(<<>>, last) /\ \A e : EventIn(e, last) => EventsIn(<<e>>, last)
<1>1. EventsIn(<<>>, last)
  <2> DEFINE none == <<>>
  <2>1. none = [i \in 1..0 |-> none[i]] /\ 1..0 = {}
    OBVIOUS
  <2> HIDE DEF none
  <2>2. EventsIn(none, last)
    BY <2>1, EventsMade
  <2> QED BY <2>2 DEF none
<1>2. ASSUME NEW e, EventIn(e, last) PROVE EventsIn(<<e>>, last)
  <2> DEFINE one == <<e>>
  <2>1. one = [i \in 1..1 |-> one[i]] /\ \A i \in 1..1 : one[i] = e
    OBVIOUS
  <2> HIDE DEF one
  <2>2. EventsIn(one, last)
    BY <1>2, <2>1, EventsMade
  <2> QED BY <2>2 DEF one
<1> QED BY <1>1, <1>2

\* A field that is not the epoch is changed.
LEMMA EventChanged ==
    ASSUME NEW last, NEW e, EventIn(e, last), NEW v
    PROVE  /\ EventIn([e EXCEPT !.scope = v], last)
           /\ EventIn([e EXCEPT !.offset = v], last)
           /\ EventIn([e EXCEPT !.cost = v], last)
           /\ EventIn([e EXCEPT !.preload = v], last)
BY DEF EventIn

\* An event is made in its epoch.
LEMMA DirectEventIn ==
    ASSUME NEW last, NEW epoch \in 0..last, NEW o, NEW b, NEW f, NEW a, NEW c, NEW r, NEW g
    PROVE  EventIn(DirectEvent(epoch, o, b, f, a, c, r, g), last)
BY DEF EventIn, DirectEvent

\* A sequence over a set of events.
LEMMA EventsOver ==
    ASSUME NEW last, NEW X, \A x \in X : EventIn(x, last), NEW s \in Seq(X)
    PROVE  EventsIn(s, last)
<1> DEFINE n == Len(s)
<1>1. n \in Nat /\ s \in [1..n -> X]
  OBVIOUS
<1> HIDE DEF n
<1>2. s = [i \in 1..n |-> s[i]] /\ \A i \in 1..n : EventIn(s[i], last)
  BY <1>1
<1> QED BY <1>1, <1>2, EventsMade

\* Boards are listed as a sequence.
LEMMA BoardsListed ==
    ASSUME NEW bs
    PROVE  IsSequence(InBoardOrder(bs))
<1> DEFINE n == Len(BoardSeq)
           X == {BoardSeq[i] : i \in DOMAIN BoardSeq}
           T == Seq(X)
           U(v, k) == IF BoardSeq[k] \in bs THEN Append(v, BoardSeq[k]) ELSE v
           Is(g) == g = [k \in 0..n |-> IF k = 0 THEN <<>>
                                       ELSE IF BoardSeq[k] \in bs THEN Append(g[k - 1], BoardSeq[k])
                                       ELSE g[k - 1]]
           op == [k \in 1..n |-> [v \in T |-> U(v, k)]]
<1>1. n \in Nat /\ \A k \in 1..n : BoardSeq[k] \in X
  BY CallPlanAssumption, SequenceShape
<1> HIDE DEF n, X
<1>2. <<>> \in T
  OBVIOUS
<1>3. \A k \in 1..n : \A v \in T : U(v, k) \in T
  BY <1>1
<1>4. ASSUME NEW k \in 1..n, NEW v \in T
      PROVE  op[k][v] = U(v, k) /\ op[k][v] \in T
  BY <1>3
<1> HIDE DEF op, T
<1>5. PICK h : /\ Iterates(h, n, <<>>, op)
               /\ \A k \in 0..n : h[k] \in T
  <2>1. \A k \in 1..n : \A v \in T : op[k][v] \in T
    BY <1>4
  <2> QED BY <1>1, <1>2, <2>1, Recursion
<1>6. h = [k \in 0..n |-> IF k = 0 THEN <<>> ELSE op[k][h[k - 1]]]
  BY <1>5 DEF Iterates
<1>7. Is(h)
  <2>1. ASSUME NEW k \in 0..n
        PROVE  h[k] = IF k = 0 THEN <<>>
                      ELSE IF BoardSeq[k] \in bs THEN Append(h[k - 1], BoardSeq[k]) ELSE h[k - 1]
    <3>1. CASE k = 0
      BY <1>6, <3>1
    <3>2. CASE k # 0
      <4>1. k \in 1..n /\ k - 1 \in 0..n
        BY <1>1, <3>2
      <4>2. op[k][h[k - 1]] = U(h[k - 1], k)
        BY <1>4, <1>5, <4>1
      <4> QED BY <1>6, <3>2, <4>2
    <3> QED BY <3>1, <3>2
  <2>2. h = [k \in 0..n |-> h[k]]
    BY <1>6
  <2> QED BY <2>1, <2>2
<1> DEFINE g == CHOOSE f : Is(f)
<1>8. Is(g)
  BY <1>7
<1>9. InBoardOrder(bs) = g[n]
  BY DEF InBoardOrder, n
<1> HIDE DEF g
<1>10. g[0] = <<>> /\ \A k \in 1..n : g[k] = U(g[k - 1], k)
  <2>1. 0 \in 0..n /\ \A k \in 1..n : k \in 0..n /\ k # 0
    BY <1>1
  <2>2. \A k \in 0..n : g[k] = IF k = 0 THEN <<>> ELSE U(g[k - 1], k)
    BY <1>8
  <2> HIDE DEF U, Is
  <2> QED BY <2>1, <2>2
<1>11. \A k \in 0..n : g[k] \in T
  <2> DEFINE S == {k \in 0..n : g[k] \in T}
  <2>1. 0 \in S
    BY <1>1, <1>2, <1>10
  <2>2. ASSUME NEW k \in 0..(n - 1), k \in S PROVE k + 1 \in S
    <3>1. k + 1 \in 1..n /\ (k + 1) - 1 = k /\ k + 1 \in 0..n
      BY <1>1
    <3>2. g[k + 1] = U(g[k], k + 1) /\ g[k] \in T
      BY <1>10, <2>2, <3>1
    <3> HIDE DEF U
    <3> QED BY <1>3, <3>1, <3>2
  <2>3. \A k \in 0..n : k \in S
    <3> HIDE DEF S
    <3> QED BY <1>1, <2>1, <2>2, UpTo
  <2> QED BY <2>3
<1>12. g[n] \in Seq(X)
  BY <1>1, <1>11 DEF T
<1> DEFINE r == g[n]
           m == Len(r)
<1> HIDE DEF r
<1>13. r \in Seq(X)
  BY <1>12 DEF r
<1>14. m \in Nat /\ r = [i \in 1..m |-> r[i]]
  BY <1>13
<1> HIDE DEF m
<1>15. IsSequence(r)
  BY <1>14, SequenceOf
<1> QED BY <1>9, <1>15 DEF r

\* The events of several sequences, one after the other.
LEMMA EventsFlattened ==
    ASSUME NEW last, NEW seqs, IsSequence(seqs), \A i \in DOMAIN seqs : EventsIn(seqs[i], last)
    PROVE  EventsIn(FlattenSeq(seqs), last)
<1> DEFINE n == Len(seqs)
           X == UNION {{seqs[i][j] : j \in DOMAIN seqs[i]} : i \in 1..n}
           T == Seq(X)
<1>1. n \in Nat /\ DOMAIN seqs = 1..n
  BY SequenceShape
<1>2. CASE n = 0
  <2>1. EventsIn(seqs, last)
    BY <1>1, <1>2 DEF EventsIn
  <2>2. FlattenSeq(seqs) = seqs
    BY <1>2 DEF FlattenSeq
  <2> QED BY <2>1, <2>2
<1>3. CASE n # 0
  <2> DEFINE Is(g) == g = [i \in 1..n |-> IF i = 1 THEN seqs[i] ELSE g[i - 1] \o seqs[i]]
             op == [k \in 1..(n - 1) |-> [v \in T |-> v \o seqs[k + 1]]]
             g == CHOOSE f : Is(f)
  <2>1. FlattenSeq(seqs) = g[n]
    BY <1>3 DEF FlattenSeq
  <2>2. \A x \in X : EventIn(x, last)
    BY <1>1 DEF EventsIn
  <2>3. ASSUME NEW i \in 1..n PROVE seqs[i] \in T
    <3> DEFINE q == seqs[i]
               m == Len(q)
    <3>1. IsSequence(q) /\ \A j \in DOMAIN q : q[j] \in X
      BY <1>1 DEF EventsIn
    <3> HIDE DEF X, q
    <3>2. m \in Nat /\ DOMAIN q = 1..m /\ q = [j \in 1..m |-> q[j]]
      BY <3>1, SequenceShape
    <3> HIDE DEF m
    <3>3. q \in [1..m -> X]
      BY <3>1, <3>2
    <3>4. q \in Seq(X)
      BY <3>2, <3>3
    <3> QED BY <3>4 DEF q
  <2> HIDE DEF n, g, X
  <2>4. \A u, v \in T : u \o v \in T
    OBVIOUS
  <2>5. n - 1 \in Nat /\ 1 \in 1..n /\ \A k \in 1..(n - 1) : k + 1 \in 1..n
    BY <1>1, <1>3
  <2>6. ASSUME NEW k \in 1..(n - 1), NEW v \in T
        PROVE  op[k][v] = v \o seqs[k + 1] /\ op[k][v] \in T
    <3>1. op[k][v] = v \o seqs[k + 1]
      OBVIOUS
    <3> QED BY <2>3, <2>4, <2>5, <3>1
  <2> HIDE DEF op, T
  <2>7. PICK h : /\ Iterates(h, n - 1, seqs[1], op)
                 /\ \A k \in 0..(n - 1) : h[k] \in T
    <3>1. \A k \in 1..(n - 1) : \A v \in T : op[k][v] \in T
      BY <2>6
    <3>2. seqs[1] \in T
      BY <2>3, <2>5
    <3> QED BY <2>5, <3>1, <3>2, Recursion
  <2>8. h = [k \in 0..(n - 1) |-> IF k = 0 THEN seqs[1] ELSE op[k][h[k - 1]]]
    BY <2>7 DEF Iterates
  <2> DEFINE f == [i \in 1..n |-> h[i - 1]]
  <2>9. ASSUME NEW i \in 1..n
        PROVE  f[i] = IF i = 1 THEN seqs[i] ELSE f[i - 1] \o seqs[i]
    <3>1. f[i] = h[i - 1] /\ i - 1 \in 0..(n - 1)
      BY <1>1
    <3>2. CASE i = 1
      <4>1. h[0] = seqs[1]
        BY <2>5, <2>8
      <4> QED BY <3>1, <3>2, <4>1
    <3>3. CASE i # 1
      <4>1. i - 1 \in 1..(n - 1) /\ (i - 1) + 1 = i /\ (i - 1) - 1 \in 0..(n - 1) /\ i - 1 \in 1..n
            /\ i - 1 # 0
        BY <1>1, <3>3
      <4>2. f[i - 1] = h[(i - 1) - 1]
        BY <4>1
      <4>3. h[i - 1] = op[i - 1][h[(i - 1) - 1]]
        BY <2>8, <3>1, <4>1
      <4>4. op[i - 1][h[(i - 1) - 1]] = h[(i - 1) - 1] \o seqs[i]
        BY <2>6, <2>7, <4>1
      <4> QED BY <3>1, <3>3, <4>2, <4>3, <4>4
    <3> QED BY <3>2, <3>3
  <2>10. f = [i \in 1..n |-> f[i]]
    OBVIOUS
  <2> HIDE DEF f
  <2>11. Is(f)
    BY <2>9, <2>10
  <2>12. Is(g)
    BY <2>11 DEF g
  <2>13. g[1] = seqs[1] /\ \A k \in 1..(n - 1) : g[k + 1] = g[k] \o seqs[k + 1]
    <3>1. \A i \in 1..n : g[i] = IF i = 1 THEN seqs[i] ELSE g[i - 1] \o seqs[i]
      BY <2>12
    <3> HIDE DEF Is
    <3>2. ASSUME NEW k \in 1..(n - 1) PROVE g[k + 1] = g[k] \o seqs[k + 1]
      <4>1. k + 1 \in 1..n /\ k + 1 # 1 /\ (k + 1) - 1 = k
        BY <2>5
      <4> QED BY <3>1, <4>1
    <3> QED BY <2>5, <3>1, <3>2
  <2> HIDE DEF Is
  <2>14. \A k \in 0..(n - 1) : g[k + 1] \in T
    <3> DEFINE S == {k \in 0..(n - 1) : g[k + 1] \in T}
    <3>1. 0 \in S
      <4>1. 0 \in 0..(n - 1) /\ 0 + 1 = 1 /\ g[1] \in T
        BY <2>3, <2>5, <2>13
      <4> QED BY <4>1
    <3>2. ASSUME NEW k \in 0..((n - 1) - 1), k \in S PROVE k + 1 \in S
      <4>1. k + 1 \in 1..(n - 1) /\ k + 1 \in 0..(n - 1) /\ (k + 1) + 1 \in 1..n
        BY <2>5
      <4>2. g[(k + 1) + 1] = g[k + 1] \o seqs[(k + 1) + 1] /\ g[k + 1] \in T
        BY <2>13, <3>2, <4>1
      <4>3. g[(k + 1) + 1] \in T
        BY <2>3, <2>4, <4>1, <4>2
      <4> QED BY <4>1, <4>3
    <3>3. \A k \in 0..(n - 1) : k \in S
      <4> HIDE DEF S
      <4> QED BY <2>5, <3>1, <3>2, UpTo
    <3> QED BY <3>3
  <2>15. g[n] \in T
    <3>1. n - 1 \in 0..(n - 1) /\ (n - 1) + 1 = n
      BY <1>1, <2>5 DEF n
    <3> QED BY <2>14, <3>1
  <2> QED BY <2>1, <2>2, <2>15, EventsOver DEF T
<1> QED BY <1>2, <1>3

-----------------------------------------------------------------------------
(* The steps of lowering.                                                  *)

\* A call that failed has no plan.
LEMMA FailStep ==
    ASSUME EpochInv, NEW why, why # "epoch has no origin", Fail(why)
    PROVE  EpochInv'
BY DEF Fail, EpochInv

\* A task is done.
LEMMA ContinueStep ==
    ASSUME EpochInv, phase = "lower", NEW tasks, Continue(tasks),
           StackOk(tasks \o Tail(pending), DOMAIN origins', program, syncs, LastEpoch),
           EventsIn(ttl', LastEpoch), EventsIn(direct', LastEpoch), RampStops'
    PROVE  EpochInv'
<1>1. /\ pending' = tasks \o Tail(pending) /\ phase' = "lower"
      /\ UNCHANGED <<program, error, syncs, epochs>>
  BY DEF Continue
<1>2. LastEpoch' = LastEpoch
  BY <1>1 DEF LastEpoch
<1>3. error # "epoch has no origin" /\ SyncsOk(program, syncs) /\ epochs = <<>>
  BY DEF EpochInv
<1>4. SyncsOk(program', syncs')
  BY <1>1, <1>3
<1>5. StackOk(pending', DOMAIN origins', program', syncs', LastEpoch')
  BY <1>1, <1>2
<1> QED BY <1>1, <1>2, <1>3, <1>4, <1>5 DEF EpochInv

\* The task on top, and what is known while lowering.
LEMMA Topmost ==
    ASSUME EpochInv, phase = "lower", pending # <<>>
    PROVE  /\ SyncsOk(program, syncs) /\ LastEpoch \in Nat
           /\ StackOk(pending, DOMAIN origins, program, syncs, LastEpoch)
           /\ Top.task \in {"Visit", "FinishLoop"} /\ Top.epoch \in 0..LastEpoch
           /\ Top.task = "Visit" => /\ Top.node \in 1..Len(program.nodes)
                                    /\ syncs[Top.node] \in Nat
                                    /\ Top.epoch + syncs[Top.node] <= LastEpoch
           /\ EventsIn(ttl, LastEpoch) /\ EventsIn(direct, LastEpoch) /\ RampStops
<1>1. /\ SyncsOk(program, syncs) /\ EventsIn(ttl, LastEpoch) /\ EventsIn(direct, LastEpoch)
      /\ RampStops /\ StackOk(pending, DOMAIN origins, program, syncs, LastEpoch)
  BY DEF EpochInv
<1>2. program.root \in 1..Len(program.nodes) /\ syncs \in [1..Len(program.nodes) -> Nat]
  BY <1>1, SyncsAreCounts
<1>3. LastEpoch \in Nat
  BY <1>2 DEF LastEpoch
<1>4. IsSequence(pending) /\ \A i \in DOMAIN pending : TaskIn(pending[i], program, syncs, LastEpoch)
  BY <1>1 DEF StackOk
<1>5. 1 \in DOMAIN pending
  BY <1>4, Popped
<1>6. TaskIn(Top, program, syncs, LastEpoch)
  BY <1>4, <1>5 DEF Top
<1> QED BY <1>1, <1>2, <1>3, <1>6 DEF TaskIn

\* A task that passes no sync and pushes nothing.
LEMMA QuietStep ==
    ASSUME EpochInv, phase = "lower", pending # <<>>, Continue(<<>>), origins' = origins,
           Top.task = "Visit" => syncs[Top.node] = 0,
           EventsIn(ttl', LastEpoch), EventsIn(direct', LastEpoch), RampStops'
    PROVE  EpochInv'
<1>1. /\ StackOk(pending, DOMAIN origins, program, syncs, LastEpoch) /\ LastEpoch \in Nat
      /\ Top.epoch \in 0..LastEpoch
  BY Topmost
<1>2. \A e \in 0..(LastEpoch - 1) : ~Opens(pending[1], syncs, e)
  BY <1>1 DEF Opens, Top
<1>3. StackOk(<<>> \o Tail(pending), DOMAIN origins, program, syncs, LastEpoch)
  BY <1>1, <1>2, StackPop
<1>4. StackOk(<<>> \o Tail(pending), DOMAIN origins', program, syncs, LastEpoch)
  BY <1>3
<1> QED BY <1>4, ContinueStep

\* An operation on a channel appends events of its epoch.
LEMMA LoweredStep ==
    ASSUME EpochInv, NEW ops, Lowering(ops), "GlobalSync" \notin ops,
           NEW ttls, NEW directs, NEW state, NEW pid, Lowered(ttls, directs, state, pid),
           EventsIn(ttls, LastEpoch), EventsIn(directs, LastEpoch),
           "stop" \in DOMAIN state, IsSequence(state.stop)
    PROVE  EpochInv'
<1>1. /\ phase = "lower" /\ pending # <<>> /\ Top.task = "Visit"
      /\ program.nodes[Top.node].kind = "Atomic" /\ program.nodes[Top.node].op # "GlobalSync"
      /\ Top.channel \in DOMAIN Bindings
  BY DEF Lowering, AtomicAt, Visiting, OnChannel, Node
<1>2. /\ SyncsOk(program, syncs) /\ Top.node \in 1..Len(program.nodes)
      /\ EventsIn(ttl, LastEpoch) /\ EventsIn(direct, LastEpoch) /\ RampStops
  BY <1>1, Topmost
<1>3. syncs[Top.node] = 0
  BY <1>1, <1>2, LeafSyncs
<1>4. /\ ttl' = ttl \o ttls /\ direct' = direct \o directs
      /\ rwg' = [rwg EXCEPT ![Top.channel] = state]
      /\ Continue(<<>>) /\ origins' = origins
  BY DEF Lowered
<1>5. EventsIn(ttl', LastEpoch) /\ EventsIn(direct', LastEpoch)
  BY <1>2, <1>4, EventsJoined
<1>6. RampStops'
  BY <1>1, <1>2, <1>4 DEF RampStops
<1> QED BY <1>1, <1>3, <1>4, <1>5, <1>6, QuietStep

\* What is known of the node that is visited.
LEMMA Visited ==
    ASSUME EpochInv, NEW kind, Visiting(kind)
    PROVE  /\ phase = "lower" /\ pending # <<>> /\ Top.task = "Visit"
           /\ SyncsOk(program, syncs) /\ LastEpoch \in Nat
           /\ StackOk(pending, DOMAIN origins, program, syncs, LastEpoch)
           /\ Top.epoch \in 0..LastEpoch /\ Top.node \in 1..Len(program.nodes)
           /\ syncs[Top.node] \in Nat /\ Top.epoch + syncs[Top.node] <= LastEpoch
           /\ EventsIn(ttl, LastEpoch) /\ EventsIn(direct, LastEpoch) /\ RampStops
           /\ Node = program.nodes[Top.node] /\ Node.kind = kind
           /\ LinkedNode(Node, Top.node)
<1>1. phase = "lower" /\ pending # <<>> /\ Top.task = "Visit" /\ Node.kind = kind
  BY DEF Visiting
<1>2. Node = program.nodes[Top.node]
  BY DEF Node
<1>3. SyncsOk(program, syncs) /\ Top.node \in 1..Len(program.nodes)
  BY <1>1, Topmost
<1>4. LinkedNode(program.nodes[Top.node], Top.node)
  BY <1>3, SyncsAreCounts
<1> QED BY <1>1, <1>2, <1>3, <1>4, Topmost

\* The tasks a composition pushes replace it when each stays within the syncs of
\* the whole and together they pass them all.
LEMMA PushStep ==
    ASSUME EpochInv, NEW kind, Visiting(kind), NEW tasks, Continue(tasks),
           origins' = origins, ttl' = ttl, direct' = direct, rwg' = rwg,
           IsSequence(tasks),
           \A i \in DOMAIN tasks : TaskIn(tasks[i], program, syncs, LastEpoch),
           \A e \in 0..(LastEpoch - 1) :
             Opens(Top, syncs, e) => \E i \in DOMAIN tasks : Opens(tasks[i], syncs, e)
    PROVE  EpochInv'
<1>1. /\ phase = "lower" /\ pending # <<>> /\ LastEpoch \in Nat
      /\ StackOk(pending, DOMAIN origins, program, syncs, LastEpoch)
      /\ EventsIn(ttl, LastEpoch) /\ EventsIn(direct, LastEpoch) /\ RampStops
  BY Visited
<1>2. DOMAIN origins \subseteq 0..LastEpoch
  BY <1>1 DEF StackOk
<1>3. StackOk(tasks \o Tail(pending), DOMAIN origins, program, syncs, LastEpoch)
  BY <1>1, <1>2, StackStep DEF Top
<1>4. RampStops'
  BY <1>1 DEF RampStops
<1>5. /\ StackOk(tasks \o Tail(pending), DOMAIN origins', program, syncs, LastEpoch)
      /\ EventsIn(ttl', LastEpoch) /\ EventsIn(direct', LastEpoch)
  BY <1>1, <1>3
<1> QED BY <1>1, <1>4, <1>5, ContinueStep

\* A visit of a node, and what it passes.
LEMMA VisitTask ==
    ASSUME NEW id, NEW start, NEW epoch, NEW channel, NEW p, NEW s, NEW last
    PROVE  /\ (epoch \in 0..last /\ id \in 1..Len(p.nodes) /\ epoch + s[id] <= last)
                => TaskIn(Visit(id, start, epoch, channel), p, s, last)
           /\ \A e : Opens(Visit(id, start, epoch, channel), s, e)
                       <=> (epoch <= e /\ e < epoch + s[id])
BY DEF Visit, TaskIn, Opens

\* A wait.
LEMMA VisitWaitKeeps ==
    ASSUME EpochInv, VisitWait
    PROVE  EpochInv'
<1>1. Visiting("Wait")
  BY DEF VisitWait
<1>2. syncs[Top.node] = 0
  BY <1>1, Visited, LeafSyncs
<1>3. /\ phase = "lower" /\ pending # <<>> /\ EventsIn(ttl, LastEpoch)
      /\ EventsIn(direct, LastEpoch) /\ RampStops
  BY <1>1, Visited
<1>4. CASE Fail("before Epoch origin")
  BY <1>4, FailStep
<1>5. CASE Continue(<<>>) /\ UNCHANGED lowering
  <2>1. UNCHANGED <<origins, ttl, direct, rwg>>
    BY <1>5 DEF lowering
  <2>2. RampStops' /\ EventsIn(ttl', LastEpoch) /\ EventsIn(direct', LastEpoch)
    BY <1>3, <2>1 DEF RampStops
  <2> QED BY <1>2, <1>3, <1>5, <2>1, <2>2, QuietStep
<1> QED BY <1>4, <1>5 DEF VisitWait

\* A channel morphism.
LEMMA VisitInstantiateKeeps ==
    ASSUME EpochInv, VisitInstantiate
    PROVE  EpochInv'
<1>1. Visiting("Instantiate")
  BY DEF VisitInstantiate
<1> DEFINE v == Visit(Node.body, Top.start, Top.epoch, Node.channel)
           tasks == <<v>>
<1>2. CASE Fail("unbound channel")
  BY <1>2, FailStep
<1>3. CASE Continue(tasks) /\ UNCHANGED <<ttl, direct, rwg, origins>>
  <2>1. /\ syncs[Top.node] = syncs[Node.body] /\ Node.body \in 1..Len(program.nodes)
        /\ Top.epoch \in 0..LastEpoch /\ Top.epoch + syncs[Top.node] <= LastEpoch
        /\ Top.task = "Visit"
    BY <1>1, Visited, LeafSyncs
  <2>2. TaskIn(v, program, syncs, LastEpoch)
    BY <2>1, VisitTask
  <2>3. \A e : Opens(Top, syncs, e) => Opens(v, syncs, e)
    BY <2>1, VisitTask DEF Opens
  <2> HIDE DEF v
  <2>4. tasks = [i \in 1..1 |-> tasks[i]] /\ tasks[1] = v
    OBVIOUS
  <2> HIDE DEF tasks
  <2>5. IsSequence(tasks) /\ DOMAIN tasks = 1..1
    BY <2>4, SequenceOf
  <2>6. \A i \in DOMAIN tasks : TaskIn(tasks[i], program, syncs, LastEpoch)
    BY <2>2, <2>4, <2>5
  <2>7. \A e \in 0..(LastEpoch - 1) :
          Opens(Top, syncs, e) => \E i \in DOMAIN tasks : Opens(tasks[i], syncs, e)
    BY <2>3, <2>4, <2>5
  <2> QED BY <1>1, <1>3, <2>5, <2>6, <2>7, PushStep
<1> HIDE DEF v, tasks
<1> QED
  <2>1. Fail("unbound channel") \/ (Continue(tasks) /\ UNCHANGED <<ttl, direct, rwg, origins>>)
    BY DEF VisitInstantiate, v, tasks
  <2> QED BY <1>2, <1>3, <2>1

\* The children of a Serial: each begins in the epoch the one before it ended in.
LEMMA VisitSerialKeeps ==
    ASSUME EpochInv, VisitSerial
    PROVE  EpochInv'
<1>1. Visiting("Serial")
  BY DEF VisitSerial
<1> DEFINE cs == Node.children
           m == Len(cs)
           passed == Cursor([i \in DOMAIN cs |-> syncs[cs[i]]])
           moved == Cursor([i \in DOMAIN cs |-> timing[cs[i]].duration])
           tasks == [i \in DOMAIN cs |-> Visit(cs[i], Top.start + moved[i - 1],
                                               Top.epoch + passed[i - 1], Top.channel)]
<1>2. Continue(tasks) /\ UNCHANGED <<origins, ttl, direct, rwg>>
  BY DEF VisitSerial, lowering
<1>3. /\ SyncsOk(program, syncs) /\ Top.node \in 1..Len(program.nodes)
      /\ Node = program.nodes[Top.node] /\ Node.kind = "Serial" /\ LastEpoch \in Nat
      /\ Top.task = "Visit" /\ Top.epoch \in 0..LastEpoch /\ syncs[Top.node] \in Nat
      /\ Top.epoch + syncs[Top.node] <= LastEpoch
  BY <1>1, Visited
<1>4. cs = program.nodes[Top.node].children /\ program.nodes[Top.node].kind = "Serial"
  BY <1>3
<1> HIDE DEF moved, cs
<1>5. /\ m \in Nat /\ DOMAIN cs = 1..m
      /\ \A i \in 1..m : cs[i] \in 1..Len(program.nodes) /\ syncs[cs[i]] \in Nat
  BY <1>3, <1>4, ChildSyncs
<1>6. PICK g : ChainOf(g, cs, syncs, syncs[Top.node])
  BY <1>3, <1>4, ChainSyncs
<1>7. /\ g \in [0..m -> Int] /\ passed = g /\ g[0] = 0 /\ g[m] = syncs[Top.node]
      /\ \A k \in 1..m : g[k] = g[k - 1] + syncs[cs[k]]
      /\ \A k \in 0..m : g[k] \in 0..syncs[Top.node]
  BY <1>6 DEF ChainOf
<1> HIDE DEF passed, m
<1>8. \A i \in 1..m : tasks[i] = Visit(cs[i], Top.start + moved[i - 1], Top.epoch + g[i - 1], Top.channel)
  BY <1>5, <1>7
<1>9. tasks = [i \in 1..m |-> tasks[i]]
  BY <1>5
<1> HIDE DEF tasks
<1>10. IsSequence(tasks) /\ DOMAIN tasks = 1..m
  BY <1>5, <1>9, SequenceOf
<1>11. ASSUME NEW i \in 1..m
      PROVE  /\ TaskIn(tasks[i], program, syncs, LastEpoch)
             /\ \A e : Opens(tasks[i], syncs, e)
                         <=> (Top.epoch + g[i - 1] <= e /\ e < Top.epoch + g[i - 1] + syncs[cs[i]])
  <2>1. i - 1 \in 0..m /\ i \in 0..m
    BY <1>5
  <2>2. /\ g[i - 1] \in 0..syncs[Top.node] /\ g[i] \in 0..syncs[Top.node]
        /\ g[i] = g[i - 1] + syncs[cs[i]]
    BY <1>7, <2>1
  <2>3. Top.epoch + g[i - 1] \in 0..LastEpoch /\ Top.epoch + g[i - 1] + syncs[cs[i]] <= LastEpoch
    <3> DEFINE a == Top.epoch
               w == syncs[Top.node]
               x == g[i - 1]
               y == g[i]
               c == syncs[cs[i]]
               last == LastEpoch
    <3>1. /\ a \in 0..last /\ last \in Nat /\ w \in Nat /\ a + w <= last /\ c \in Nat
          /\ x \in 0..w /\ y \in 0..w /\ y = x + c
      BY <1>3, <1>5, <2>2
    <3> HIDE DEF a, w, x, y, c, last
    <3>2. a + x \in 0..last /\ a + x + c <= last
      BY <3>1
    <3> QED BY <3>2 DEF a, x, c, last
  <2>4. cs[i] \in 1..Len(program.nodes)
    BY <1>5
  <2> DEFINE start == Top.start + moved[i - 1]
             epoch == Top.epoch + g[i - 1]
  <2>5. tasks[i] = Visit(cs[i], start, epoch, Top.channel)
    BY <1>8
  <2> HIDE DEF start, epoch
  <2>6. epoch \in 0..LastEpoch /\ epoch + syncs[cs[i]] <= LastEpoch
    BY <2>3 DEF epoch
  <2>7. TaskIn(tasks[i], program, syncs, LastEpoch)
    BY <2>4, <2>5, <2>6, VisitTask
  <2>8. \A e : Opens(tasks[i], syncs, e) <=> (epoch <= e /\ e < epoch + syncs[cs[i]])
    BY <2>5, VisitTask
  <2> QED BY <2>7, <2>8 DEF epoch
<1>12. ASSUME NEW e \in 0..(LastEpoch - 1), Opens(Top, syncs, e)
       PROVE  \E i \in DOMAIN tasks : Opens(tasks[i], syncs, e)
  <2> DEFINE x == e - Top.epoch
  <2>1. x \in Int /\ g[0] <= x /\ x < g[m] /\ e = Top.epoch + x
    BY <1>3, <1>7, <1>12 DEF Opens
  <2> HIDE DEF x
  <2>2. PICK k \in 1..m : g[k - 1] <= x /\ x < g[k]
    BY <1>5, <1>7, <2>1, Crossing
  <2>3. k - 1 \in 0..m /\ g[k - 1] \in Int /\ g[k] = g[k - 1] + syncs[cs[k]] /\ syncs[cs[k]] \in Nat
    BY <1>5, <1>7
  <2>4. Top.epoch + g[k - 1] <= e /\ e < Top.epoch + g[k - 1] + syncs[cs[k]]
    <3>1. \A a, w, y, z, c \in Int : (y <= w /\ w < z /\ z = y + c) => a + y <= a + w /\ a + w < a + y + c
      OBVIOUS
    <3>2. Top.epoch \in Int /\ g[k] \in Int
      BY <1>3, <1>7
    <3> QED BY <2>1, <2>2, <2>3, <3>1, <3>2
  <2>5. Opens(tasks[k], syncs, e)
    BY <1>11, <2>4
  <2> QED BY <1>10, <2>5
<1> QED BY <1>1, <1>2, <1>10, <1>11, <1>12, PushStep

\* The branches of a Parallel.
LEMMA VisitParallelKeeps ==
    ASSUME EpochInv, VisitParallel
    PROVE  EpochInv'
<1>1. Visiting("Parallel")
  BY DEF VisitParallel
<1> DEFINE cs == Node.children
           m == Len(cs)
           tasks == [i \in DOMAIN cs |-> Visit(cs[i], Top.start, Top.epoch, Top.channel)]
<1>2. Continue(tasks) /\ UNCHANGED <<origins, ttl, direct, rwg>>
  BY DEF VisitParallel, lowering
<1>3. /\ SyncsOk(program, syncs) /\ Top.node \in 1..Len(program.nodes)
      /\ Node = program.nodes[Top.node] /\ Node.kind = "Parallel"
      /\ Top.task = "Visit" /\ Top.epoch \in 0..LastEpoch /\ syncs[Top.node] \in Nat
      /\ Top.epoch + syncs[Top.node] <= LastEpoch
  BY <1>1, Visited
<1>4. cs = program.nodes[Top.node].children /\ program.nodes[Top.node].kind = "Parallel"
  BY <1>3
<1> HIDE DEF cs
<1>5. /\ m \in Nat \ {0} /\ DOMAIN cs = 1..m
      /\ \A i \in 1..m : cs[i] \in 1..Len(program.nodes)
  BY <1>3, <1>4, ChildSyncs
<1>6. AllPass(cs, syncs, syncs[Top.node])
  BY <1>3, <1>4, BranchSyncs
<1>7. \A i \in 1..m : syncs[cs[i]] = syncs[Top.node]
  BY <1>6 DEF AllPass
<1> HIDE DEF m
<1>8. tasks = [i \in 1..m |-> tasks[i]]
      /\ \A i \in 1..m : tasks[i] = Visit(cs[i], Top.start, Top.epoch, Top.channel)
  BY <1>5
<1> HIDE DEF tasks
<1>9. IsSequence(tasks) /\ DOMAIN tasks = 1..m
  BY <1>5, <1>8, SequenceOf
<1>10. \A i \in DOMAIN tasks : TaskIn(tasks[i], program, syncs, LastEpoch)
  BY <1>3, <1>5, <1>7, <1>8, <1>9, VisitTask
<1>11. ASSUME NEW e \in 0..(LastEpoch - 1), Opens(Top, syncs, e)
      PROVE  \E i \in DOMAIN tasks : Opens(tasks[i], syncs, e)
  <2>1. 1 \in 1..m
    BY <1>5
  <2>2. Opens(tasks[1], syncs, e)
    <3>1. Top.epoch <= e /\ e < Top.epoch + syncs[cs[1]]
      BY <1>7, <1>11, <2>1 DEF Opens
    <3>2. tasks[1] = Visit(cs[1], Top.start, Top.epoch, Top.channel)
      BY <1>8, <2>1
    <3> QED BY <3>1, <3>2, VisitTask
  <2> QED BY <1>9, <2>1, <2>2
<1> QED BY <1>1, <1>2, <1>9, <1>10, <1>11, PushStep

\* The body of a loop passes no sync, expanded or not.
LEMMA VisitLoopKeeps ==
    ASSUME EpochInv, VisitRewindingLoop \/ VisitHardwareLoop
    PROVE  EpochInv'
<1>1. Visiting("Loop")
  BY DEF VisitRewindingLoop, VisitHardwareLoop
<1>2. /\ SyncsOk(program, syncs) /\ Top.node \in 1..Len(program.nodes)
      /\ Node = program.nodes[Top.node] /\ Node.kind = "Loop" /\ LinkedNode(Node, Top.node)
      /\ Top.task = "Visit" /\ Top.epoch \in 0..LastEpoch /\ LastEpoch \in Nat
  BY <1>1, Visited
<1>3. Node.body \in 1..Len(program.nodes) /\ syncs[Node.body] = 0 /\ syncs[Top.node] = 0
  BY <1>2, LeafSyncs
<1>4. \A e \in 0..(LastEpoch - 1) : ~Opens(Top, syncs, e)
  BY <1>2, <1>3 DEF Opens
<1>5. \A start : TaskIn(Visit(Node.body, start, Top.epoch, Top.channel), program, syncs, LastEpoch)
  <2> TAKE start
  <2>1. Top.epoch + syncs[Node.body] <= LastEpoch
    BY <1>2, <1>3
  <2> QED BY <1>2, <1>3, <2>1, VisitTask
<1>6. CASE VisitRewindingLoop
  <2> DEFINE m == Node.count
             tasks == [i \in 1..m |-> Visit(Node.body, Top.start + (i - 1) * timing[Node.body].duration,
                                            Top.epoch, Top.channel)]
  <2>1. Fail("expansion budget") \/ (Continue(tasks) /\ UNCHANGED <<origins, ttl, direct, rwg>>)
    BY <1>6 DEF VisitRewindingLoop
  <2>2. m \in Nat
    BY <1>2 DEF LinkedNode
  <2>3. tasks = [i \in 1..m |-> tasks[i]]
    OBVIOUS
  <2>4. \A i \in 1..m : TaskIn(tasks[i], program, syncs, LastEpoch)
    BY <1>5
  <2> HIDE DEF tasks, m
  <2>5. IsSequence(tasks) /\ DOMAIN tasks = 1..m
    BY <2>2, <2>3, SequenceOf
  <2>6. CASE Fail("expansion budget")
    BY <2>6, FailStep
  <2>7. CASE Continue(tasks) /\ UNCHANGED <<origins, ttl, direct, rwg>>
    BY <1>1, <1>4, <2>4, <2>5, <2>7, PushStep
  <2> QED BY <2>1, <2>6, <2>7
<1>7. CASE VisitHardwareLoop
  <2> DEFINE a == Visit(Node.body, Top.start, Top.epoch, Top.channel)
             b == [task |-> "FinishLoop", start |-> Top.start, epoch |-> Top.epoch,
                   body |-> timing[Node.body].duration, total |-> timing[Top.node].duration,
                   count |-> Node.count, ttl |-> Len(ttl), direct |-> Len(direct),
                   opaque |-> Len(opaque), ordinary |-> Len(ordinary)]
             tasks == <<a, b>>
  <2>1. \/ Fail("loop before Epoch origin")
        \/ Continue(tasks) /\ UNCHANGED <<origins, ttl, direct, rwg>>
    BY <1>7 DEF VisitHardwareLoop, lowering
  <2>2. TaskIn(a, program, syncs, LastEpoch)
    BY <1>5
  <2>3. b.task = "FinishLoop" /\ b.epoch = Top.epoch
    OBVIOUS
  <2> HIDE DEF a, b
  <2>4. TaskIn(b, program, syncs, LastEpoch)
    BY <1>2, <2>3 DEF TaskIn
  <2>5. tasks = [i \in 1..2 |-> tasks[i]] /\ \A i \in 1..2 : tasks[i] \in {a, b}
    OBVIOUS
  <2> HIDE DEF tasks
  <2>6. IsSequence(tasks) /\ DOMAIN tasks = 1..2
    BY <2>5, SequenceOf
  <2>7. \A i \in DOMAIN tasks : TaskIn(tasks[i], program, syncs, LastEpoch)
    BY <2>2, <2>4, <2>5, <2>6
  <2>8. CASE Fail("loop before Epoch origin")
    BY <2>8, FailStep
  <2>9. CASE Continue(tasks) /\ UNCHANGED <<origins, ttl, direct, rwg>>
    BY <1>1, <1>4, <2>6, <2>7, <2>9, PushStep
  <2> QED BY <2>1, <2>8, <2>9
<1> QED BY <1>6, <1>7

\* The marks of a loop are events of its epoch, and its events stay in theirs.
LEMMA FinishLoopKeeps ==
    ASSUME EpochInv, FinishLoop
    PROVE  EpochInv'
<1>1. phase = "lower" /\ pending # <<>> /\ Top.task = "FinishLoop"
  BY DEF FinishLoop
<1>2. /\ LastEpoch \in Nat /\ Top.epoch \in 0..LastEpoch
      /\ EventsIn(ttl, LastEpoch) /\ EventsIn(direct, LastEpoch) /\ RampStops
  BY <1>1, Topmost
<1> DEFINE t == Top
           boards == BoardsOf(From(ttl, t.ttl)) \cup BoardsOf(From(direct, t.direct))
           Scoped(s, from) == [i \in DOMAIN s |-> IF i > from THEN [s[i] EXCEPT !.scope = nextId]
                                                  ELSE s[i]]
           Marker(b, offset, function, args, cost) ==
             [DirectEvent(t.epoch, offset, b, function, args, cost, BOARD, nextId)
                EXCEPT !.scope = nextId]
           Markers(b) == <<Marker(b, t.start, "LoopBegin", <<1, t.count>>, 0),
                           Marker(b, t.start + t.body, "LoopEnd", <<>>, t.total - t.body)>>
           listed == InBoardOrder(boards)
           marks == [k \in DOMAIN listed |-> Markers(listed[k])]
           st == Scoped(ttl, t.ttl)
           sd == Scoped(direct, t.direct)
<1>3. \/ Fail("opaque conflict") \/ Fail("loop shorter than its body")
      \/ /\ ttl' = st /\ direct' = sd \o FlattenSeq(marks)
         /\ Continue(<<>>) /\ UNCHANGED <<rwg, origins>>
  BY DEF FinishLoop
<1>4. CASE Fail("opaque conflict")
  BY <1>4, FailStep
<1>5. CASE Fail("loop shorter than its body")
  BY <1>5, FailStep
<1>6. CASE /\ ttl' = st /\ direct' = sd \o FlattenSeq(marks)
           /\ Continue(<<>>) /\ UNCHANGED <<rwg, origins>>
  <2>1. ASSUME NEW s, NEW from, EventsIn(s, LastEpoch) PROVE EventsIn(Scoped(s, from), LastEpoch)
    <3> DEFINE r == Scoped(s, from)
    <3>1. r = [i \in DOMAIN s |-> r[i]]
      OBVIOUS
    <3>2. ASSUME NEW i \in DOMAIN s PROVE EventIn(r[i], LastEpoch)
      <4>1. EventIn(s[i], LastEpoch)
        BY <2>1 DEF EventsIn
      <4>2. EventIn([s[i] EXCEPT !.scope = nextId], LastEpoch)
        BY <4>1, EventChanged
      <4> QED BY <4>1, <4>2
    <3> HIDE DEF r
    <3>3. EventsIn(r, LastEpoch)
      BY <2>1, <3>1, <3>2, EventsChanged
    <3> QED BY <3>3 DEF r
  <2>2. EventsIn(st, LastEpoch) /\ EventsIn(sd, LastEpoch)
    BY <1>2, <2>1
  <2>3. ASSUME NEW b PROVE EventsIn(Markers(b), LastEpoch)
    <3> DEFINE x == Marker(b, t.start, "LoopBegin", <<1, t.count>>, 0)
               y == Marker(b, t.start + t.body, "LoopEnd", <<>>, t.total - t.body)
               two == <<x, y>>
    <3>1. EventIn(x, LastEpoch) /\ EventIn(y, LastEpoch)
      BY <1>2, DirectEventIn, EventChanged
    <3> HIDE DEF x, y
    <3>2. two = [i \in 1..2 |-> two[i]] /\ \A i \in 1..2 : two[i] \in {x, y}
      OBVIOUS
    <3> HIDE DEF two
    <3>3. EventsIn(two, LastEpoch)
      BY <3>1, <3>2, EventsMade
    <3> QED BY <3>3 DEF two, x, y
  <2> HIDE DEF Markers
  <2>4. IsSequence(listed)
    BY BoardsListed
  <2> HIDE DEF listed
  <2>5. marks = [k \in 1..Len(listed) |-> marks[k]] /\ Len(listed) \in Nat
        /\ \A k \in 1..Len(listed) : marks[k] = Markers(listed[k])
    BY <2>4, SequenceShape
  <2> HIDE DEF marks
  <2>6. IsSequence(marks) /\ DOMAIN marks = 1..Len(listed)
    BY <2>5, SequenceOf
  <2>7. \A k \in DOMAIN marks : EventsIn(marks[k], LastEpoch)
    BY <2>3, <2>5, <2>6
  <2>8. EventsIn(FlattenSeq(marks), LastEpoch)
    BY <2>6, <2>7, EventsFlattened
  <2> HIDE DEF st, sd
  <2>9. EventsIn(ttl', LastEpoch) /\ EventsIn(direct', LastEpoch)
    BY <1>6, <2>2, <2>8, EventsJoined
  <2>10. RampStops'
    BY <1>2, <1>6 DEF RampStops
  <2> QED BY <1>1, <1>6, <2>9, <2>10, QuietStep
<1> QED BY <1>3, <1>4, <1>5, <1>6

\* The calls of a black box.
LEMMA VisitOpaqueKeeps ==
    ASSUME EpochInv, VisitOpaque
    PROVE  EpochInv'
<1>1. Visiting("Opaque")
  BY DEF VisitOpaque
<1>2. /\ phase = "lower" /\ pending # <<>> /\ Top.epoch \in 0..LastEpoch
      /\ SyncsOk(program, syncs) /\ Top.node \in 1..Len(program.nodes)
      /\ EventsIn(ttl, LastEpoch) /\ EventsIn(direct, LastEpoch) /\ RampStops
      /\ LinkedNode(Node, Top.node) /\ Node.kind = "Opaque"
  BY <1>1, Visited
<1>3. syncs[Top.node] = 0
  BY <1>1, <1>2, Visited, LeafSyncs
<1> DEFINE calls == Node.calls
           es == [i \in DOMAIN calls |->
                    DirectEvent(Top.epoch, Top.start, calls[i].board, "UserDefinedFunc",
                                <<calls[i].callable>>, timing[Top.node].duration, BOARD, nextId)]
<1>4. \/ Fail("blackbox before Epoch origin") \/ Fail("blackbox board")
      \/ direct' = direct \o es /\ Continue(<<>>) /\ UNCHANGED <<ttl, rwg, origins>>
  BY DEF VisitOpaque
<1>5. IsSequence(calls)
  BY <1>2 DEF LinkedNode
<1>6. Len(calls) \in Nat /\ DOMAIN calls = 1..Len(calls)
  BY <1>5, SequenceShape
<1> HIDE DEF calls
<1>7. es = [i \in 1..Len(calls) |-> es[i]]
  BY <1>6
<1>8. \A i \in 1..Len(calls) : EventIn(es[i], LastEpoch)
  BY <1>2, <1>6, DirectEventIn
<1> HIDE DEF es
<1>9. EventsIn(es, LastEpoch)
  BY <1>6, <1>7, <1>8, EventsMade
<1>10. CASE direct' = direct \o es /\ Continue(<<>>) /\ UNCHANGED <<ttl, rwg, origins>>
  <2>1. EventsIn(ttl', LastEpoch) /\ EventsIn(direct', LastEpoch)
    BY <1>2, <1>9, <1>10, EventsJoined
  <2>2. RampStops'
    BY <1>2, <1>10 DEF RampStops
  <2> QED BY <1>2, <1>3, <1>10, <2>1, <2>2, QuietStep
<1>11. CASE Fail("blackbox before Epoch origin")
  BY <1>11, FailStep
<1>12. CASE Fail("blackbox board")
  BY <1>12, FailStep
<1> QED BY <1>4, <1>10, <1>11, <1>12

\* The sync that ends an epoch opens the next.
LEMMA GlobalSyncKeeps ==
    ASSUME EpochInv, GlobalSync
    PROVE  EpochInv'
<1>1. Visiting("Atomic") /\ Node.op = "GlobalSync"
  BY DEF GlobalSync, AtomicAt
<1>2. /\ phase = "lower" /\ pending # <<>> /\ Top.task = "Visit" /\ Top.epoch \in 0..LastEpoch
      /\ SyncsOk(program, syncs) /\ Top.node \in 1..Len(program.nodes) /\ LastEpoch \in Nat
      /\ Top.epoch + syncs[Top.node] <= LastEpoch
      /\ StackOk(pending, DOMAIN origins, program, syncs, LastEpoch)
      /\ EventsIn(ttl, LastEpoch) /\ EventsIn(direct, LastEpoch) /\ RampStops
      /\ Node = program.nodes[Top.node] /\ Node.kind = "Atomic"
  BY <1>1, Visited
<1>3. syncs[Top.node] = 1
  BY <1>1, <1>2, LeafSyncs
<1> DEFINE e == Top.epoch
           Ends(s) == {s[i].offset + s[i].cost : i \in {j \in DOMAIN s : s[j].epoch = e}}
           ends == Ends(direct) \cup Ends(ttl)
           frontier == IF ends = {} THEN Top.start ELSE Max(ends)
           wait == SaturatingSub(frontier, Top.start) + GLOBAL_SYNC_MARGIN_CYCLES
           known == InBoardOrder(DOMAIN Boards)
           Sync(k) == LET master == Boards[known[k]].kind = "Main"
                      IN DirectEvent(e, Top.start, known[k], IF master THEN "TrigSlave" ELSE "WaitMaster",
                                     IF master THEN <<wait>> ELSE <<>>, InstructionCost["GlobalSync"],
                                     BOARD, nextId)
           es == [k \in DOMAIN known |-> Sync(k)]
<1>4. \/ Fail("second sync of an epoch")
      \/ /\ DOMAIN origins' = DOMAIN origins \cup {e + 1} /\ direct' = direct \o es
         /\ Continue(<<>>) /\ UNCHANGED <<ttl, rwg>>
  BY DEF GlobalSync
<1>5. Len(known) \in Nat /\ DOMAIN known = 1..Len(known)
  BY BoardsListed, SequenceShape
<1>6. ASSUME NEW k PROVE EventIn(Sync(k), LastEpoch)
  BY <1>2, DirectEventIn
<1> HIDE DEF known, Sync
<1>7. es = [k \in 1..Len(known) |-> es[k]] /\ \A k \in 1..Len(known) : es[k] = Sync(k)
  BY <1>5
<1> HIDE DEF es
<1>8. EventsIn(es, LastEpoch)
  BY <1>5, <1>6, <1>7, EventsMade
<1>9. CASE Fail("second sync of an epoch")
  BY <1>9, FailStep
<1>10. CASE /\ DOMAIN origins' = DOMAIN origins \cup {e + 1} /\ direct' = direct \o es
            /\ Continue(<<>>) /\ UNCHANGED <<ttl, rwg>>
  <2>1. EventsIn(ttl', LastEpoch) /\ EventsIn(direct', LastEpoch)
    BY <1>2, <1>8, <1>10, EventsJoined
  <2>2. RampStops'
    BY <1>2, <1>10 DEF RampStops
  <2>3. DOMAIN origins' = DOMAIN origins \cup {e + 1}
    BY <1>10
  <2>4. e + 1 \in 0..LastEpoch /\ DOMAIN origins \subseteq 0..LastEpoch
    BY <1>2, <1>3 DEF StackOk
  <2> DEFINE none == <<>>
             after == DOMAIN origins'
  <2>5. none = [i \in 1..0 |-> none[i]] /\ DOMAIN none = {}
    OBVIOUS
  <2> HIDE DEF none
  <2>6. IsSequence(none)
    BY <2>5, SequenceOf
  <2>7. \A x \in 0..(LastEpoch - 1) : Opens(pending[1], syncs, x) => x + 1 \in after
    <3> SUFFICES ASSUME NEW x \in 0..(LastEpoch - 1), Opens(pending[1], syncs, x)
                 PROVE  x + 1 \in after
      OBVIOUS
    <3>1. x = e
      BY <1>2, <1>3 DEF Opens, Top
    <3> QED BY <2>3, <3>1
  <2>8. DOMAIN origins \subseteq after /\ after \subseteq 0..LastEpoch
    BY <2>3, <2>4
  <2> HIDE DEF after
  <2>9. StackOk(none \o Tail(pending), after, program, syncs, LastEpoch)
    BY <1>2, <2>5, <2>6, <2>7, <2>8, StackStep
  <2>10. Continue(none)
    BY <1>10 DEF none
  <2> QED BY <1>2, <2>1, <2>2, <2>9, <2>10, ContinueStep DEF after
<1> QED BY <1>4, <1>9, <1>10

\* An operation that is bound to no channel, or to none of its kind.
LEMMA UnboundKeeps ==
    ASSUME EpochInv, AtomicRejected \/ OpaqueOperation
    PROVE  EpochInv'
<1>1. CASE AtomicRejected
  <2>1. Fail("before Epoch origin") \/ Fail("no such channel")
    BY <1>1 DEF AtomicRejected
  <2>2. CASE Fail("before Epoch origin")
    BY <2>2, FailStep
  <2>3. CASE Fail("no such channel")
    BY <2>3, FailStep
  <2> QED BY <2>1, <2>2, <2>3
<1>2. CASE OpaqueOperation
  <2> DEFINE x == DirectEvent(Top.epoch, Top.start, OpaqueBoard, "UserDefinedFunc", <<Node.call>>,
                              InstructionCost["Opaque"], BOARD, nextId)
  <2>1. Visiting("Atomic") /\ Node.op = "Opaque"
    BY <1>2 DEF OpaqueOperation, AtomicAt
  <2>2. /\ phase = "lower" /\ pending # <<>> /\ Top.epoch \in 0..LastEpoch
        /\ SyncsOk(program, syncs) /\ Top.node \in 1..Len(program.nodes)
        /\ EventsIn(ttl, LastEpoch) /\ EventsIn(direct, LastEpoch) /\ RampStops
        /\ Node = program.nodes[Top.node] /\ Node.kind = "Atomic"
    BY <2>1, Visited
  <2>3. syncs[Top.node] = 0
    BY <2>1, <2>2, LeafSyncs
  <2>4. \/ Fail("opaque binding")
        \/ direct' = Append(direct, x) /\ Continue(<<>>) /\ UNCHANGED <<ttl, rwg, origins>>
    BY <1>2 DEF OpaqueOperation
  <2>5. EventIn(x, LastEpoch)
    BY <2>2, DirectEventIn
  <2> HIDE DEF x
  <2>6. CASE direct' = Append(direct, x) /\ Continue(<<>>) /\ UNCHANGED <<ttl, rwg, origins>>
    <3> DEFINE d == direct
               T == {d[i] : i \in DOMAIN d} \cup {x}
    <3>1. \A z \in T : EventIn(z, LastEpoch)
      BY <2>2, <2>5 DEF EventsIn
    <3>2. d \in Seq(T)
      <4>1. Len(d) \in Nat /\ DOMAIN d = 1..Len(d) /\ d = [i \in 1..Len(d) |-> d[i]]
        BY <2>2, SequenceShape DEF EventsIn
      <4>2. \A i \in 1..Len(d) : d[i] \in T
        BY <4>1
      <4> HIDE DEF T, d
      <4>3. d \in [1..Len(d) -> T]
        BY <4>1, <4>2
      <4> QED BY <4>1, <4>3
    <3>3. x \in T
      OBVIOUS
    <3> HIDE DEF T, d
    <3>4. Append(d, x) \in Seq(T)
      BY <3>2, <3>3
    <3>5. EventsIn(Append(d, x), LastEpoch)
      BY <3>1, <3>4, EventsOver
    <3>6. EventsIn(ttl', LastEpoch) /\ EventsIn(direct', LastEpoch)
      BY <2>2, <2>6, <3>5 DEF d
    <3>7. RampStops'
      BY <2>2, <2>6 DEF RampStops
    <3> QED BY <2>2, <2>3, <2>6, <3>6, <3>7, QuietStep
  <2>7. CASE Fail("opaque binding")
    BY <2>7, FailStep
  <2> QED BY <2>4, <2>6, <2>7
<1> QED BY <1>1, <1>2

\* What is known of an operation on a channel.
LEMMA OnItsChannel ==
    ASSUME EpochInv, NEW ops, Lowering(ops)
    PROVE  /\ Top.epoch \in 0..LastEpoch /\ LinkedNode(Node, Top.node) /\ Node.kind = "Atomic"
           /\ Node.op \in ops
           /\ "stop" \in DOMAIN Rwg /\ IsSequence(Rwg.stop)
           /\ \A o, f, a : EventIn(Call(o, f, a), LastEpoch)
<1>1. Visiting("Atomic") /\ Node.op \in ops /\ Top.channel \in DOMAIN Bindings
  BY DEF Lowering, AtomicAt, OnChannel
<1>2. /\ Top.epoch \in 0..LastEpoch /\ RampStops /\ LinkedNode(Node, Top.node)
      /\ Node.kind = "Atomic"
  BY <1>1, Visited
<1>3. "stop" \in DOMAIN Rwg /\ IsSequence(Rwg.stop)
  BY <1>1, <1>2 DEF RampStops, Rwg
<1>4. \A o, f, a : EventIn(Call(o, f, a), LastEpoch)
  BY <1>2, DirectEventIn DEF Call
<1> QED BY <1>1, <1>2, <1>3, <1>4

\* TTL operations.
LEMMA LowerTtlKeeps ==
    ASSUME EpochInv, LowerTtl
    PROVE  EpochInv'
<1>1. CASE TtlSet
  <2> DEFINE x == [epoch |-> Top.epoch, offset |-> Top.start, board |-> Binding.board,
                   local |-> Binding.local, high |-> Node.op # "TtlSetLow",
                   cost |-> InstructionCost[Node.op],
                   order |-> ChannelOrder(Binding.kind, Binding.local, nextId),
                   scope |-> NoScope]
             ops == {"TtlSetHigh", "TtlSetLow"}
  <2>1. Lowering(ops) /\ "GlobalSync" \notin ops
    BY <1>1 DEF TtlSet
  <2>2. Fail("invalid TTL local id") \/ Lowered(<<x>>, <<>>, Rwg, Pid)
    BY <1>1 DEF TtlSet
  <2> HIDE DEF ops
  <2>3. Top.epoch \in 0..LastEpoch /\ "stop" \in DOMAIN Rwg /\ IsSequence(Rwg.stop)
    BY <2>1, OnItsChannel
  <2>4. EventIn(x, LastEpoch)
    BY <2>3 DEF EventIn
  <2> HIDE DEF x
  <2>5. EventsIn(<<x>>, LastEpoch) /\ EventsIn(<<>>, LastEpoch)
    BY <2>4, EventsFew
  <2>6. CASE Lowered(<<x>>, <<>>, Rwg, Pid)
    BY <2>1, <2>3, <2>5, <2>6, LoweredStep
  <2>7. CASE Fail("invalid TTL local id")
    BY <2>7, FailStep
  <2> QED BY <2>2, <2>6, <2>7
<1>2. CASE TtlInitialize
  <2> DEFINE x == Call(Top.start, "TtlConfig", <<{Binding.local}, {}>>)
             ops == {"TtlInitialize"}
  <2>1. Lowering(ops) /\ "GlobalSync" \notin ops /\ Lowered(<<>>, <<x>>, Rwg, Pid)
    BY <1>2 DEF TtlInitialize
  <2> HIDE DEF ops
  <2>2. EventIn(x, LastEpoch) /\ "stop" \in DOMAIN Rwg /\ IsSequence(Rwg.stop)
    BY <2>1, OnItsChannel
  <2> HIDE DEF x
  <2>3. EventsIn(<<x>>, LastEpoch) /\ EventsIn(<<>>, LastEpoch)
    BY <2>2, EventsFew
  <2> QED BY <2>1, <2>2, <2>3, LoweredStep
<1> QED BY <1>1, <1>2 DEF LowerTtl

\* The loads of a waveform each: as many events as waveforms, and a stop to load
\* when a ramp ends.
LEMMA LoadWaveformsKeeps ==
    ASSUME EpochInv, NEW ops, Lowering(ops), "GlobalSync" \notin ops,
           NEW ws, IsSequence(ws), NEW next, NEW snapshot, NEW stop, IsSequence(stop),
           LoadWaveforms(ws, next, snapshot, stop)
    PROVE  EpochInv'
<1> DEFINE L(i) == [Call(Top.start, "RwgLoadWaveform", <<ws[i]>>) EXCEPT !.preload = TRUE]
           es == [i \in DOMAIN ws |-> L(i)]
           r == RwgState("WaveformsLoaded", Rwg.rfOn, next, snapshot, stop, nextId)
<1>1. Lowered(<<>>, es, r, Pid)
  BY DEF LoadWaveforms
<1>2. ASSUME NEW i PROVE EventIn(L(i), LastEpoch)
  BY OnItsChannel, EventChanged
<1>3. "stop" \in DOMAIN r /\ r.stop = stop
  BY DEF RwgState
<1> HIDE DEF L, r
<1>4. Len(ws) \in Nat /\ DOMAIN ws = 1..Len(ws)
  BY SequenceShape
<1>5. es = [i \in 1..Len(ws) |-> es[i]] /\ \A i \in 1..Len(ws) : es[i] = L(i)
  BY <1>4
<1> HIDE DEF es
<1>6. EventsIn(es, LastEpoch)
  BY <1>2, <1>4, <1>5, EventsMade
<1>7. EventsIn(<<>>, LastEpoch)
  BY EventsFew
<1> QED BY <1>1, <1>3, <1>6, <1>7, LoweredStep

\* RWG operations.
LEMMA LowerRwgKeeps ==
    ASSUME EpochInv, LowerRwg
    PROVE  EpochInv'
<1>1. IsSequence(<<>>) /\ EventsIn(<<>>, LastEpoch)
  BY EventsFew DEF EventsIn
<1>2. ASSUME NEW s, IsSequence(s), NEW u, u = [i \in DOMAIN s |-> u[i]] PROVE IsSequence(u)
  <2>1. Len(s) \in Nat /\ DOMAIN s = 1..Len(s)
    BY <1>2, SequenceShape
  <2>2. u = [i \in 1..Len(s) |-> u[i]]
    BY <1>2, <2>1
  <2> QED BY <2>1, <2>2, SequenceOf
<1>3. CASE RwgInitialize
  <2> DEFINE x == Call(Top.start, "RwgInit", <<>>)
             y == Call(Top.start + timing[Top.node].duration, "RwgSetCarrier",
                       <<Binding.local, Node.carrier>>)
             r == RwgState("Ready", FALSE, "none", <<>>, <<>>, NoScope)
             es == (IF Node.hard THEN <<x>> ELSE <<>>) \o <<y>>
             ops == {"RwgInitialize"}
  <2>1. Lowering(ops) /\ "GlobalSync" \notin ops /\ Lowered(<<>>, es, r, Pid)
    BY <1>3 DEF RwgInitialize
  <2> HIDE DEF ops
  <2>2. EventIn(x, LastEpoch) /\ EventIn(y, LastEpoch)
    BY <2>1, OnItsChannel
  <2>3. "stop" \in DOMAIN r /\ r.stop = <<>>
    BY DEF RwgState
  <2> HIDE DEF x, y, r
  <2>4. EventsIn(<<x>>, LastEpoch) /\ EventsIn(<<y>>, LastEpoch)
    BY <2>2, EventsFew
  <2> DEFINE fs == IF Node.hard THEN <<x>> ELSE <<>>
  <2>5. EventsIn(fs, LastEpoch)
    BY <1>1, <2>4
  <2> HIDE DEF fs
  <2>6. EventsIn(fs \o <<y>>, LastEpoch)
    BY <2>4, <2>5, EventsJoined
  <2>7. EventsIn(es, LastEpoch)
    BY <2>6 DEF fs
  <2> HIDE DEF es
  <2> QED BY <1>1, <2>1, <2>3, <2>7, LoweredStep
<1> DEFINE load == {"RwgLoad"}
<1>4. "GlobalSync" \notin load
  OBVIOUS
<1>5. Lowering(load) => /\ LinkedNode(Node, Top.node) /\ Node.kind = "Atomic" /\ Node.op = "RwgLoad"
                        /\ IsSequence(Rwg.stop)
  <2> SUFFICES ASSUME Lowering(load)
               PROVE  /\ LinkedNode(Node, Top.node) /\ Node.kind = "Atomic" /\ Node.op = "RwgLoad"
                      /\ IsSequence(Rwg.stop)
    OBVIOUS
  <2>1. Node.op \in load
    BY OnItsChannel
  <2> QED BY <2>1, OnItsChannel
<1>6. CASE RwgLoadJson
  <2>1. Lowering(load) /\ Node.form = "json"
    BY <1>6 DEF RwgLoadJson
  <2>2. IsSequence(Node.waveforms)
    BY <1>5, <2>1 DEF LinkedNode
  <2>3. Fail("RWG load") \/ \E n, s : LoadWaveforms(Node.waveforms, n, s, <<>>)
    BY <1>6 DEF RwgLoadJson
  <2> HIDE DEF load
  <2>4. CASE Fail("RWG load")
    BY <2>4, FailStep
  <2>5. ASSUME NEW n, NEW s, LoadWaveforms(Node.waveforms, n, s, <<>>) PROVE EpochInv'
    BY <1>1, <1>4, <2>1, <2>2, <2>5, LoadWaveformsKeeps
  <2> QED BY <2>3, <2>4, <2>5
<1>7. CASE RwgLoadStatic
  <2> DEFINE ws == StaticWaveforms(Node.targets, Node.reset)
  <2>1. Lowering(load) /\ Node.form = "static"
    BY <1>7 DEF RwgLoadStatic
  <2>2. IsSequence(Node.targets)
    BY <1>5, <2>1 DEF LinkedNode
  <2>3. ws = [i \in DOMAIN Node.targets |-> ws[i]]
    BY DEF StaticWaveforms
  <2>4. Fail("RWG set_state") \/ LoadWaveforms(ws, "Active", Node.targets, <<>>)
    BY <1>7 DEF RwgLoadStatic
  <2> HIDE DEF load, ws
  <2>5. IsSequence(ws)
    BY <1>2, <2>2, <2>3
  <2>6. CASE Fail("RWG set_state")
    BY <2>6, FailStep
  <2>7. CASE LoadWaveforms(ws, "Active", Node.targets, <<>>)
    BY <1>1, <1>4, <2>1, <2>5, <2>7, LoadWaveformsKeeps
  <2> QED BY <2>4, <2>6, <2>7
<1>8. CASE RwgLoadLinear
  <2> DEFINE ws == RampWaveforms(Rwg.snapshot, Node.targets)
             stop == RampStop(Rwg.snapshot, Node.targets)
             end == RampEnd(Rwg.snapshot, Node.targets)
  <2>1. Lowering(load) /\ Node.form = "linear"
    BY <1>8 DEF RwgLoadLinear
  <2>2. IsSequence(Node.targets)
    BY <1>5, <2>1 DEF LinkedNode
  <2>3. ws = [i \in DOMAIN Node.targets |-> ws[i]]
    BY DEF RampWaveforms
  <2>4. stop = [i \in DOMAIN Node.targets |-> stop[i]]
    BY DEF RampStop
  <2>5. Fail("RWG linear_ramp") \/ LoadWaveforms(ws, "Ramping", end, stop)
    BY <1>8 DEF RwgLoadLinear
  <2> HIDE DEF load, ws, stop, end
  <2>6. IsSequence(ws) /\ IsSequence(stop)
    BY <1>2, <2>2, <2>3, <2>4
  <2>7. CASE Fail("RWG linear_ramp")
    BY <2>7, FailStep
  <2>8. CASE LoadWaveforms(ws, "Ramping", end, stop)
    BY <1>4, <2>1, <2>6, <2>8, LoadWaveformsKeeps
  <2> QED BY <2>5, <2>7, <2>8
<1>9. CASE RwgLoadEndpoint
  <2>1. Lowering(load)
    BY <1>9 DEF RwgLoadEndpoint
  <2>2. Fail("RWG ramp endpoint") \/ LoadWaveforms(Rwg.stop, "Active", Rwg.snapshot, <<>>)
    BY <1>9 DEF RwgLoadEndpoint
  <2>3. IsSequence(Rwg.stop)
    BY <1>5, <2>1
  <2> HIDE DEF load
  <2>4. CASE Fail("RWG ramp endpoint")
    BY <2>4, FailStep
  <2>5. CASE LoadWaveforms(Rwg.stop, "Active", Rwg.snapshot, <<>>)
    BY <1>1, <1>4, <2>1, <2>3, <2>5, LoadWaveformsKeeps
  <2> QED BY <2>2, <2>4, <2>5
<1>10. CASE RwgPlay
  <2> DEFINE x == Call(Top.start, "RwgPlay", <<{Binding.local}, {Binding.local}>>)
             y == [x EXCEPT !.group = Rwg.group, !.order[3] = Rwg.group]
             r == [Rwg EXCEPT !.state = Rwg.next]
             ops == {"RwgPlay"}
  <2>1. Lowering(ops) /\ "GlobalSync" \notin ops
    BY <1>10 DEF RwgPlay
  <2>2. Fail("RWG play") \/ Lowered(<<>>, <<y>>, r, Pid)
    BY <1>10 DEF RwgPlay
  <2> HIDE DEF ops
  <2>3. EventIn(x, LastEpoch) /\ "stop" \in DOMAIN Rwg /\ IsSequence(Rwg.stop)
    BY <2>1, OnItsChannel
  <2> HIDE DEF x
  <2>4. EventIn(y, LastEpoch)
    BY <2>3 DEF EventIn
  <2>5. "stop" \in DOMAIN r /\ r.stop = Rwg.stop
    BY <2>3
  <2> HIDE DEF y, r
  <2>6. EventsIn(<<y>>, LastEpoch)
    BY <2>4, EventsFew
  <2>7. CASE Fail("RWG play")
    BY <2>7, FailStep
  <2>8. CASE Lowered(<<>>, <<y>>, r, Pid)
    BY <1>1, <2>1, <2>3, <2>5, <2>6, <2>8, LoweredStep
  <2> QED BY <2>2, <2>7, <2>8
<1>11. CASE RwgRfSwitch
  <2> DEFINE off == Node.op = "RwgRfOff"
             x == Call(Top.start, "RwgRfSwitch", <<{Binding.local}, IF off THEN {Binding.local} ELSE {}>>)
             r == IF Rwg.state = "Ready" THEN Rwg ELSE [Rwg EXCEPT !.rfOn = ~off]
             ops == {"RwgRfOn", "RwgRfOff"}
  <2>1. Lowering(ops) /\ "GlobalSync" \notin ops
    BY <1>11 DEF RwgRfSwitch
  <2>2. Fail("RWG RF switch") \/ Lowered(<<>>, <<x>>, r, Pid)
    BY <1>11 DEF RwgRfSwitch
  <2> HIDE DEF ops
  <2>3. EventIn(x, LastEpoch) /\ "stop" \in DOMAIN Rwg /\ IsSequence(Rwg.stop)
    BY <2>1, OnItsChannel
  <2> HIDE DEF x, off
  <2>4. "stop" \in DOMAIN r /\ r.stop = Rwg.stop
    BY <2>3
  <2> HIDE DEF r
  <2>5. EventsIn(<<x>>, LastEpoch)
    BY <2>3, EventsFew
  <2>6. CASE Fail("RWG RF switch")
    BY <2>6, FailStep
  <2>7. CASE Lowered(<<>>, <<x>>, r, Pid)
    BY <1>1, <2>1, <2>3, <2>4, <2>5, <2>7, LoweredStep
  <2> QED BY <2>2, <2>6, <2>7
<1> HIDE DEF load
<1> QED BY <1>3, <1>6, <1>7, <1>8, <1>9, <1>10, <1>11 DEF LowerRwg

\* RSP operations.
LEMMA LowerRspKeeps ==
    ASSUME EpochInv, LowerRsp
    PROVE  EpochInv'
<1>1. EventsIn(<<>>, LastEpoch)
  BY EventsFew
<1>2. ASSUME NEW ops, Lowering(ops), "GlobalSync" \notin ops, NEW x, EventIn(x, LastEpoch), NEW pid,
             Lowered(<<>>, <<x>>, Rwg, pid)
      PROVE  EpochInv'
  <2>1. EventsIn(<<x>>, LastEpoch)
    BY <1>2, EventsFew
  <2>2. "stop" \in DOMAIN Rwg /\ IsSequence(Rwg.stop)
    BY <1>2, OnItsChannel
  <2> QED BY <1>1, <1>2, <2>1, <2>2, LoweredStep
<1>3. CASE RspInitialize
  <2> DEFINE x == Call(Top.start, "RspInit", <<>>)
             y == Call(Top.start + timing[Top.node].duration, "RspSetCarrier",
                       <<Binding.local, Node.carrier>>)
             es == <<x, y>>
             ops == {"RspInitialize"}
  <2>1. Lowering(ops) /\ "GlobalSync" \notin ops /\ Lowered(<<>>, es, Rwg, Pid)
    BY <1>3 DEF RspInitialize
  <2> HIDE DEF ops
  <2>2. /\ EventIn(x, LastEpoch) /\ EventIn(y, LastEpoch)
        /\ "stop" \in DOMAIN Rwg /\ IsSequence(Rwg.stop)
    BY <2>1, OnItsChannel
  <2> HIDE DEF x, y
  <2>3. es = [i \in 1..2 |-> es[i]] /\ \A i \in 1..2 : es[i] \in {x, y}
    OBVIOUS
  <2> HIDE DEF es
  <2>4. EventsIn(es, LastEpoch)
    BY <2>2, <2>3, EventsMade
  <2> QED BY <1>1, <2>1, <2>2, <2>4, LoweredStep
<1>4. CASE RspPidConfig
  <2> DEFINE x == Call(Top.start, "RspPidConfig", <<Node.config>>)
             ops == {"RspPidConfig"}
  <2>1. Lowering(ops) /\ "GlobalSync" \notin ops /\ Lowered(<<>>, <<x>>, Rwg, <<Node.config>>)
    BY <1>4 DEF RspPidConfig
  <2> HIDE DEF ops
  <2>2. EventIn(x, LastEpoch)
    BY <2>1, OnItsChannel
  <2> HIDE DEF x
  <2> QED BY <1>2, <2>1, <2>2
<1>5. CASE RspPidOperation
  <2> DEFINE source == Node.op \in {"RspPidStart", "RspPidHold"}
             x == Call(Top.start, Node.op, IF source THEN <<Pid[1].source>> ELSE Pid)
             ops == {"RspPidStart", "RspPidHold", "RspPidRelease", "RspPidRelink"}
  <2>1. Lowering(ops) /\ "GlobalSync" \notin ops
    BY <1>5 DEF RspPidOperation
  <2>2. Fail("RSP PID") \/ Lowered(<<>>, <<x>>, Rwg, Pid)
    BY <1>5 DEF RspPidOperation
  <2> HIDE DEF ops
  <2>3. EventIn(x, LastEpoch)
    BY <2>1, OnItsChannel
  <2> HIDE DEF x
  <2>4. CASE Fail("RSP PID")
    BY <2>4, FailStep
  <2>5. CASE Lowered(<<>>, <<x>>, Rwg, Pid)
    BY <1>2, <2>1, <2>3, <2>5
  <2> QED BY <2>2, <2>4, <2>5
<1>6. CASE RspRfConfig
  <2> DEFINE x == Call(Top.start, "RspRfConfig", <<Node.config>>)
             ops == {"RspRfConfig"}
  <2>1. Lowering(ops) /\ "GlobalSync" \notin ops /\ Lowered(<<>>, <<x>>, Rwg, Pid)
    BY <1>6 DEF RspRfConfig
  <2> HIDE DEF ops
  <2>2. EventIn(x, LastEpoch)
    BY <2>1, OnItsChannel
  <2> HIDE DEF x
  <2> QED BY <1>2, <2>1, <2>2
<1> QED BY <1>3, <1>4, <1>5, <1>6 DEF LowerRsp

\* The stack is empty: every sync has been passed.
LEMMA FinishLoweringKeeps ==
    ASSUME EpochInv, FinishLowering
    PROVE  EpochInv'
<1>1. phase = "lower" /\ pending = <<>>
  BY DEF FinishLowering
<1>2. /\ SyncsOk(program, syncs) /\ EventsIn(ttl, LastEpoch) /\ EventsIn(direct, LastEpoch)
      /\ StackOk(pending, DOMAIN origins, program, syncs, LastEpoch)
      /\ epochs = <<>> /\ error # "epoch has no origin"
  BY <1>1 DEF EpochInv
<1>3. CASE Fail("opaque conflict")
  BY <1>3, FailStep
<1>4. CASE /\ phase' = "loops" /\ direct' = ChargedAll(direct)
           /\ UNCHANGED <<program, error, syncs, ttl, origins, epochs>>
  <2>1. LastEpoch' = LastEpoch
    BY <1>4 DEF LastEpoch
  <2>2. LastEpoch \in Nat
    <3>1. program.root \in 1..Len(program.nodes) /\ syncs \in [1..Len(program.nodes) -> Nat]
      BY <1>2, SyncsAreCounts
    <3> QED BY <3>1 DEF LastEpoch
  <2>3. DOMAIN origins = 0..LastEpoch
    <3>1. DOMAIN pending = {}
      BY <1>1
    <3>2. /\ 0 \in DOMAIN origins /\ DOMAIN origins \subseteq 0..LastEpoch
          /\ \A e \in 0..(LastEpoch - 1) : e + 1 \in DOMAIN origins
      BY <1>2, <3>1 DEF StackOk
    <3>3. ASSUME NEW e \in 0..LastEpoch PROVE e \in DOMAIN origins
      <4>1. CASE e = 0
        BY <3>2, <4>1
      <4>2. CASE e # 0
        <5>1. e - 1 \in 0..(LastEpoch - 1) /\ (e - 1) + 1 = e
          BY <2>2, <4>2
        <5> QED BY <3>2, <5>1
      <4> QED BY <4>1, <4>2
    <3> QED BY <3>2, <3>3
  <2>4. EventsIn(ChargedAll(direct), LastEpoch)
    <3> DEFINE d == direct
               es == ChargedAll(d)
    <3>1. es = [i \in DOMAIN d |-> es[i]]
      BY DEF ChargedAll
    <3>2. ASSUME NEW i \in DOMAIN d PROVE EventIn(es[i], LastEpoch)
      <4>1. EventIn(d[i], LastEpoch)
        BY <1>2 DEF EventsIn
      <4>2. es[i] = Charged(d[i])
        BY DEF ChargedAll
      <4>3. EventIn(Charged(d[i]), LastEpoch)
        BY <4>1, EventChanged DEF Charged
      <4> QED BY <4>2, <4>3
    <3>3. EventsIn(d, LastEpoch)
      BY <1>2
    <3> HIDE DEF es, d
    <3>4. EventsIn(es, LastEpoch)
      BY <3>1, <3>2, <3>3, EventsChanged
    <3> QED BY <3>4 DEF es, d
  <2>5. /\ SyncsOk(program', syncs') /\ EventsIn(ttl', LastEpoch') /\ EventsIn(direct', LastEpoch')
        /\ DOMAIN origins' = 0..LastEpoch' /\ epochs' = <<>> /\ error' # "epoch has no origin"
    BY <1>2, <1>4, <2>1, <2>3, <2>4
  <2> QED BY <1>4, <2>5 DEF EpochInv
<1> QED BY <1>3, <1>4 DEF FinishLowering

\* The analyses are done: the root is to be visited, and passes every sync.
LEMMA AnalyzeKeeps ==
    ASSUME EpochInv, Analysed, Analyze
    PROVE  EpochInv'
<1>1. phase = "analyze" /\ program \in Programs
  BY DEF Analyze, Analysed
<1>2. CASE Fail("timing")
  BY <1>2, FailStep
<1>3. CASE Fail("epochs")
  BY <1>3, FailStep
<1> DEFINE v == Visit(program.root, 0, 0, "none")
<1>4. CASE /\ ~EpochError(AnalyzeEpochs(program)) /\ syncs' = AnalyzeEpochs(program)
           /\ phase' = "lower" /\ pending' = <<v>>
           /\ UNCHANGED <<program, error, ttl, direct, rwg, origins, epochs>>
  <2>1. /\ ttl = <<>> /\ direct = <<>> /\ epochs = <<>> /\ DOMAIN origins = {0} /\ RampStops
        /\ error # "epoch has no origin"
    BY <1>1 DEF EpochInv
  <2>2. SyncsOk(program', syncs')
    BY <1>1, <1>4, CallPlanAssumption DEF SyncsOk
  <2> DEFINE p == program'
             s == syncs'
             last == LastEpoch'
  <2>3. /\ p.root \in 1..Len(p.nodes) /\ s \in [1..Len(p.nodes) -> Nat]
    BY <2>2, SyncsAreCounts
  <2>4. last = s[p.root] /\ last \in Nat /\ program.root = p.root
    BY <1>4, <2>3 DEF LastEpoch
  <2> DEFINE tasks == <<v>>
  <2>5. tasks = [i \in 1..1 |-> tasks[i]] /\ tasks[1] = v
    OBVIOUS
  <2>6. TaskIn(v, p, s, last)
    <3>1. 0 \in 0..last /\ 0 + s[p.root] <= last
      BY <2>4
    <3> QED BY <2>3, <2>4, <3>1, VisitTask
  <2>7. \A e \in 0..(last - 1) : Opens(v, s, e)
    <3> SUFFICES ASSUME NEW e \in 0..(last - 1) PROVE Opens(v, s, e)
      OBVIOUS
    <3>1. 0 <= e /\ e < 0 + s[p.root]
      BY <2>4
    <3> QED BY <2>4, <3>1, VisitTask
  <2>8. pending' = tasks /\ program' = p /\ syncs' = s /\ LastEpoch' = last
    BY <1>4
  <2> HIDE DEF v, tasks, p, s, last
  <2>9. IsSequence(tasks) /\ DOMAIN tasks = 1..1
    BY <2>5, SequenceOf
  <2>10. \A i \in DOMAIN tasks : TaskIn(tasks[i], p, s, last)
    BY <2>5, <2>6, <2>9
  <2>11. \A e \in 0..(last - 1) : \E i \in DOMAIN tasks : Opens(tasks[i], s, e)
    BY <2>5, <2>7, <2>9
  <2>12. DOMAIN origins' = {0} /\ {0} \subseteq 0..last
    <3>1. origins' = origins
      BY <1>4, Zenon
    <3>2. DOMAIN origins' = {0}
      BY <2>1, <3>1, Zenon
    <3>3. {0} \subseteq 0..last
      BY <2>4
    <3> QED BY <3>2, <3>3
  <2>13. StackOk(tasks, DOMAIN origins', p, s, last)
    BY <2>9, <2>10, <2>11, <2>12 DEF StackOk
  <2>14. StackOk(pending', DOMAIN origins', program', syncs', LastEpoch')
    BY <2>13, <2>8
  <2>15. EventsIn(ttl', LastEpoch') /\ EventsIn(direct', LastEpoch')
    BY <1>4, <2>1, EventsFew
  <2>16. RampStops'
    BY <1>4, <2>1 DEF RampStops
  <2> QED BY <1>4, <2>1, <2>2, <2>14, <2>15, <2>16 DEF EpochInv
<1> HIDE DEF v
<1> QED
  <2>1. \/ Fail("timing") \/ Fail("epochs")
        \/ /\ ~EpochError(AnalyzeEpochs(program)) /\ syncs' = AnalyzeEpochs(program)
           /\ phase' = "lower" /\ pending' = <<v>>
           /\ UNCHANGED <<program, error, ttl, direct, rwg, origins, epochs>>
    BY DEF Analyze, v, lowering
  <2> QED BY <1>2, <1>3, <1>4, <2>1

\* Charging a loop moves events and origins in time, never to another epoch.
LEMMA ApplyLoopTimingKeeps ==
    ASSUME EpochInv, ApplyLoopTiming
    PROVE  EpochInv'
<1>1. /\ phase = "loops" /\ UNCHANGED <<program, phase, error, syncs, epochs>>
  BY DEF ApplyLoopTiming
<1>2. /\ SyncsOk(program, syncs) /\ EventsIn(ttl, LastEpoch) /\ EventsIn(direct, LastEpoch)
      /\ DOMAIN origins = 0..LastEpoch /\ epochs = <<>> /\ error # "epoch has no origin"
  BY <1>1 DEF EpochInv
<1>3. LastEpoch' = LastEpoch
  BY <1>1 DEF LastEpoch
<1>4. ASSUME NEW s, NEW r, NEW start, NEW boards, EventsIn(s, LastEpoch)
      PROVE  EventsIn(PushedBehind(s, r, start, boards), LastEpoch)
  <2> DEFINE es == PushedBehind(s, r, start, boards)
  <2>1. es = [i \in DOMAIN s |-> es[i]]
    BY DEF PushedBehind
  <2>2. ASSUME NEW i \in DOMAIN s PROVE EventIn(es[i], LastEpoch)
    <3>1. EventIn(s[i], LastEpoch)
      BY <1>4 DEF EventsIn
    <3>2. EventIn([s[i] EXCEPT !.offset = start + r.body + 1], LastEpoch)
      BY <3>1, EventChanged
    <3>3. es[i] \in {s[i], [s[i] EXCEPT !.offset = start + r.body + 1]}
      BY DEF PushedBehind
    <3> QED BY <3>1, <3>2, <3>3
  <2> HIDE DEF es
  <2>3. EventsIn(es, LastEpoch)
    BY <1>4, <2>1, <2>2, EventsChanged
  <2> QED BY <2>3 DEF es
<1>5. ASSUME NEW r, NEW start, NEW ds, EventsIn(ds, LastEpoch), NEW ts, EventsIn(ts, LastEpoch),
             NEW bodyDelta, Extend(r, start, ds, ts, bodyDelta)
      PROVE  /\ EventsIn(direct', LastEpoch) /\ EventsIn(ttl', LastEpoch)
             /\ DOMAIN origins' = DOMAIN origins
  <2> DEFINE end == start + r.body
             delta == bodyDelta * r.count
             Later(e) == e.epoch > r.epoch \/ (e.epoch = r.epoch /\ e.offset > end)
             Shifted(e) == IF Later(e) THEN [e EXCEPT !.offset = @ + delta] ELSE e
             EndOfLoop(e) == e.group = r.marker /\ e.function = "LoopEnd"
             Longer(e) == [e EXCEPT !.cost = @ + SaturatingSub(delta, bodyDelta)]
             D == [i \in DOMAIN ds |-> IF EndOfLoop(ds[i]) THEN Longer(ds[i]) ELSE Shifted(ds[i])]
             E == [i \in DOMAIN ts |-> Shifted(ts[i])]
  <2>1. \/ direct' = ds /\ ttl' = ts /\ origins' = origins
        \/ /\ direct' = D /\ ttl' = E
           /\ DOMAIN origins' = DOMAIN origins
    BY <1>5 DEF Extend
  <2>2. ASSUME NEW e, EventIn(e, LastEpoch)
        PROVE  EventIn(Shifted(e), LastEpoch) /\ EventIn(Longer(e), LastEpoch)
    BY <2>2, EventChanged
  <2> HIDE DEF Shifted, Longer, EndOfLoop
  <2>3. EventsIn(D, LastEpoch)
    <3>1. D = [i \in DOMAIN ds |-> D[i]]
      OBVIOUS
    <3>2. ASSUME NEW i \in DOMAIN ds PROVE EventIn(D[i], LastEpoch)
      <4>1. EventIn(ds[i], LastEpoch)
        BY <1>5 DEF EventsIn
      <4>2. D[i] \in {Longer(ds[i]), Shifted(ds[i])}
        OBVIOUS
      <4> QED BY <2>2, <4>1, <4>2
    <3> HIDE DEF D
    <3> QED BY <1>5, <3>1, <3>2, EventsChanged
  <2>4. EventsIn(E, LastEpoch)
    <3>1. E = [i \in DOMAIN ts |-> E[i]]
      OBVIOUS
    <3>2. ASSUME NEW i \in DOMAIN ts PROVE EventIn(E[i], LastEpoch)
      <4>1. EventIn(ts[i], LastEpoch)
        BY <1>5 DEF EventsIn
      <4>2. E[i] = Shifted(ts[i])
        OBVIOUS
      <4> QED BY <2>2, <4>1, <4>2
    <3> HIDE DEF E
    <3> QED BY <1>5, <3>1, <3>2, EventsChanged
  <2> HIDE DEF D, E
  <2> QED BY <1>5, <2>1, <2>3, <2>4
<1>6. PICK r, start, boards, bodyDelta :
        Extend(r, start, PushedBehind(direct, r, start, boards), PushedBehind(ttl, r, start, boards),
               bodyDelta)
  BY DEF ApplyLoopTiming
<1>7. /\ EventsIn(direct', LastEpoch) /\ EventsIn(ttl', LastEpoch)
      /\ DOMAIN origins' = DOMAIN origins
  BY <1>2, <1>4, <1>5, <1>6
<1>8. /\ SyncsOk(program', syncs') /\ EventsIn(ttl', LastEpoch') /\ EventsIn(direct', LastEpoch')
      /\ DOMAIN origins' = 0..LastEpoch' /\ epochs' = <<>> /\ error' # "epoch has no origin"
      /\ phase' = "loops"
  BY <1>1, <1>2, <1>3, <1>7
<1> QED BY <1>8 DEF EpochInv

\* The epochs are compiled one by one, and each has an origin.
LEMMA CompileKeeps ==
    ASSUME EpochInv, FinishLoops \/ CompileEpoch \/ Finish
    PROVE  EpochInv'
<1>1. /\ phase \in {"loops", "compile"} /\ SyncsOk(program, syncs)
      /\ EventsIn(ttl, LastEpoch) /\ EventsIn(direct, LastEpoch)
      /\ DOMAIN origins = 0..LastEpoch /\ error # "epoch has no origin"
  BY DEF EpochInv, FinishLoops, CompileEpoch, Finish
<1>2. LastEpoch \in Nat
  <2>1. program.root \in 1..Len(program.nodes) /\ syncs \in [1..Len(program.nodes) -> Nat]
    BY <1>1, SyncsAreCounts
  <2> QED BY <2>1 DEF LastEpoch
<1>3. ASSUME UNCHANGED <<program, error, syncs, ttl, direct, origins>>
      PROVE  /\ LastEpoch' = LastEpoch /\ SyncsOk(program', syncs')
             /\ EventsIn(ttl', LastEpoch') /\ EventsIn(direct', LastEpoch')
             /\ DOMAIN origins' = 0..LastEpoch' /\ error' # "epoch has no origin"
  <2>1. LastEpoch' = LastEpoch
    BY <1>3 DEF LastEpoch
  <2> QED BY <1>1, <1>3, <2>1
<1>4. CASE FinishLoops
  <2>1. /\ phase' = "compile" /\ epochs = <<>>
        /\ UNCHANGED <<program, error, syncs, ttl, direct, origins, epochs>>
    BY <1>4 DEF FinishLoops, EpochInv, lowering
  <2>2. IsSequence(epochs) /\ Len(epochs) = 0
    <3>1. IsSequence(<<>>)
      BY EventsFew DEF EventsIn
    <3> QED BY <2>1, <3>1
  <2>3. IsSequence(epochs') /\ Len(epochs') <= LastEpoch' + 1
    <3>1. LastEpoch' = LastEpoch /\ epochs' = epochs
      BY <1>3, <2>1
    <3> QED BY <1>2, <2>2, <3>1
  <2> QED BY <1>3, <2>1, <2>3 DEF EpochInv
<1>5. CASE CompileEpoch
  <2>1. /\ phase = "compile" /\ Len(epochs) <= LastEpoch /\ IsSequence(epochs)
    BY <1>5 DEF CompileEpoch, EpochInv
  <2>2. Len(epochs) \in 0..LastEpoch
    BY <1>2, <2>1, SequenceShape
  <2>3. Len(epochs) \in DOMAIN origins
    BY <1>1, <2>2
  <2>4. \/ Fail("epoch end precedes its origin") \/ Fail("board capabilities")
        \/ Fail("event precedes its epoch origin")
        \/ \E a, b, c : AppendEpoch(a, b, c)
    BY <1>5, <2>3 DEF CompileEpoch
  <2>5. CASE Fail("epoch end precedes its origin")
    BY <2>5, FailStep
  <2>6. CASE Fail("board capabilities")
    BY <2>6, FailStep
  <2>7. CASE Fail("event precedes its epoch origin")
    BY <2>7, FailStep
  <2>8. ASSUME NEW a, NEW b, NEW c, AppendEpoch(a, b, c) PROVE EpochInv'
    <3> DEFINE x == [origin |-> a, end |-> b, boards |-> MasterWaits(c)]
               u == Append(epochs, x)
               m == Len(epochs)
    <3>1. /\ epochs' = u /\ phase' = "compile"
          /\ UNCHANGED <<program, error, syncs, ttl, direct, origins>>
      BY <2>1, <2>8 DEF AppendEpoch, lowering
    <3> HIDE DEF x
    <3>2. m \in Nat /\ IsSequence(u) /\ Len(u) = m + 1
      BY <2>1, OneMore
    <3>3. m <= LastEpoch
      BY <2>1
    <3> HIDE DEF u, m
    <3>4. IsSequence(epochs') /\ Len(epochs') <= LastEpoch' + 1
      <4>1. LastEpoch' = LastEpoch /\ epochs' = u
        BY <1>3, <3>1
      <4> QED BY <1>2, <3>2, <3>3, <4>1
    <3> QED BY <1>3, <3>1, <3>4 DEF EpochInv
  <2> QED BY <2>4, <2>5, <2>6, <2>7, <2>8
<1>6. CASE Finish
  <2>1. /\ phase = "compile" /\ Len(epochs) = LastEpoch + 1 /\ IsSequence(epochs) /\ phase' = "done"
        /\ UNCHANGED <<program, error, syncs, ttl, direct, origins, epochs>>
    BY <1>6 DEF Finish, EpochInv, lowering
  <2>2. IsSequence(epochs') /\ Len(epochs') = LastEpoch' + 1
    BY <1>3, <2>1
  <2> QED BY <1>3, <2>1, <2>2 DEF EpochInv
<1> QED BY <1>4, <1>5, <1>6

\* EpochInv is inductive, with Analysed.
LEMMA EpochInvStep ==
    ASSUME EpochInv, Analysed, [Next]_vars
    PROVE  EpochInv'
<1>1. CASE Start
  <2>1. /\ phase = "idle" /\ phase' = "analyze"
        /\ UNCHANGED <<error, ttl, direct, rwg, origins, epochs>>
    BY <1>1 DEF Start, lowering
  <2> QED BY <2>1 DEF EpochInv, RampStops
<1>2. CASE Analyze
  BY <1>2, AnalyzeKeeps
<1>3. CASE Lower
  BY <1>3, VisitWaitKeeps, VisitInstantiateKeeps, VisitSerialKeeps, VisitParallelKeeps,
     VisitLoopKeeps, FinishLoopKeeps, VisitOpaqueKeeps, UnboundKeeps, GlobalSyncKeeps,
     LowerTtlKeeps, LowerRwgKeeps, LowerRspKeeps, FinishLoweringKeeps, Zenon DEF Lower
<1>4. CASE ApplyLoopTiming
  BY <1>4, ApplyLoopTimingKeeps
<1>5. CASE FinishLoops \/ CompileEpoch \/ Finish
  BY <1>5, CompileKeeps
<1>6. CASE Returned \/ UNCHANGED vars
  <2>1. UNCHANGED <<program, phase, error, syncs, pending, ttl, direct, rwg, origins, epochs>>
    BY <1>6 DEF Returned, vars, lowering
  <2>2. LastEpoch' = LastEpoch /\ (RampStops <=> RampStops')
    BY <2>1 DEF LastEpoch, RampStops
  <2> QED BY <2>1, <2>2 DEF EpochInv
<1> QED BY <1>1, <1>2, <1>3, <1>4, <1>5, <1>6 DEF Next

\* Whatever the program, its boards and bindings: every epoch its syncs open has
\* an origin when the plan is built, so that build_call_plan never fails for a
\* missing one, and every event that was lowered belongs to an epoch of the plan.
THEOREM EveryEpochCovered == Spec => []EpochsCovered
<1>1. Init => EpochInv /\ Analysed
  <2> SUFFICES ASSUME Init PROVE EpochInv /\ Analysed
    OBVIOUS
  <2>1. /\ phase = "idle" /\ error = "none" /\ ttl = <<>> /\ direct = <<>> /\ epochs = <<>>
        /\ DOMAIN origins = {0} /\ rwg = [c \in DOMAIN Bindings |-> Uninitialized]
    BY DEF Init
  <2>2. "stop" \in DOMAIN Uninitialized /\ Uninitialized.stop = <<>>
    BY DEF Uninitialized, RwgState
  <2>3. IsSequence(<<>>)
    BY EventsFew DEF EventsIn
  <2>4. RampStops
    BY <2>1, <2>2, <2>3 DEF RampStops
  <2> QED BY <2>1, <2>4 DEF EpochInv, Analysed
<1>2. EpochInv /\ Analysed /\ [Next]_vars => EpochInv' /\ Analysed'
  BY EpochInvStep, AnalysedStep
<1>3. EpochInv => EpochsCovered
  <2> SUFFICES ASSUME EpochInv PROVE EpochsCovered
    OBVIOUS
  <2>1. error # "epoch has no origin"
    BY DEF EpochInv
  <2>2. phase \in {"loops", "compile", "done"} => DOMAIN origins = 0..LastEpoch
    BY DEF EpochInv
  <2>3. ASSUME Done
        PROVE  /\ Len(epochs) = LastEpoch + 1
               /\ \A s \in {ttl, direct} : \A i \in DOMAIN s : s[i].epoch + 1 \in 1..Len(epochs)
    <3>1. /\ SyncsOk(program, syncs) /\ Len(epochs) = LastEpoch + 1
          /\ EventsIn(ttl, LastEpoch) /\ EventsIn(direct, LastEpoch)
      BY <2>3 DEF EpochInv, Done
    <3>2. LastEpoch \in Nat
      <4>1. program.root \in 1..Len(program.nodes) /\ syncs \in [1..Len(program.nodes) -> Nat]
        BY <3>1, SyncsAreCounts
      <4> QED BY <4>1 DEF LastEpoch
    <3>3. ASSUME NEW s \in {ttl, direct}, NEW i \in DOMAIN s PROVE s[i].epoch + 1 \in 1..Len(epochs)
      <4>1. s[i].epoch \in 0..LastEpoch
        BY <3>1 DEF EventsIn, EventIn
      <4> QED BY <3>1, <3>2, <4>1
    <3> QED BY <3>1, <3>3
  <2> QED BY <2>1, <2>2, <2>3 DEF EpochsCovered
<1> QED BY <1>1, <1>2, <1>3, PTL DEF Spec

-----------------------------------------------------------------------------
(* Laying calls out.                                                       *)

Happens(e) == e.offset \in Int /\ e.cost \in Int
EndOf(c) == c.offset + c.cost

\* The board is never idle and never does two things: each call begins where the
\* one before it ends, from initial to cursor.
BackToBack(calls, initial, cursor) ==
    /\ IsSequence(calls)
    /\ \A i \in 1..Len(calls) : /\ Happens(calls[i])
                                /\ calls[i].offset = IF i = 1 THEN initial ELSE EndOf(calls[i - 1])
    /\ cursor = IF Len(calls) = 0 THEN initial ELSE EndOf(calls[Len(calls)])

\* The call that c makes of the event e.
CallOf(c, e) ==
    c.function = e.function /\ c.args = e.args /\ c.cost = e.cost /\ c.offset >= e.offset

\* Call at[k] is that of event k: in their order, on time unless it is right
\* behind the one before; every other call is a wait.
InOrder(calls, events, n, at) ==
    /\ at \in [1..n -> 1..Len(calls)]
    /\ \A j, k \in 1..n : j < k => at[j] < at[k]
    /\ \A k \in 1..n : /\ CallOf(calls[at[k]], events[k])
                       /\ \/ calls[at[k]].offset = events[k].offset
                          \/ at[k] = IF k = 1 THEN 1 ELSE at[k - 1] + 1
    /\ \A i \in 1..Len(calls) : (\A k \in 1..n : i # at[k]) => calls[i].function = "Wait"

\* A call at the cursor.
LEMMA TimelineGrows ==
    ASSUME NEW calls, NEW initial \in Int, NEW cursor \in Int, BackToBack(calls, initial, cursor),
           NEW x, x.offset = cursor, x.cost \in Int
    PROVE  BackToBack(Append(calls, x), initial, cursor + x.cost)
<1> DEFINE u == Append(calls, x)
           m == Len(calls)
<1>1. IsSequence(calls)
  BY DEF BackToBack
<1>2. /\ m \in Nat /\ IsSequence(u) /\ Len(u) = m + 1 /\ u[m + 1] = x
      /\ \A i \in 1..m : u[i] = calls[i]
  BY <1>1, OneMore
<1>3. \A i \in 1..m : /\ Happens(calls[i])
                      /\ calls[i].offset = IF i = 1 THEN initial ELSE EndOf(calls[i - 1])
  BY DEF BackToBack
<1>4. cursor = IF m = 0 THEN initial ELSE EndOf(calls[m])
  BY DEF BackToBack
<1> HIDE DEF u, m
<1>5. ASSUME NEW i \in 1..(m + 1)
      PROVE  Happens(u[i]) /\ u[i].offset = IF i = 1 THEN initial ELSE EndOf(u[i - 1])
  <2>1. CASE i = m + 1
    <3>1. u[i] = x /\ Happens(x)
      BY <1>2, <2>1 DEF Happens
    <3>2. CASE m = 0
      BY <1>4, <2>1, <3>1, <3>2
    <3>3. CASE m # 0
      <4>1. i # 1 /\ i - 1 = m /\ m \in 1..m
        BY <1>2, <2>1, <3>3
      <4>2. u[i - 1] = calls[m]
        BY <1>2, <4>1
      <4> QED BY <1>4, <3>1, <3>3, <4>1, <4>2
    <3> QED BY <3>2, <3>3
  <2>2. CASE i # m + 1
    <3>1. i \in 1..m /\ (i # 1 => i - 1 \in 1..m)
      BY <1>2, <2>2
    <3>2. u[i] = calls[i] /\ (i # 1 => u[i - 1] = calls[i - 1])
      BY <1>2, <3>1
    <3> QED BY <1>3, <3>1, <3>2
  <2> QED BY <2>1, <2>2
<1>6. m + 1 # 0 /\ EndOf(u[m + 1]) = cursor + x.cost
  BY <1>2 DEF EndOf
<1>7. BackToBack(u, initial, cursor + x.cost)
  BY <1>2, <1>5, <1>6 DEF BackToBack
<1> QED BY <1>7 DEF u

\* A wait is no event's.
LEMMA WaitIsExtra ==
    ASSUME NEW calls, IsSequence(calls), NEW events, NEW n \in Nat, NEW at,
           InOrder(calls, events, n, at), NEW x, x.function = "Wait"
    PROVE  InOrder(Append(calls, x), events, n, at)
<1> DEFINE u == Append(calls, x)
           m == Len(calls)
<1>1. /\ m \in Nat /\ IsSequence(u) /\ Len(u) = m + 1 /\ u[m + 1] = x
      /\ \A i \in 1..m : u[i] = calls[i]
  BY OneMore
<1>2. at \in [1..n -> 1..m] /\ \A j, k \in 1..n : j < k => at[j] < at[k]
  BY DEF InOrder
<1>3. \A k \in 1..n : /\ CallOf(calls[at[k]], events[k])
                      /\ \/ calls[at[k]].offset = events[k].offset
                         \/ at[k] = IF k = 1 THEN 1 ELSE at[k - 1] + 1
  BY DEF InOrder
<1>4. \A i \in 1..m : (\A k \in 1..n : i # at[k]) => calls[i].function = "Wait"
  BY DEF InOrder
<1> HIDE DEF u, m
<1>5. \A k \in 1..n : u[at[k]] = calls[at[k]]
  BY <1>1, <1>2
<1>6. at \in [1..n -> 1..(m + 1)]
  BY <1>1, <1>2
<1>7. ASSUME NEW i \in 1..(m + 1), \A k \in 1..n : i # at[k] PROVE u[i].function = "Wait"
  <2>1. CASE i = m + 1
    BY <1>1, <2>1
  <2>2. CASE i # m + 1
    <3>1. i \in 1..m
      BY <1>1, <2>2
    <3> QED BY <1>1, <1>4, <1>7, <3>1
  <2> QED BY <2>1, <2>2
<1>8. \A k \in 1..n : /\ CallOf(u[at[k]], events[k])
                      /\ \/ u[at[k]].offset = events[k].offset
                         \/ at[k] = IF k = 1 THEN 1 ELSE at[k - 1] + 1
  BY <1>3, <1>5
<1>9. InOrder(u, events, n, at)
  BY <1>1, <1>2, <1>6, <1>7, <1>8 DEF InOrder
<1> QED BY <1>9 DEF u

\* The call of the next event.
LEMMA CallIsNext ==
    ASSUME NEW calls, IsSequence(calls), NEW events, NEW n \in Nat, NEW at,
           InOrder(calls, events, n, at), NEW x, CallOf(x, events[n + 1]),
           \/ x.offset = events[n + 1].offset
           \/ Len(calls) = IF n = 0 THEN 0 ELSE at[n]
    PROVE  \E new : InOrder(Append(calls, x), events, n + 1, new) /\ new[n + 1] = Len(calls) + 1
<1> DEFINE u == Append(calls, x)
           m == Len(calls)
           new == [k \in 1..(n + 1) |-> IF k = n + 1 THEN m + 1 ELSE at[k]]
<1>1. /\ m \in Nat /\ IsSequence(u) /\ Len(u) = m + 1 /\ u[m + 1] = x
      /\ \A i \in 1..m : u[i] = calls[i]
  BY OneMore
<1>2. at \in [1..n -> 1..m] /\ \A j, k \in 1..n : j < k => at[j] < at[k]
  BY DEF InOrder
<1>3. \A k \in 1..n : /\ CallOf(calls[at[k]], events[k])
                      /\ \/ calls[at[k]].offset = events[k].offset
                         \/ at[k] = IF k = 1 THEN 1 ELSE at[k - 1] + 1
  BY DEF InOrder
<1>4. \A i \in 1..m : (\A k \in 1..n : i # at[k]) => calls[i].function = "Wait"
  BY DEF InOrder
<1>5. \/ x.offset = events[n + 1].offset
      \/ m = IF n = 0 THEN 0 ELSE at[n]
  OBVIOUS
<1>6. \A k \in 1..n : k \in 1..(n + 1) /\ k # n + 1
  OBVIOUS
<1>7. new[n + 1] = m + 1 /\ \A k \in 1..n : new[k] = at[k]
  BY <1>6
<1>8. new = [k \in 1..(n + 1) |-> new[k]]
  OBVIOUS
<1> HIDE DEF u, m, new
<1>9. \A k \in 1..(n + 1) : k \in 1..n \/ k = n + 1
  OBVIOUS
<1>10. new \in [1..(n + 1) -> 1..(m + 1)]
  <2>1. ASSUME NEW k \in 1..(n + 1) PROVE new[k] \in 1..(m + 1)
    <3>1. CASE k = n + 1
      BY <1>1, <1>7, <3>1
    <3>2. CASE k \in 1..n
      <4>1. at[k] \in 1..m
        BY <1>2, <3>2
      <4> QED BY <1>1, <1>7, <3>2, <4>1
    <3> QED BY <1>9, <3>1, <3>2
  <2> QED BY <1>8, <2>1
<1>11. ASSUME NEW j \in 1..(n + 1), NEW k \in 1..(n + 1), j < k PROVE new[j] < new[k]
  <2>1. j \in 1..n
    BY <1>11
  <2>2. at[j] \in 1..m /\ new[j] = at[j]
    BY <1>2, <1>7, <2>1
  <2>3. CASE k = n + 1
    BY <1>1, <1>7, <2>2, <2>3
  <2>4. CASE k \in 1..n
    BY <1>2, <1>7, <1>11, <2>1, <2>2, <2>4
  <2> QED BY <1>9, <2>3, <2>4
<1>12. ASSUME NEW k \in 1..(n + 1)
       PROVE  /\ CallOf(u[new[k]], events[k])
              /\ \/ u[new[k]].offset = events[k].offset
                 \/ new[k] = IF k = 1 THEN 1 ELSE new[k - 1] + 1
  <2>1. CASE k = n + 1
    <3>1. u[new[k]] = x /\ new[k] = m + 1
      BY <1>1, <1>7, <2>1
    <3>2. m = (IF n = 0 THEN 0 ELSE at[n]) => m + 1 = IF k = 1 THEN 1 ELSE new[k - 1] + 1
      <4>1. CASE n = 0
        BY <2>1, <4>1
      <4>2. CASE n # 0
        <5>1. k # 1 /\ k - 1 = n /\ n \in 1..n
          BY <2>1, <4>2
        <5> QED BY <1>7, <4>2, <5>1
      <4> QED BY <4>1, <4>2
    <3> QED BY <1>5, <2>1, <3>1, <3>2
  <2>2. CASE k \in 1..n
    <3>1. at[k] \in 1..m /\ new[k] = at[k] /\ u[new[k]] = calls[at[k]]
      BY <1>1, <1>2, <1>7, <2>2
    <3>2. k # 1 => k - 1 \in 1..n
      BY <2>2
    <3>3. k # 1 => new[k - 1] = at[k - 1]
      BY <1>7, <3>2
    <3> QED BY <1>3, <2>2, <3>1, <3>3
  <2> QED BY <1>9, <2>1, <2>2
<1>13. ASSUME NEW i \in 1..(m + 1), \A k \in 1..(n + 1) : i # new[k] PROVE u[i].function = "Wait"
  <2>1. n + 1 \in 1..(n + 1)
    OBVIOUS
  <2>2. i # m + 1
    BY <1>7, <1>13, <2>1
  <2>3. i \in 1..m
    BY <1>1, <2>2
  <2>4. \A k \in 1..n : i # at[k]
    BY <1>6, <1>7, <1>13
  <2> QED BY <1>1, <1>4, <2>3, <2>4
<1>14. InOrder(u, events, n + 1, new)
  BY <1>1, <1>10, <1>11, <1>12, <1>13 DEF InOrder
<1> QED BY <1>7, <1>14 DEF u, m

\* A wait to t, and where the cursor is then.
LEMMA WaitKeeps ==
    ASSUME NEW acc, acc.cursor \in Int, NEW initial \in Int, NEW t \in Int,
           BackToBack(acc.calls, initial, acc.cursor),
           NEW events, NEW n \in Nat, NEW at, InOrder(acc.calls, events, n, at)
    PROVE  /\ BackToBack(WaitTo(acc, t), initial, LargestOf(t, acc.cursor))
           /\ InOrder(WaitTo(acc, t), events, n, at)
<1> DEFINE w == [offset |-> acc.cursor, function |-> "Wait",
                 args |-> <<t - acc.cursor>>, cost |-> t - acc.cursor]
<1>1. w.offset = acc.cursor /\ w.function = "Wait" /\ w.cost = t - acc.cursor /\ w.cost \in Int
  OBVIOUS
<1>2. WaitTo(acc, t) = IF t > acc.cursor THEN Append(acc.calls, w) ELSE acc.calls
  BY DEF WaitTo
<1> HIDE DEF w
<1>3. IsSequence(acc.calls)
  BY DEF BackToBack
<1>4. CASE t > acc.cursor
  <2>1. BackToBack(Append(acc.calls, w), initial, acc.cursor + w.cost)
    BY <1>1, TimelineGrows
  <2>2. acc.cursor + w.cost = LargestOf(t, acc.cursor)
    BY <1>1, <1>4 DEF LargestOf
  <2>3. InOrder(Append(acc.calls, w), events, n, at)
    BY <1>1, <1>3, WaitIsExtra
  <2>4. WaitTo(acc, t) = Append(acc.calls, w)
    BY <1>2, <1>4
  <2> QED BY <2>1, <2>2, <2>3, <2>4
<1>5. CASE ~(t > acc.cursor)
  <2>1. LargestOf(t, acc.cursor) = acc.cursor
    BY <1>5 DEF LargestOf
  <2>2. WaitTo(acc, t) = acc.calls
    BY <1>2, <1>5
  <2> QED BY <2>1, <2>2
<1> QED BY <1>4, <1>5

\* The walk behind n events: the call of the last one is the last call.
Walked(acc, events, n, initial) ==
    /\ acc.cursor \in Int /\ BackToBack(acc.calls, initial, acc.cursor)
    /\ \E at : InOrder(acc.calls, events, n, at) /\ Len(acc.calls) = IF n = 0 THEN 0 ELSE at[n]

\* One event more.
LEMMA PlacedKeeps ==
    ASSUME NEW acc, NEW events, NEW n \in Nat, NEW initial \in Int, Walked(acc, events, n, initial),
           Happens(events[n + 1])
    PROVE  Walked(Placed(acc, events[n + 1]), events, n + 1, initial)
<1> DEFINE e == events[n + 1]
           start == LargestOf(e.offset, acc.cursor)
           x == [offset |-> start, function |-> e.function, args |-> e.args, cost |-> e.cost]
           before == WaitTo(acc, e.offset)
           r == Placed(acc, e)
<1>1. PICK at : /\ InOrder(acc.calls, events, n, at)
                /\ Len(acc.calls) = IF n = 0 THEN 0 ELSE at[n]
  BY DEF Walked
<1>2. /\ acc.cursor \in Int /\ e.offset \in Int /\ e.cost \in Int
      /\ BackToBack(acc.calls, initial, acc.cursor)
  BY DEF Walked, Happens
<1>3. r.calls = Append(before, x) /\ r.cursor = start + e.cost
  BY DEF Placed
<1>4. /\ x.offset = start /\ x.function = e.function /\ x.args = e.args /\ x.cost = e.cost
  OBVIOUS
<1>5. start \in Int /\ start >= e.offset
  BY <1>2 DEF LargestOf
<1>6. BackToBack(before, initial, start) /\ InOrder(before, events, n, at)
  BY <1>1, <1>2, WaitKeeps
<1>7. start = e.offset \/ (start = acc.cursor /\ before = acc.calls)
  BY <1>2 DEF LargestOf, WaitTo
<1> HIDE DEF start, x, before, r
<1>8. BackToBack(Append(before, x), initial, start + x.cost)
  BY <1>2, <1>4, <1>5, <1>6, TimelineGrows
<1>9. IsSequence(before)
  BY <1>6 DEF BackToBack
<1>10. CallOf(x, events[n + 1])
  BY <1>4, <1>5 DEF CallOf
<1>11. \/ x.offset = events[n + 1].offset
       \/ Len(before) = IF n = 0 THEN 0 ELSE at[n]
  BY <1>1, <1>4, <1>7
<1> HIDE DEF e
<1>12. PICK new : InOrder(Append(before, x), events, n + 1, new) /\ new[n + 1] = Len(before) + 1
  BY <1>6, <1>9, <1>10, <1>11, CallIsNext
<1>13. Len(Append(before, x)) = Len(before) + 1
  BY <1>9, OneMore
<1>14. r.cursor \in Int /\ BackToBack(r.calls, initial, r.cursor)
  BY <1>2, <1>3, <1>4, <1>5, <1>8
<1>15. InOrder(r.calls, events, n + 1, new) /\ Len(r.calls) = new[n + 1] /\ n + 1 # 0
  BY <1>3, <1>12, <1>13
<1>16. Walked(r, events, n + 1, initial)
  BY <1>14, <1>15 DEF Walked
<1> QED BY <1>16 DEF r, e

\* g is the walk of LayOut over n events.
WalkOf(g, events, n, initial, duration) ==
    /\ LayOut(events, initial, duration) = WaitTo(g[n], duration)
    /\ g[0] = [calls |-> <<>>, cursor |-> initial]
    /\ \A k \in 1..n : g[k] = Placed(g[k - 1], events[k])

\* The steps of LayOut.
LEMMA WalkSteps ==
    ASSUME NEW events, IsSequence(events), NEW n, n = Len(events),
           \A k \in 1..n : Happens(events[k]), NEW initial \in Int, NEW duration
    PROVE  \E g : WalkOf(g, events, n, initial, duration)
<1> DEFINE first == [calls |-> <<>>, cursor |-> initial]
           F == {events[k].function : k \in 1..n} \cup {"Wait"}
           A == {events[k].args : k \in 1..n} \cup {<<d>> : d \in Int}
           C == [offset : Int, function : F, args : A, cost : Int]
           T == [calls : Seq(C), cursor : Int]
           Is(g) == g = [k \in 0..n |-> IF k = 0 THEN first ELSE Placed(g[k - 1], events[k])]
           op == [k \in 1..n |-> [v \in T |-> Placed(v, events[k])]]
<1>1. n \in Nat
  BY SequenceShape
<1>2. first \in T
  OBVIOUS
<1>3. ASSUME NEW v \in T, NEW k \in 1..n PROVE Placed(v, events[k]) \in T
  <2> DEFINE e == events[k]
             start == LargestOf(e.offset, v.cursor)
             w == [offset |-> v.cursor, function |-> "Wait",
                   args |-> <<e.offset - v.cursor>>, cost |-> e.offset - v.cursor]
             x == [offset |-> start, function |-> e.function, args |-> e.args, cost |-> e.cost]
  <2>1. e.offset \in Int /\ e.cost \in Int
    BY DEF Happens
  <2>2. v.cursor \in Int /\ v.calls \in Seq(C)
    <3> HIDE DEF C
    <3> QED BY <1>3
  <2>3. start \in Int
    BY <2>1, <2>2 DEF LargestOf
  <2>4. e.function \in F /\ e.args \in A /\ "Wait" \in F
    OBVIOUS
  <2>5. <<e.offset - v.cursor>> \in A /\ e.offset - v.cursor \in Int
    <3>1. e.offset - v.cursor \in Int
      BY <2>1, <2>2
    <3> QED BY <3>1
  <2> HIDE DEF F, A, e, start
  <2>6. w \in C
    BY <2>2, <2>4, <2>5
  <2>7. x \in C
    BY <2>1, <2>3, <2>4
  <2>8. Placed(v, events[k]) = [calls |-> Append(WaitTo(v, e.offset), x), cursor |-> start + e.cost]
    BY DEF Placed, e, start
  <2>9. WaitTo(v, e.offset) = IF e.offset > v.cursor THEN Append(v.calls, w) ELSE v.calls
    BY DEF WaitTo
  <2> HIDE DEF C, w, x
  <2>10. WaitTo(v, e.offset) \in Seq(C)
    BY <2>2, <2>6, <2>9
  <2>11. Append(WaitTo(v, e.offset), x) \in Seq(C) /\ start + e.cost \in Int
    BY <2>1, <2>3, <2>7, <2>10
  <2> QED BY <2>8, <2>11
<1> HIDE DEF T
<1>4. ASSUME NEW k \in 1..n, NEW v \in T
      PROVE  op[k][v] = Placed(v, events[k]) /\ op[k][v] \in T
  BY <1>3
<1> HIDE DEF op, first
<1>5. PICK h : /\ Iterates(h, n, first, op)
               /\ \A k \in 0..n : h[k] \in T
  <2>1. \A k \in 1..n : \A v \in T : op[k][v] \in T
    BY <1>4
  <2> QED BY <1>1, <1>2, <2>1, Recursion
<1>6. h = [k \in 0..n |-> IF k = 0 THEN first ELSE op[k][h[k - 1]]]
  BY <1>5 DEF Iterates
<1>7. Is(h)
  <2>1. ASSUME NEW k \in 0..n
        PROVE  h[k] = IF k = 0 THEN first ELSE Placed(h[k - 1], events[k])
    <3>1. CASE k = 0
      BY <1>6, <3>1
    <3>2. CASE k # 0
      <4>1. k \in 1..n /\ k - 1 \in 0..n
        BY <1>1, <3>2
      <4>2. op[k][h[k - 1]] = Placed(h[k - 1], events[k])
        BY <1>4, <1>5, <4>1
      <4> QED BY <1>6, <3>2, <4>2
    <3> QED BY <3>1, <3>2
  <2>2. h = [k \in 0..n |-> h[k]]
    BY <1>6
  <2> QED BY <2>1, <2>2
<1> DEFINE g == CHOOSE f : Is(f)
<1>8. Is(g)
  BY <1>7
<1>9. LayOut(events, initial, duration) = WaitTo(g[n], duration)
  BY DEF LayOut, first
<1> HIDE DEF g
<1>10. g[0] = first /\ \A k \in 1..n : g[k] = Placed(g[k - 1], events[k])
  BY <1>1, <1>8
<1> QED BY <1>9, <1>10 DEF first, WalkOf

\* compile_board lays the scheduled events out one after the other, for every
\* sequence of them: each becomes one call, in the order of the schedule, never
\* before its offset, and late only right behind the call before it; in between
\* there is nothing but waits, no two calls overlap and no time is lost, until
\* the end of the epoch at least.
THEOREM CallsLaidOut ==
    ASSUME NEW events, IsSequence(events), \A k \in 1..Len(events) : Happens(events[k]),
           NEW initial \in Int, NEW duration \in Int
    PROVE  \E end \in Int : \E at :
             /\ BackToBack(LayOut(events, initial, duration), initial, end)
             /\ InOrder(LayOut(events, initial, duration), events, Len(events), at)
             /\ end >= duration
<1> DEFINE n == Len(events)
<1>1. n \in Nat
  BY SequenceShape
<1>2. PICK g : WalkOf(g, events, n, initial, duration)
  <2>1. n = Len(events) /\ \A k \in 1..n : Happens(events[k])
    OBVIOUS
  <2> HIDE DEF n
  <2> QED BY <2>1, WalkSteps
<1> DEFINE S == {k \in 0..n : Walked(g[k], events, k, initial)}
<1>3. 0 \in S
  <2> DEFINE none == <<>>
             nowhere == [k \in 1..0 |-> 1]
  <2>1. none = [i \in 1..0 |-> none[i]] /\ 0 \in Nat /\ 1..0 = {}
    OBVIOUS
  <2>2. g[0].calls = none /\ g[0].cursor = initial
    BY <1>2 DEF WalkOf
  <2>3. nowhere = [k \in 1..0 |-> nowhere[k]]
    OBVIOUS
  <2> HIDE DEF none, nowhere
  <2>4. IsSequence(none) /\ Len(none) = 0
    BY <2>1, SequenceOf
  <2>5. BackToBack(none, initial, initial)
    BY <2>1, <2>4 DEF BackToBack
  <2>6. nowhere \in [1..0 -> 1..Len(none)]
    BY <2>1, <2>3
  <2>7. InOrder(none, events, 0, nowhere)
    BY <2>1, <2>4, <2>6 DEF InOrder
  <2>8. Walked(g[0], events, 0, initial)
    BY <2>2, <2>4, <2>5, <2>7 DEF Walked
  <2> QED BY <1>1, <2>8
<1>4. ASSUME NEW k \in 0..(n - 1), k \in S PROVE k + 1 \in S
  <2>1. k \in Nat /\ k + 1 \in 1..n /\ k + 1 \in 0..n /\ (k + 1) - 1 = k
    BY <1>1
  <2>2. Walked(g[k], events, k, initial) /\ Happens(events[k + 1])
    BY <1>4, <2>1
  <2>3. g[k + 1] = Placed(g[k], events[k + 1])
    BY <1>2, <2>1 DEF WalkOf
  <2>4. Walked(Placed(g[k], events[k + 1]), events, k + 1, initial)
    BY <2>1, <2>2, PlacedKeeps
  <2> QED BY <2>1, <2>3, <2>4
<1>5. Walked(g[n], events, n, initial)
  <2>1. \A k \in 0..n : k \in S
    <3> HIDE DEF S, n
    <3> QED BY <1>1, <1>3, <1>4, UpTo
  <2> QED BY <1>1, <2>1
<1> HIDE DEF n, S
<1>6. PICK at : InOrder(g[n].calls, events, n, at)
  BY <1>5 DEF Walked
<1>7. g[n].cursor \in Int /\ BackToBack(g[n].calls, initial, g[n].cursor)
  BY <1>5 DEF Walked
<1> DEFINE end == LargestOf(duration, g[n].cursor)
<1>8. /\ BackToBack(WaitTo(g[n], duration), initial, end)
      /\ InOrder(WaitTo(g[n], duration), events, n, at)
  BY <1>1, <1>6, <1>7, WaitKeeps
<1>9. end \in Int /\ end >= duration
  BY <1>7 DEF LargestOf
<1> HIDE DEF end
<1> QED BY <1>2, <1>8, <1>9 DEF n, WalkOf

-----------------------------------------------------------------------------
(* The rendezvous of an epoch.                                             *)

\* When a sync call listens, or could fire.
Listening(c) == c.offset + (IF c.function = "WaitMaster" THEN FixedCost("WaitMaster") ELSE 0)

\* The master fires when every board listens, and a margin later.
MasterIsLast(boards) ==
    \A a, b \in DOMAIN boards : \A i \in DOMAIN boards[b], k \in DOMAIN boards[a] :
      (boards[b][i].function = "TrigSlave" /\ boards[a][k].function \in SyncCalls)
        => boards[b][i].offset + boards[b][i].args[1]
             >= Listening(boards[a][k]) + GLOBAL_SYNC_MARGIN_CYCLES

\* A finite set of integers has a largest one, and Max gives it.
LEMMA FiniteMax ==
    ASSUME NEW S, IsFiniteSet(S), S \subseteq Int, S # {}
    PROVE  Max(S) \in S /\ \A y \in S : y <= Max(S)
<1>1. PICK n \in Nat : ExistsSurjection(1..n, S)
  BY FS_NatSurjection
<1>2. PICK f : f \in [1..n -> S] /\ \A t \in S : \E s \in 1..n : f[s] = t
  BY <1>1 DEF ExistsSurjection, Surjection
<1>3. n # 0
  <2>1. PICK t \in S : TRUE
    OBVIOUS
  <2>2. PICK s \in 1..n : f[s] = t
    BY <1>2
  <2> QED BY <2>2
<1>4. n \in Nat \ {0} /\ f \in [1..n -> Int] /\ S = {f[j] : j \in 1..n}
  BY <1>2, <1>3
<1>5. Max(S) \in S /\ \A i \in 1..n : f[i] <= Max(S)
  BY <1>4, Largest
<1> QED BY <1>2, <1>5

\* The times a board listens are finitely many.
LEMMA FiniteTimes ==
    ASSUME NEW s, IsSequence(s), NEW J, J \subseteq DOMAIN s, NEW v
    PROVE  IsFiniteSet({v[i] : i \in J})
<1> DEFINE f == [i \in J |-> v[i]]
           T == {v[i] : i \in J}
<1>1. DOMAIN s = 1..Len(s) /\ Len(s) \in Nat
  BY SequenceShape
<1>2. IsFiniteSet(1..Len(s))
  BY <1>1, FS_Interval
<1>3. IsFiniteSet(J)
  BY <1>1, <1>2, FS_Subset
<1>4. f \in Surjection(J, T)
  BY DEF Surjection
<1> HIDE DEF f, T
<1>5. IsFiniteSet(T)
  BY <1>3, <1>4, FS_Surjection
<1> QED BY <1>5 DEF T

\* The wait of the master is computed from where all sync calls of the epoch came
\* to be: whatever the boards' calls, the master fires when all of them listen.
THEOREM MasterFiresLast ==
    ASSUME NEW boards, IsFiniteSet(DOMAIN boards), NEW F, NEW A,
           \A b \in DOMAIN boards :
             /\ IsSequence(boards[b])
             /\ \A i \in DOMAIN boards[b] :
                  boards[b][i] \in [offset : Int, function : F, args : A, cost : Int]
    PROVE  MasterIsLast(MasterWaits(boards))
<1> DEFINE D == DOMAIN boards
           C == [offset : Int, function : F, args : A, cost : Int]
           J(b) == {j \in DOMAIN boards[b] : boards[b][j].function \in SyncCalls}
           arrivals(b) == {Listening(boards[b][i]) : i \in J(b)}
           all == UNION {arrivals(b) : b \in D}
           w == MasterWaits(boards)
           Patched(c, frontier) ==
             IF frontier = <<>> \/ c.function # "TrigSlave" THEN c
             ELSE [c EXCEPT !.args = <<SaturatingSub(frontier[1], c.offset) + GLOBAL_SYNC_MARGIN_CYCLES>>]
<1>1. SyncFrontier(boards) = IF all = {} THEN <<>> ELSE <<Max(all)>>
  BY DEF SyncFrontier, Listening
<1>2. w = [b \in D |-> [i \in DOMAIN boards[b] |-> Patched(boards[b][i], SyncFrontier(boards))]]
  BY DEF MasterWaits
<1>3. \A b \in D : IsFiniteSet(arrivals(b))
  <2> SUFFICES ASSUME NEW b \in D PROVE IsFiniteSet(arrivals(b))
    OBVIOUS
  <2> DEFINE v == [i \in DOMAIN boards[b] |-> Listening(boards[b][i])]
             K == J(b)
  <2>1. IsSequence(boards[b]) /\ K \subseteq DOMAIN boards[b]
    OBVIOUS
  <2>2. arrivals(b) = {v[i] : i \in K}
    OBVIOUS
  <2> HIDE DEF v, K
  <2>3. IsFiniteSet({v[i] : i \in K})
    BY <2>1, FiniteTimes
  <2> QED BY <2>2, <2>3
<1>4. IsFiniteSet(all)
  <2> DEFINE f == [b \in D |-> arrivals(b)]
             T == {arrivals(b) : b \in D}
  <2>1. f \in Surjection(D, T)
    BY DEF Surjection
  <2>2. \A t \in T : IsFiniteSet(t)
    BY <1>3
  <2> HIDE DEF f, T, D
  <2>3. IsFiniteSet(T)
    BY <2>1, FS_Surjection DEF D
  <2>4. IsFiniteSet(UNION T)
    BY <2>2, <2>3, FS_UNION
  <2> QED BY <2>4 DEF T
<1>5. FixedCost("WaitMaster") \in Int
  BY DEF FixedCost
<1>6. \A b \in D : \A i \in DOMAIN boards[b] : boards[b][i].offset \in Int /\ Listening(boards[b][i]) \in Int
  <2> SUFFICES ASSUME NEW b \in D, NEW i \in DOMAIN boards[b]
               PROVE  boards[b][i].offset \in Int /\ Listening(boards[b][i]) \in Int
    OBVIOUS
  <2>1. boards[b][i].offset \in Int
    OBVIOUS
  <2> QED BY <1>5, <2>1 DEF Listening
<1>7. all \subseteq Int
  BY <1>6
<1>8. \A b \in D : \A i \in DOMAIN boards[b] :
        boards[b][i].function \in SyncCalls => Listening(boards[b][i]) \in all
  OBVIOUS
<1>9. \A y \in all : y <= Max(all)
  <2> HIDE DEF all
  <2> QED BY <1>4, <1>7, FiniteMax
<1> QED
  <2> SUFFICES ASSUME NEW a \in DOMAIN w, NEW b \in DOMAIN w, NEW i \in DOMAIN w[b], NEW k \in DOMAIN w[a],
                      w[b][i].function = "TrigSlave", w[a][k].function \in SyncCalls
               PROVE  w[b][i].offset + w[b][i].args[1] >= Listening(w[a][k]) + GLOBAL_SYNC_MARGIN_CYCLES
    BY DEF MasterIsLast
  <2> DEFINE x == boards[b][i]
             y == boards[a][k]
             frontier == SyncFrontier(boards)
             last == Max(all)
             wait == SaturatingSub(last, x.offset) + GLOBAL_SYNC_MARGIN_CYCLES
  <2>1. a \in D /\ b \in D /\ i \in DOMAIN boards[b] /\ k \in DOMAIN boards[a]
    <3> HIDE DEF w, Patched
    <3> QED BY <1>2
  <2>2. w[b][i] = Patched(x, frontier) /\ w[a][k] = Patched(y, frontier)
    <3> HIDE DEF w, Patched, frontier
    <3> QED BY <1>2, <2>1 DEF frontier
  <2>3. x \in C /\ y \in C
    BY <2>1
  <2> HIDE DEF all, w, x, y, frontier, last
  <2>4. ASSUME NEW c \in C
        PROVE  /\ Patched(c, frontier).function = c.function
               /\ Patched(c, frontier).offset = c.offset
    <3>1. CASE frontier = <<>> \/ c.function # "TrigSlave"
      BY <3>1
    <3>2. CASE ~(frontier = <<>> \/ c.function # "TrigSlave")
      BY <2>4, <3>2
    <3> QED BY <3>1, <3>2
  <2>5. ASSUME NEW c \in C, c.function = "TrigSlave", frontier # <<>>
        PROVE  Patched(c, frontier).args[1]
                 = SaturatingSub(frontier[1], c.offset) + GLOBAL_SYNC_MARGIN_CYCLES
    BY <2>5
  <2> HIDE DEF Patched, C
  <2>6. /\ x.function = "TrigSlave" /\ w[b][i].offset = x.offset
        /\ y.function \in SyncCalls /\ Listening(w[a][k]) = Listening(y)
    BY <2>2, <2>3, <2>4 DEF Listening
  <2>7. Listening(y) \in all /\ Listening(y) <= last /\ x.offset \in Int /\ Listening(y) \in Int
    BY <1>6, <1>8, <1>9, <2>1, <2>6 DEF x, y, last
  <2>8. frontier # <<>> /\ frontier[1] = last
    BY <1>1, <2>7 DEF frontier, last
  <2>9. w[b][i].args[1] = wait
    BY <2>2, <2>3, <2>5, <2>6, <2>8
  <2>10. last \in Int
    <3>1. all # {}
      BY <2>7
    <3>2. last \in all
      BY <1>4, <1>7, <3>1, FiniteMax DEF last
    <3> QED BY <1>7, <3>2
  <2>11. x.offset + wait >= Listening(y) + GLOBAL_SYNC_MARGIN_CYCLES
    BY <2>7, <2>10 DEF SaturatingSub, GLOBAL_SYNC_MARGIN_CYCLES
  <2> HIDE DEF wait
  <2> QED BY <2>6, <2>9, <2>11

=============================================================================
