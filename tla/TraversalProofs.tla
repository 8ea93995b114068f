-------------------------- MODULE TraversalProofs ---------------------------
(***************************************************************************)
(* The traversal of a DescartesGenerator for every layout of repeat and    *)
(* scan nodes: ParaDict lists the points in the order of the nested loops  *)
(* without a gap, and a run that ends well has attempted all of them.      *)
(***************************************************************************)
EXTENDS ExperimentProofs, FiniteSetTheorems

\* Loops at the iterations c, outermost first, have left the point d behind.
Passed(c, d) ==
    \E i \in DOMAIN c : d[i] < c[i] /\ \A j \in DOMAIN c : j < i => d[j] = c[j]

\* Loops at the iterations c are on their way through the point d.
Inside(c, d) == \A i \in DOMAIN c : d[i] = c[i]

\* A loop that starts below the others leaves nothing more behind.
LEMMA PassedDown ==
    ASSUME NEW n \in Nat, NEW c, NEW b, NEW d, DOMAIN c = 1..n, DOMAIN b = 1..(n + 1),
           \A i \in 1..n : b[i] = c[i], b[n + 1] = 0, d[n + 1] \in Nat
    PROVE  Passed(b, d) <=> Passed(c, d)
<1>0. /\ \A i \in 1..(n + 1) : i \in 1..n \/ i = n + 1
      /\ \A i \in 1..n : i \in 1..(n + 1) /\ \A j \in 1..(n + 1) : j < i => j \in 1..n
  OBVIOUS
<1>1. ASSUME Passed(b, d) PROVE Passed(c, d)
  <2>1. PICK i \in 1..(n + 1) : d[i] < b[i] /\ \A j \in 1..(n + 1) : j < i => d[j] = b[j]
    BY <1>1 DEF Passed
  <2>2. i # n + 1
    BY <2>1
  <2>3. i \in 1..n /\ \A j \in 1..n : j < i => d[j] = c[j]
    BY <1>0, <2>1, <2>2
  <2> QED BY <2>1, <2>3 DEF Passed
<1>2. ASSUME Passed(c, d) PROVE Passed(b, d)
  <2>1. PICK i \in 1..n : d[i] < c[i] /\ \A j \in 1..n : j < i => d[j] = c[j]
    BY <1>2 DEF Passed
  <2>2. d[i] < b[i] /\ \A j \in 1..(n + 1) : j < i => d[j] = b[j]
    BY <1>0, <2>1
  <2> QED BY <1>0, <2>2 DEF Passed
<1> QED BY <1>1, <1>2

\* The innermost loop goes on: what it was inside is now behind it.
LEMMA PassedNext ==
    ASSUME NEW n \in Nat \ {0}, NEW c, NEW b, NEW d, DOMAIN c = 1..n, DOMAIN b = 1..n,
           \A i \in 1..n : c[i] \in Nat /\ d[i] \in Nat,
           \A i \in 1..n : i # n => b[i] = c[i], b[n] = c[n] + 1
    PROVE  Passed(b, d) <=> Passed(c, d) \/ Inside(c, d)
<1>0. n \in 1..n /\ \A i \in 1..n : i # n => i < n /\ \A j \in 1..n : j < i => j # n
  OBVIOUS
<1>1. ASSUME Passed(b, d) PROVE Passed(c, d) \/ Inside(c, d)
  <2>1. PICK i \in 1..n : d[i] < b[i] /\ \A j \in 1..n : j < i => d[j] = b[j]
    BY <1>1 DEF Passed
  <2>2. CASE i # n
    <3>1. d[i] < c[i] /\ \A j \in 1..n : j < i => d[j] = c[j]
      BY <1>0, <2>1, <2>2
    <3> QED BY <3>1 DEF Passed
  <2>3. CASE i = n
    <3>1. \A j \in 1..n : j < n => d[j] = c[j]
      BY <1>0, <2>1, <2>3
    <3>2. d[n] < c[n] \/ d[n] = c[n]
      BY <1>0, <2>1, <2>3
    <3>3. CASE d[n] < c[n]
      BY <1>0, <3>1, <3>3 DEF Passed
    <3>4. CASE d[n] = c[n]
      <4>1. \A j \in 1..n : d[j] = c[j]
        BY <1>0, <3>1, <3>4
      <4> QED BY <4>1 DEF Inside
    <3> QED BY <3>2, <3>3, <3>4
  <2> QED BY <2>2, <2>3
<1>2. ASSUME Passed(c, d) PROVE Passed(b, d)
  <2>1. PICK i \in 1..n : d[i] < c[i] /\ \A j \in 1..n : j < i => d[j] = c[j]
    BY <1>2 DEF Passed
  <2>2. d[i] < b[i]
    <3>1. c[i] \in Nat /\ d[i] \in Nat
      OBVIOUS
    <3> QED BY <2>1, <3>1
  <2>3. \A j \in 1..n : j < i => d[j] = b[j]
    <3>1. \A j \in 1..n : j < i => j # n
      OBVIOUS
    <3> QED BY <2>1, <3>1
  <2> QED BY <2>2, <2>3 DEF Passed
<1>3. ASSUME Inside(c, d) PROVE Passed(b, d)
  <2>1. d[n] = c[n] /\ c[n] \in Nat
    BY <1>0, <1>3 DEF Inside
  <2>2. d[n] < b[n]
    BY <2>1
  <2>3. \A j \in 1..n : j < n => d[j] = b[j]
    BY <1>0, <1>3 DEF Inside
  <2> QED BY <1>0, <2>2, <2>3 DEF Passed
<1> QED BY <1>1, <1>2, <1>3

\* The innermost loop is over: what it was below is behind it as a whole.
LEMMA PassedEnd ==
    ASSUME NEW n \in Nat \ {0}, NEW c, NEW b, NEW d, DOMAIN c = 1..n,
           DOMAIN b = 1..(n - 1), \A i \in 1..(n - 1) : b[i] = c[i], d[n] < c[n]
    PROVE  Passed(c, d) <=> Passed(b, d) \/ Inside(b, d)
<1>0. /\ n \in 1..n /\ \A i \in 1..n : i # n => i \in 1..(n - 1)
      /\ \A i \in 1..n : i < n => i \in 1..(n - 1)
      /\ \A i \in 1..(n - 1) : i \in 1..n /\ i < n /\ \A j \in 1..n : j < i => j \in 1..(n - 1)
  OBVIOUS
<1>1. ASSUME Passed(c, d) PROVE Passed(b, d) \/ Inside(b, d)
  <2>1. PICK i \in 1..n : d[i] < c[i] /\ \A j \in 1..n : j < i => d[j] = c[j]
    BY <1>1 DEF Passed
  <2>2. CASE i # n
    <3>1. i \in 1..(n - 1) /\ d[i] < b[i] /\ \A j \in 1..(n - 1) : j < i => d[j] = b[j]
      BY <1>0, <2>1, <2>2
    <3> QED BY <3>1 DEF Passed
  <2>3. CASE i = n
    <3>1. \A j \in 1..(n - 1) : d[j] = b[j]
      BY <1>0, <2>1, <2>3
    <3> QED BY <3>1 DEF Inside
  <2> QED BY <2>2, <2>3
<1>2. ASSUME Passed(b, d) PROVE Passed(c, d)
  <2>1. PICK i \in 1..(n - 1) : d[i] < b[i] /\ \A j \in 1..(n - 1) : j < i => d[j] = b[j]
    BY <1>2 DEF Passed
  <2>2. i \in 1..n /\ d[i] < c[i] /\ \A j \in 1..n : j < i => d[j] = c[j]
    BY <1>0, <2>1
  <2> QED BY <2>2 DEF Passed
<1>3. ASSUME Inside(b, d) PROVE Passed(c, d)
  <2>1. \A j \in 1..n : j < n => d[j] = c[j]
    BY <1>0, <1>3 DEF Inside
  <2> QED BY <1>0, <2>1 DEF Passed
<1> QED BY <1>1, <1>2, <1>3

-----------------------------------------------------------------------------
(* The points. *)

\* The shape of a point.
LEMMA PointFacts ==
    ASSUME NEW layout \in Layouts, NEW d \in Points(layout)
    PROVE  /\ DOMAIN d = 1..Len(layout) /\ d = [i \in 1..Len(layout) |-> d[i]]
           /\ \A i \in 1..Len(layout) : d[i] \in Nat /\ d[i] < Size(layout, i)
<1>1. DOMAIN layout = 1..Len(layout) /\ \A i \in 1..Len(layout) : Size(layout, i) \in Nat
  BY LayoutFacts
<1> DEFINE U == UNION {0..Size(layout, i) : i \in DOMAIN layout}
<1>2. U \subseteq Nat
  BY <1>1
<1>3. d \in [DOMAIN layout -> U] /\ \A i \in DOMAIN layout : d[i] < Size(layout, i)
  BY DEF Points
<1> HIDE DEF U
<1> QED BY <1>1, <1>2, <1>3

\* Complete coordinates within the sizes of the loops are a point.
LEMMA PointFrom ==
    ASSUME NEW layout \in Layouts, NEW d, d = [i \in 1..Len(layout) |-> d[i]],
           \A i \in 1..Len(layout) : d[i] \in Nat /\ d[i] < Size(layout, i)
    PROVE  d \in Points(layout)
<1>1. DOMAIN layout = 1..Len(layout) /\ \A i \in 1..Len(layout) : Size(layout, i) \in Nat
  BY LayoutFacts
<1> DEFINE U == UNION {0..Size(layout, i) : i \in DOMAIN layout}
<1>2. ASSUME NEW i \in 1..Len(layout) PROVE d[i] \in U
  <2>1. d[i] \in 0..Size(layout, i)
    BY <1>1
  <2> QED BY <1>1, <2>1
<1> HIDE DEF U
<1>3. d \in [DOMAIN layout -> U]
  BY <1>1, <1>2
<1> QED BY <1>1, <1>3 DEF Points, U

\* Loops all the way down are inside one point, and have passed the ones
\* before it.
LEMMA PassedPoint ==
    ASSUME NEW layout \in Layouts, NEW c \in Points(layout), NEW d \in Points(layout)
    PROVE  /\ Passed(c, d) <=> Before(d, c)
           /\ Inside(c, d) <=> d = c
<1>1. DOMAIN c = DOMAIN d /\ c = [i \in DOMAIN d |-> c[i]] /\ d = [i \in DOMAIN d |-> d[i]]
  BY PointFacts
<1>2. Passed(c, d) <=> Before(d, c)
  BY <1>1 DEF Passed, Before
<1>3. Inside(c, d) <=> d = c
  BY <1>1 DEF Inside
<1> QED BY <1>2, <1>3

\* No point comes before itself.
LEMMA NotBefore ==
    ASSUME NEW c, \A i \in DOMAIN c : c[i] \in Nat
    PROVE  ~Before(c, c)
  BY DEF Before

-----------------------------------------------------------------------------
(* ParaDict. *)

Recorded(d) == \E k \in DOMAIN recorded : recorded[k].coords = d

\* ParaDict holds points in the order of the nested loops, without a gap.
OrderInv ==
    /\ \A k \in DOMAIN recorded :
          /\ recorded[k].coords \in Points(nodes)
          /\ recorded[k].index = k - 1
          /\ recorded[k].params = ParamsAt(nodes, recorded[k].coords)
    /\ \A k, m \in DOMAIN recorded :
          k < m => Before(recorded[k].coords, recorded[m].coords)
    /\ \A m \in DOMAIN recorded : \A d \in Points(nodes) :
          Before(d, recorded[m].coords) =>
              \E k \in DOMAIN recorded : k < m /\ recorded[k].coords = d

\* What is recorded is what the loops have passed, and the current point; it
\* is everything when they have ended by themselves.
ReachInv ==
    /\ pc \in ScanLabels => executionIndex = Len(recorded)
    /\ pc \in {"loop", "final", "attempt"} =>
          \A d \in Points(nodes) : Recorded(d) <=> Passed(Coords(frames), d)
    /\ pc \in PointLabels =>
          \A d \in Points(nodes) :
              Recorded(d) <=> Passed(Coords(frames), d) \/ d = Coords(frames)
    /\ pc \in {"shutdown", "conclude", "close", "persist"} /\ runError = None /\ ~stopped =>
          \A d \in Points(nodes) : Recorded(d)
    /\ pc = "idle" /\ outcome = "ok" /\ ~stopped => \A d \in Points(nodes) : Recorded(d)

\* The loops' iterations.
LEMMA LoopFacts ==
    ASSUME ScanInv, pc \in ScanLabels
    PROVE  /\ nodes \in Layouts /\ frames \in Seq(Frame)
           /\ Depth \in Nat /\ Len(frames) = Depth /\ Depth <= Len(nodes) /\ Len(nodes) \in Nat
           /\ DOMAIN Coords(frames) = 1..Depth
           /\ \A i \in 1..Depth : /\ Coords(frames)[i] = frames[i].index
                                  /\ Coords(frames)[i] \in Nat
           /\ \A d \in Points(nodes) : \A i \in 1..Depth :
                 i \in 1..Len(nodes) /\ d[i] \in Nat /\ d[i] < Size(nodes, i)
<1>1. nodes \in Layouts /\ frames \in Seq(Frame) /\ Depth <= Len(nodes)
  BY DEF ScanInv, ScanTypes, LoopsInv
<1>2. /\ Depth \in Nat /\ Len(frames) = Depth /\ DOMAIN Coords(frames) = 1..Depth
      /\ \A i \in 1..Depth : /\ Coords(frames)[i] = frames[i].index
                             /\ Coords(frames)[i] \in Nat
  BY <1>1, FrameFacts DEF Depth
<1>3. Len(nodes) \in Nat
  BY <1>1, LayoutFacts
<1>4. \A i \in 1..Depth : i \in 1..Len(nodes)
  BY <1>1, <1>2, <1>3
<1>5. ASSUME NEW d \in Points(nodes), NEW i \in 1..Len(nodes)
      PROVE  d[i] \in Nat /\ d[i] < Size(nodes, i)
  BY <1>1, <1>5, PointFacts
<1> QED BY <1>1, <1>2, <1>3, <1>4, <1>5

\* Once the loops are all the way down they are at a point.
LEMMA AtPoint ==
    ASSUME ScanInv, pc \in ScanLabels, pc # "loop"
    PROVE  Depth = Len(nodes) /\ Coords(frames) \in Points(nodes)
<1>1. Depth = Len(nodes) /\ \A i \in 1..Depth : frames[i].index < Size(nodes, i)
  BY DEF ScanInv, LoopsInv
<1>2. /\ nodes \in Layouts /\ frames \in Seq(Frame) /\ DOMAIN frames = 1..Depth
      /\ \A i \in 1..Depth : Coords(frames)[i] = frames[i].index /\ Coords(frames)[i] \in Nat
  BY LoopFacts, FrameFacts DEF Depth
<1>3. Coords(frames) = [i \in 1..Len(nodes) |-> Coords(frames)[i]]
  BY <1>1, <1>2 DEF Coords
<1>4. \A i \in 1..Len(nodes) : Coords(frames)[i] \in Nat /\ Coords(frames)[i] < Size(nodes, i)
  BY <1>1, <1>2
<1> QED BY <1>1, <1>2, <1>3, <1>4, PointFrom

\* Steps that record nothing keep the order.
LEMMA SameOrder ==
    ASSUME OrderInv, UNCHANGED <<recorded, nodes>>
    PROVE  OrderInv'
  BY DEF OrderInv

\* Steps that leave the traversal where it is.
LEMMA SameReach ==
    ASSUME ReachInv, UNCHANGED <<recorded, nodes, frames, executionIndex>>,
           \/ UNCHANGED <<pc, stopped, runError, outcome>>
           \/ pc \in {"loop", "final"} /\ pc' \in {"loop", "final", "attempt"}
           \/ pc \in PointLabels /\ pc' \in PointLabels
    PROVE  ReachInv'
<1>1. \A d : Recorded(d)' <=> Recorded(d)
  BY DEF Recorded
<1> QED BY <1>1 DEF ReachInv, ScanLabels, PointLabels

\* Loops that move without passing a point.
LEMMA MovedReach ==
    ASSUME ReachInv, UNCHANGED <<recorded, nodes, executionIndex>>,
           pc \in {"loop", "final", "attempt"}, pc' \in {"loop", "final", "attempt"},
           \A d \in Points(nodes) :
              Passed(Coords(frames'), d) <=> Passed(Coords(frames), d)
    PROVE  ReachInv'
<1>1. \A d : Recorded(d)' <=> Recorded(d)
  BY DEF Recorded
<1> QED BY <1>1 DEF ReachInv, ScanLabels, PointLabels

\* The end of the traversal: all points are recorded, or it says why not.
LEMMA EndedReach ==
    ASSUME UNCHANGED <<recorded, nodes>>,
           pc' \in {"shutdown", "conclude", "close", "persist"},
           runError' = None /\ ~stopped' => \A d \in Points(nodes) : Recorded(d)
    PROVE  ReachInv'
<1>1. \A d : Recorded(d)' <=> Recorded(d)
  BY DEF Recorded
<1> QED BY <1>1 DEF ReachInv, ScanLabels, PointLabels
\* The first call_next: nothing is recorded and nothing is behind.
LEMMA ConfigureReach ==
    ASSUME RowsInv, ScanTypes, Configure
    PROVE  OrderInv' /\ ReachInv'
<1>1. pc = "configure" /\ UNCHANGED recorded
  BY DEF Configure
<1>2. recorded = <<>>
  <2>1. Len(recorded) = 0
    BY <1>1 DEF RowsInv, Attempts
  <2> DEFINE P == [coords : Seq(Nat), params : AllParams, index : Nat]
  <2>2. recorded \in Seq(P)
    BY DEF ScanTypes
  <2> HIDE DEF P
  <2> QED BY <2>1, <2>2
<1>3. DOMAIN recorded' = {}
  BY <1>1, <1>2
<1>4. OrderInv'
  BY <1>3 DEF OrderInv
<1>5. \A d : ~Recorded(d)'
  BY <1>3 DEF Recorded
<1>6. CASE Raise("configure", "close")
  <2>1. pc' = "close" /\ runError' # None
    BY <1>6 DEF Raise, None
  <2>2. ReachInv'
    BY <2>1 DEF ReachInv, ScanLabels, PointLabels
  <2> QED BY <1>4, <2>2
<1>7. CASE ~Raise("configure", "close")
  <2>1. PICK ns \in Layouts : /\ nodes' = ns /\ Descend(ns, <<>>, EmptyParams)
                              /\ executionIndex' = 0
    BY <1>7 DEF Configure
  <2>2. /\ pc' \in {"loop", "final"}
        /\ \/ frames' = <<>>
           \/ Len(ns) # 0 /\ frames' = Append(<<>>, [index |-> 0, outer |-> EmptyParams])
    BY <2>1 DEF Descend
  <2>3. ASSUME NEW d \in Points(nodes') PROVE ~Passed(Coords(frames'), d)
    <3>1. CASE frames' = <<>>
      <4>1. DOMAIN Coords(frames') = {}
        BY <3>1 DEF Coords
      <4> QED BY <4>1 DEF Passed
    <3>2. CASE Len(ns) # 0 /\ frames' = Append(<<>>, [index |-> 0, outer |-> EmptyParams])
      <4>1. frames' = <<[index |-> 0, outer |-> EmptyParams]>>
        BY <3>2
      <4>2. DOMAIN Coords(frames') = {1} /\ Coords(frames')[1] = 0
        BY <4>1 DEF Coords
      <4>3. Len(ns) \in Nat /\ 1 \in 1..Len(ns)
        BY <3>2, LayoutFacts
      <4>4. d[1] \in Nat
        BY <2>1, <4>3, PointFacts
      <4> QED BY <4>2, <4>4 DEF Passed
    <3> QED BY <2>2, <3>1, <3>2
  <2>4. executionIndex' = Len(recorded')
    BY <1>1, <1>2, <2>1
  <2>5. ReachInv'
    BY <1>5, <2>2, <2>3, <2>4 DEF ReachInv, ScanLabels, PointLabels
  <2> QED BY <1>4, <2>5
<1> QED BY <1>6, <1>7

\* Going down: the loop below starts before every point it spans.
LEMMA IterateReach ==
    ASSUME ScanInv, ReachInv, pc = "loop", Iterate, UNCHANGED recorded
    PROVE  ReachInv'
<1> DEFINE n == Depth
           ps == WithValue(frames[Depth].outer, nodes[Depth], frames[Depth].index)
<1>1. UNCHANGED <<nodes, executionIndex>> /\ Descend(nodes, frames, ps)
  BY DEF Iterate
<1>2. pc \in ScanLabels
  BY DEF ScanLabels
<1>3. /\ nodes \in Layouts /\ frames \in Seq(Frame)
      /\ n \in Nat /\ Len(frames) = n /\ n <= Len(nodes) /\ Len(nodes) \in Nat
      /\ DOMAIN Coords(frames) = 1..n
      /\ \A i \in 1..n : Coords(frames)[i] = frames[i].index
  BY <1>2, LoopFacts
<1> HIDE DEF n, ps
<1>4. CASE n = Len(nodes)
  <2>1. pc' = "final" /\ frames' = frames
    BY <1>1, <1>3, <1>4 DEF Descend
  <2> QED BY <1>1, <2>1, SameReach
<1>5. CASE n # Len(nodes)
  <2>1. pc' = "loop" /\ frames' = Append(frames, [index |-> 0, outer |-> ps])
    BY <1>1, <1>3, <1>5 DEF Descend
  <2>2. /\ DOMAIN frames' = 1..(n + 1) /\ frames'[n + 1] = [index |-> 0, outer |-> ps]
        /\ \A i \in 1..n : frames'[i] = frames[i]
    BY <1>3, <2>1
  <2>3. /\ DOMAIN Coords(frames') = 1..(n + 1) /\ Coords(frames')[n + 1] = 0
        /\ \A i \in 1..n : Coords(frames')[i] = Coords(frames)[i]
    <3>1. n + 1 \in 1..(n + 1) /\ \A i \in 1..n : i \in 1..(n + 1)
      BY <1>3
    <3> QED BY <1>3, <2>2, <3>1 DEF Coords
  <2>4. ASSUME NEW d \in Points(nodes)
        PROVE  Passed(Coords(frames'), d) <=> Passed(Coords(frames), d)
    <3>1. n + 1 \in 1..Len(nodes)
      BY <1>3, <1>5
    <3>2. d[n + 1] \in Nat
      BY <1>3, <3>1, PointFacts
    <3> QED BY <1>3, <2>3, <3>2, PassedDown
  <2> QED BY <1>1, <2>1, <2>4, MovedReach
<1> QED BY <1>4, <1>5

\* Coming back: the innermost of the loops fs leaves its iteration behind.
LEMMA ReturnedPasses ==
    ASSUME nodes \in Layouts, NEW n \in Nat \ {0}, NEW fs \in Seq(Frame), NEW ps,
           Len(fs) = n, n <= Len(nodes), Returned(fs, ps), NEW d \in Points(nodes)
    PROVE  /\ pc' = "loop"
           /\ Passed(Coords(frames'), d) <=> Passed(Coords(fs), d) \/ Inside(Coords(fs), d)
<1>1. fs # <<>> /\ DOMAIN fs = 1..n /\ n \in 1..n /\ \A i \in 1..n : fs[i] \in Frame
  OBVIOUS
<1>2. pc' = "loop" /\ frames' = [fs EXCEPT ![n].index = @ + 1]
  BY <1>1 DEF Returned
<1>3. /\ DOMAIN frames' = 1..n /\ \A i \in 1..n : i # n => frames'[i] = fs[i]
      /\ frames'[n] = [fs[n] EXCEPT !.index = @ + 1]
  BY <1>1, <1>2
<1>4. \A i \in 1..n : fs[i].index \in Nat
  BY <1>1 DEF Frame
<1>5. frames'[n].index = fs[n].index + 1
  BY <1>1, <1>3 DEF Frame
<1>6. /\ DOMAIN Coords(frames') = 1..n /\ DOMAIN Coords(fs) = 1..n
      /\ \A i \in 1..n : Coords(fs)[i] \in Nat
      /\ \A i \in 1..n : i # n => Coords(frames')[i] = Coords(fs)[i]
      /\ Coords(frames')[n] = Coords(fs)[n] + 1
  BY <1>1, <1>3, <1>4, <1>5 DEF Coords
<1>7. ASSUME NEW i \in 1..n PROVE d[i] \in Nat
  <2>1. i \in 1..Len(nodes)
    BY LayoutFacts
  <2> QED BY <2>1, PointFacts
<1> QED BY <1>2, <1>6, <1>7, PassedNext

\* The end of a loop passes no point; the end of the outermost one leaves
\* every point behind.
LEMMA EndLoopReach ==
    ASSUME ScanInv, ReachInv, pc = "loop", EndLoop, ~RaiseInTraversal("analyze"),
           UNCHANGED recorded
    PROVE  ReachInv'
<1> DEFINE n == Depth
           fs == SubSeq(frames, 1, Depth - 1)
           ps == frames[Depth].outer
<1>1. /\ frames[n].index = Size(nodes, n) /\ Returned(fs, ps)
      /\ UNCHANGED <<nodes, executionIndex, stopped, errorVars>>
  BY DEF EndLoop
<1>2. pc \in ScanLabels
  BY DEF ScanLabels
<1>3. /\ nodes \in Layouts /\ frames \in Seq(Frame)
      /\ n \in Nat /\ Len(frames) = n /\ n <= Len(nodes) /\ Len(nodes) \in Nat
      /\ DOMAIN Coords(frames) = 1..n
      /\ \A i \in 1..n : Coords(frames)[i] = frames[i].index
      /\ \A d \in Points(nodes) : \A i \in 1..n : d[i] < Size(nodes, i)
  BY <1>2, LoopFacts
<1>4. n > 0
  BY <1>2 DEF ScanInv, LoopsInv
<1>5. /\ fs \in Seq(Frame) /\ Len(fs) = n - 1 /\ DOMAIN fs = 1..(n - 1)
      /\ \A i \in 1..(n - 1) : fs[i] = frames[i]
  BY <1>3, <1>4
<1> HIDE DEF n, fs, ps
<1>6. /\ DOMAIN Coords(fs) = 1..(n - 1)
      /\ \A i \in 1..(n - 1) : Coords(fs)[i] = Coords(frames)[i]
  <2>1. \A i \in 1..(n - 1) : i \in 1..n
    BY <1>3
  <2> QED BY <1>3, <1>5, <2>1 DEF Coords
<1>7. ASSUME NEW d \in Points(nodes)
      PROVE  Passed(Coords(frames), d) <=> Passed(Coords(fs), d) \/ Inside(Coords(fs), d)
  <2>1. n \in 1..n /\ n \in Nat \ {0}
    BY <1>3, <1>4
  <2>2. d[n] < Coords(frames)[n]
    BY <1>1, <1>3, <2>1
  <2> QED BY <1>3, <1>6, <2>1, <2>2, PassedEnd
<1>8. CASE n = 1
  <2>1. fs = <<>>
    BY <1>5, <1>8
  <2>2. pc' = "shutdown"
    BY <1>1, <2>1 DEF Returned
  <2>3. ASSUME NEW d \in Points(nodes) PROVE Recorded(d)
    <3>1. DOMAIN Coords(fs) = {}
      BY <1>6, <1>8
    <3>2. Inside(Coords(fs), d)
      BY <3>1 DEF Inside
    <3> QED BY <1>7, <3>2 DEF ReachInv
  <2> QED BY <1>1, <2>2, <2>3, EndedReach
<1>9. CASE n # 1
  <2> DEFINE e == n - 1
  <2>1. e \in Nat \ {0} /\ Len(fs) = e /\ e <= Len(nodes)
    BY <1>3, <1>4, <1>5, <1>9
  <2>2. fs # <<>>
    BY <1>3, <1>4, <1>5, <1>9
  <2> HIDE DEF e
  <2>3. pc' = "loop"
    BY <1>1, <2>2 DEF Returned
  <2>4. ASSUME NEW d \in Points(nodes)
        PROVE  Passed(Coords(frames'), d) <=> Passed(Coords(frames), d)
    BY <1>1, <1>3, <1>5, <1>7, <2>1, ReturnedPasses
  <2> QED BY <1>1, <2>3, <2>4, MovedReach
<1> QED BY <1>8, <1>9

\* The end of a point leaves it behind.
LEMMA AnalyzeReach ==
    ASSUME ScanInv, ReachInv, AnalyzePoint, ~RaiseInTraversal("analyze")
    PROVE  ReachInv'
<1>1. /\ pc = "analyze" /\ Returned(frames, params)
      /\ UNCHANGED <<recorded, nodes, executionIndex>>
  BY DEF AnalyzePoint, pointUnchanged
<1>2. pc \in ScanLabels /\ pc # "loop"
  BY <1>1 DEF ScanLabels, PointLabels
<1>3. /\ nodes \in Layouts /\ frames \in Seq(Frame) /\ Len(frames) = Depth
      /\ Depth = Len(nodes) /\ Depth \in Nat /\ Coords(frames) \in Points(nodes)
  BY <1>2, LoopFacts, AtPoint
<1>4. ASSUME NEW d \in Points(nodes)
      PROVE  Recorded(d) <=> Passed(Coords(frames), d) \/ Inside(Coords(frames), d)
  <2>1. Recorded(d) <=> Passed(Coords(frames), d) \/ d = Coords(frames)
    BY <1>1 DEF ReachInv, PointLabels
  <2> QED BY <1>3, <2>1, PassedPoint
<1>5. \A d : Recorded(d)' <=> Recorded(d)
  BY <1>1 DEF Recorded
<1>6. CASE frames = <<>>
  <2>1. pc' = "shutdown"
    BY <1>1, <1>6 DEF Returned
  <2>2. DOMAIN Coords(frames) = {}
    BY <1>6 DEF Coords
  <2>3. \A d \in Points(nodes) : Recorded(d)
    BY <1>4, <2>2 DEF Inside
  <2> QED BY <1>1, <2>1, <2>3, EndedReach
<1>7. CASE frames # <<>>
  <2> DEFINE n == Depth
  <2>1. n \in Nat \ {0} /\ Len(frames) = n /\ n <= Len(nodes)
    BY <1>3, <1>7
  <2> HIDE DEF n
  <2>2. pc' = "loop"
    BY <1>1, <1>7 DEF Returned
  <2>3. ASSUME NEW d \in Points(nodes)
        PROVE  Passed(Coords(frames'), d) <=> Recorded(d)
    BY <1>1, <1>3, <1>4, <2>1, ReturnedPasses
  <2>4. executionIndex' = Len(recorded')
    BY <1>1, <1>2 DEF ReachInv
  <2> QED BY <1>1, <1>5, <2>2, <2>3, <2>4 DEF ReachInv, ScanLabels, PointLabels
<1> QED BY <1>6, <1>7
\* A point is recorded: the loops are at it, and at the first that is not yet
\* recorded.
LEMMA AttemptReach ==
    ASSUME ScanInv, OrderInv, ReachInv, Attempt
    PROVE  OrderInv' /\ ReachInv'
<1> DEFINE c == Coords(frames)
           n == Len(recorded)
           point == [coords |-> c, params |-> params, index |-> executionIndex]
           P == [coords : Seq(Nat), params : AllParams, index : Nat]
<1>1. /\ pc = "attempt" /\ pc' \in {"compile", "await"} /\ UNCHANGED <<nodes, frames>>
      /\ recorded' = Append(recorded, point) /\ executionIndex' = executionIndex + 1
  BY DEF Attempt, RecordPoint, Coords
<1>2. pc \in ScanLabels /\ pc # "loop"
  BY <1>1 DEF ScanLabels
<1>3. nodes \in Layouts /\ c \in Points(nodes)
  BY <1>2, LoopFacts, AtPoint
<1>4. params = ParamsAt(nodes, c) /\ executionIndex = n
  BY <1>2 DEF ScanInv, LoopsInv, ReachInv
<1>5. recorded \in Seq(P)
  BY DEF ScanInv, ScanTypes
<1>6. \A d \in Points(nodes) : Recorded(d) <=> Passed(c, d)
  BY <1>1 DEF ReachInv
<1>7. point.coords = c /\ point.params = params /\ point.index = executionIndex
  OBVIOUS
<1> HIDE DEF P, point, c
<1>8. /\ n \in Nat /\ DOMAIN recorded = 1..n /\ DOMAIN recorded' = 1..(n + 1)
      /\ Len(recorded') = n + 1 /\ recorded'[n + 1] = point
      /\ \A k \in 1..n : recorded'[k] = recorded[k]
  BY <1>1, <1>5
<1> HIDE DEF n
<1>9. \A k \in 1..(n + 1) : k \in 1..n \/ k = n + 1
  BY <1>8
<1>10. \A d \in Points(nodes) : Recorded(d) <=> Before(d, c)
  BY <1>3, <1>6, PassedPoint
<1>11. ASSUME NEW k \in 1..(n + 1)
       PROVE  /\ recorded'[k].coords \in Points(nodes')
              /\ recorded'[k].index = k - 1
              /\ recorded'[k].params = ParamsAt(nodes', recorded'[k].coords)
  <2>1. CASE k \in 1..n
    BY <1>1, <1>8, <2>1 DEF OrderInv
  <2>2. CASE k = n + 1
    BY <1>1, <1>3, <1>4, <1>7, <1>8, <2>2
  <2> QED BY <1>9, <2>1, <2>2
<1>12. ASSUME NEW k \in 1..(n + 1), NEW m \in 1..(n + 1), k < m
       PROVE  Before(recorded'[k].coords, recorded'[m].coords)
  <2>1. k \in 1..n
    BY <1>8, <1>12
  <2>2. CASE m \in 1..n
    BY <1>8, <1>12, <2>1, <2>2 DEF OrderInv
  <2>3. CASE m = n + 1
    <3>1. recorded[k].coords \in Points(nodes) /\ Recorded(recorded[k].coords)
      BY <1>8, <2>1 DEF OrderInv, Recorded
    <3> QED BY <1>7, <1>8, <1>10, <2>1, <2>3, <3>1
  <2> QED BY <1>9, <2>2, <2>3
<1>13. ASSUME NEW m \in 1..(n + 1), NEW d \in Points(nodes), Before(d, recorded'[m].coords)
       PROVE  \E k \in 1..(n + 1) : k < m /\ recorded'[k].coords = d
  <2>1. CASE m \in 1..n
    <3>1. PICK k \in 1..n : k < m /\ recorded[k].coords = d
      BY <1>8, <1>13, <2>1 DEF OrderInv
    <3>2. k \in 1..(n + 1)
      BY <1>8
    <3> QED BY <1>8, <3>1, <3>2
  <2>2. CASE m = n + 1
    <3>1. Recorded(d)
      BY <1>7, <1>8, <1>10, <1>13, <2>2
    <3>2. PICK k \in 1..n : recorded[k].coords = d
      BY <1>8, <3>1 DEF Recorded
    <3>3. k \in 1..(n + 1) /\ k < m
      BY <1>8, <2>2
    <3> QED BY <1>8, <3>2, <3>3
  <2> QED BY <1>9, <2>1, <2>2
<1>14. OrderInv'
  <2>1. \A k \in DOMAIN recorded' :
           /\ recorded'[k].coords \in Points(nodes')
           /\ recorded'[k].index = k - 1
           /\ recorded'[k].params = ParamsAt(nodes', recorded'[k].coords)
    BY <1>8, <1>11
  <2>2. \A k, m \in DOMAIN recorded' :
           k < m => Before(recorded'[k].coords, recorded'[m].coords)
    BY <1>8, <1>12
  <2>3. \A m \in DOMAIN recorded' : \A d \in Points(nodes') :
           Before(d, recorded'[m].coords) =>
               \E k \in DOMAIN recorded' : k < m /\ recorded'[k].coords = d
    BY <1>1, <1>8, <1>13
  <2> QED BY <2>1, <2>2, <2>3 DEF OrderInv
<1>15. ASSUME NEW d PROVE Recorded(d)' <=> Recorded(d) \/ d = c
  <2>1. ASSUME Recorded(d)' PROVE Recorded(d) \/ d = c
    <3>1. PICK k \in 1..(n + 1) : recorded'[k].coords = d
      BY <1>8, <2>1 DEF Recorded
    <3> QED BY <1>7, <1>8, <1>9, <3>1 DEF Recorded
  <2>2. ASSUME Recorded(d) PROVE Recorded(d)'
    <3>1. PICK k \in 1..n : recorded[k].coords = d
      BY <1>8, <2>2 DEF Recorded
    <3>2. k \in 1..(n + 1)
      BY <1>8
    <3> QED BY <1>8, <3>1, <3>2 DEF Recorded
  <2>3. ASSUME d = c PROVE Recorded(d)'
    <3>1. n + 1 \in 1..(n + 1)
      BY <1>8
    <3> QED BY <1>7, <1>8, <2>3, <3>1 DEF Recorded
  <2> QED BY <2>1, <2>2, <2>3
<1>16. executionIndex' = Len(recorded')
  BY <1>1, <1>4, <1>8
<1>17. ReachInv'
  <2>1. Coords(frames') = c
    BY <1>1 DEF c
  <2>2. \A d \in Points(nodes') :
           Recorded(d)' <=> Passed(Coords(frames'), d) \/ d = Coords(frames')
    BY <1>1, <1>6, <1>15, <2>1
  <2> QED BY <1>1, <1>16, <2>2 DEF ReachInv, ScanLabels, PointLabels
<1> QED BY <1>14, <1>17

TraversalInv == OrderInv /\ ReachInv /\ runError # "ok"

\* Nothing is recorded.
LEMMA InitTraversal ==
    ASSUME Init
    PROVE  TraversalInv
  BY DEF Init, TraversalInv, OrderInv, ReachInv, Recorded, ScanLabels, PointLabels, None

\* One case for each action.
LEMMA StepTraversal ==
    ASSUME TraversalInv, RowsInv, ScanInv, [Next]_vars
    PROVE  TraversalInv'
<1> USE DEF TraversalInv, None
<1>0. runError' # "ok"
  BY DEF Next, Host, Worker, User, BeginRun, StartDevices, Configure, Loop, FinalCheckpoint,
         Attempt, CompileNow, AwaitCompilation, PrepareDevices, RunSequence, ReadDevices,
         AnalyzePoint, Shutdown, Conclude, CloseRun, EndRun, StartCompilation,
         EndCompilation, RequestPause, Resume, RequestStop, EndLoop, StopTraversal, Sleep,
         Iterate, RaiseInTraversal, Raise, workerUnchanged, controlUnchanged, errorVars, vars
<1>1. CASE Configure
  BY <1>0, <1>1, ConfigureReach DEF ScanInv
<1>2. CASE Attempt
  BY <1>0, <1>2, AttemptReach
<1>3. CASE ~Configure /\ ~Attempt
  <2>1. UNCHANGED <<recorded, nodes>>
    BY <1>3 DEF Next, Host, Worker, User, BeginRun, StartDevices, Loop, FinalCheckpoint,
         CompileNow, AwaitCompilation, PrepareDevices, RunSequence, ReadDevices,
         AnalyzePoint, Shutdown, Conclude, CloseRun, EndRun, StartCompilation,
         EndCompilation, RequestPause, Resume, RequestStop, EndLoop, StopTraversal, Sleep,
         Iterate, RaiseInTraversal, pointUnchanged, workerUnchanged, controlUnchanged,
         scanVars, vars
  <2>2. OrderInv'
    BY <2>1, SameOrder
  <2>3. ASSUME NEW error \in {"analyze", "compile", "devices", "runtime"},
               RaiseInTraversal(error)
        PROVE  ReachInv'
    BY <2>1, <2>3, EndedReach DEF RaiseInTraversal, Raise
  <2>4. CASE StopTraversal
    BY <1>0, <2>1, <2>2, <2>4, EndedReach DEF StopTraversal
  <2>5. CASE /\ Loop \/ FinalCheckpoint
             /\ ~StopTraversal /\ ~RaiseInTraversal("analyze")
    <3>1. pc \in {"loop", "final"}
      BY <2>5 DEF Loop, FinalCheckpoint
    <3>2. CASE Sleep
      BY <1>0, <2>1, <2>2, <3>2, SameReach DEF Sleep, scanVars, errorVars
    <3>3. CASE Loop /\ EndLoop
      BY <1>0, <2>1, <2>2, <2>5, <3>3, EndLoopReach DEF Loop
    <3>4. CASE Loop /\ Iterate
      BY <1>0, <2>1, <2>2, <3>4, IterateReach DEF Loop
    <3>5. CASE FinalCheckpoint /\ pc' = "attempt" /\ UNCHANGED scanVars
      BY <1>0, <2>1, <2>2, <3>1, <3>5, SameReach DEF scanVars
    <3> QED BY <2>5, <3>2, <3>3, <3>4, <3>5 DEF Loop, FinalCheckpoint
  <2>6. CASE /\ CompileNow \/ AwaitCompilation \/ PrepareDevices \/ RunSequence \/ ReadDevices
             /\ \A error \in {"compile", "devices", "runtime"} : ~RaiseInTraversal(error)
    <3>1. pc \in PointLabels /\ pc' \in PointLabels /\ UNCHANGED scanVars
      BY <2>6 DEF CompileNow, AwaitCompilation, PrepareDevices, RunSequence, ReadDevices,
                  PointLabels
    <3> QED BY <1>0, <2>1, <2>2, <3>1, SameReach DEF scanVars
  <2>7. CASE AnalyzePoint /\ ~RaiseInTraversal("analyze")
    BY <1>0, <2>2, <2>7, AnalyzeReach
  <2>8. CASE BeginRun \/ StartDevices
    <3>1. \/ pc' = "close" /\ runError' # None
          \/ pc' \in {"start_devices", "configure"}
      BY <2>8 DEF BeginRun, StartDevices, Raise
    <3> QED BY <1>0, <2>2, <3>1 DEF ReachInv, ScanLabels, PointLabels
  <2>9. CASE Shutdown \/ Conclude \/ CloseRun
    <3>1. /\ pc \in {"shutdown", "conclude", "close"}
          /\ pc' \in {"conclude", "close", "persist"}
          /\ runError' = None => runError = None
          /\ UNCHANGED stopped
      BY <2>9 DEF Shutdown, Conclude, CloseRun, Raise, RowsInv, scanVars, errorVars
    <3>2. runError' = None /\ ~stopped' => \A d \in Points(nodes) : Recorded(d)
      BY <3>1 DEF ReachInv
    <3> QED BY <1>0, <2>1, <2>2, <3>1, <3>2, EndedReach
  <2>10. CASE EndRun
    <3>1. /\ pc = "persist" /\ pc' = "idle" /\ UNCHANGED <<stopped, runError>>
          /\ outcome' = "ok" => runError = None
      BY <2>10 DEF EndRun, scanVars
    <3>2. \A d : Recorded(d)' <=> Recorded(d)
      BY <2>1 DEF Recorded
    <3> QED BY <1>0, <2>1, <2>2, <3>1, <3>2 DEF ReachInv, ScanLabels, PointLabels
  <2>11. CASE Worker \/ RequestPause \/ Resume \/ RequestStop \/ UNCHANGED vars
    <3>1. UNCHANGED <<pc, scanVars, recorded, errorVars>>
      BY <2>11 DEF Worker, StartCompilation, EndCompilation, workerUnchanged, RequestPause,
                   Resume, RequestStop, controlUnchanged, vars
    <3> QED BY <1>0, <2>2, <3>1, SameReach DEF scanVars, errorVars
  <2> QED BY <1>0, <1>3, <2>2, <2>3, <2>4, <2>5, <2>6, <2>7, <2>8, <2>9, <2>10, <2>11
          DEF Next, Host, User
<1> QED BY <1>1, <1>2, <1>3

\* A set that a sequence without repetitions lists has its length.
LEMMA ListedSet ==
    ASSUME NEW n \in Nat, NEW f, NEW S, DOMAIN f = 1..n, f = [i \in 1..n |-> f[i]],
           \A i \in 1..n : f[i] \in S,
           \A x \in S : \E i \in 1..n : f[i] = x,
           \A i, j \in 1..n : i < j => f[i] # f[j]
    PROVE  Cardinality(S) = n
<1>1. IsFiniteSet(1..n) /\ Cardinality(1..n) = n
  BY FS_Interval
<1>2. f \in Bijection(1..n, S)
  <2>1. f \in [1..n -> S]
    OBVIOUS
  <2>2. \A i, j \in 1..n : f[i] = f[j] => i = j
    OBVIOUS
  <2> QED BY <2>1, <2>2 DEF Bijection, Injection, Surjection, IsInjective
<1>3. ExistsBijection(1..n, S)
  BY <1>2 DEF ExistsBijection
<1> QED BY <1>1, <1>3, FS_Bijection

\* A recorded point is not recorded again.
LEMMA RecordedOnce ==
    ASSUME ScanInv, OrderInv
    PROVE  /\ Len(recorded) \in Nat /\ DOMAIN recorded = 1..Len(recorded)
           /\ \A k, m \in 1..Len(recorded) : k < m => recorded[k].coords # recorded[m].coords
<1> DEFINE P == [coords : Seq(Nat), params : AllParams, index : Nat]
<1>1. recorded \in Seq(P)
  BY DEF ScanInv, ScanTypes
<1> HIDE DEF P
<1>2. /\ Len(recorded) \in Nat /\ DOMAIN recorded = 1..Len(recorded)
      /\ \A k \in 1..Len(recorded) : recorded[k] \in P
  BY <1>1
<1>3. ASSUME NEW k \in 1..Len(recorded)
      PROVE  \A i \in DOMAIN recorded[k].coords : recorded[k].coords[i] \in Nat
  <2>1. recorded[k].coords \in Seq(Nat)
    BY <1>2 DEF P
  <2> QED BY <2>1
<1>4. ASSUME NEW k \in 1..Len(recorded), NEW m \in 1..Len(recorded), k < m
      PROVE  recorded[k].coords # recorded[m].coords
  <2>1. Before(recorded[k].coords, recorded[m].coords)
    BY <1>2, <1>4 DEF OrderInv
  <2>2. ~Before(recorded[k].coords, recorded[k].coords)
    BY <1>3, NotBefore
  <2> QED BY <2>1, <2>2
<1> QED BY <1>2, <1>4

\* In every layout of repeat and scan nodes ParaDict lists the attempted points
\* in the order of the nested loops, none skipped, none repeated, each with its
\* own index and parameters.
THEOREM TraversedInOrder == Spec => []TraversalInOrder
<1>1. ScanInv /\ TraversalInv => TraversalInOrder
  <2> SUFFICES ASSUME ScanInv, TraversalInv, NEW k \in DOMAIN recorded
               PROVE  PointRank(nodes, recorded[k].coords) = k - 1
    BY DEF TraversalInOrder, TraversalInv, OrderInv
  <2>1. /\ Len(recorded) \in Nat /\ DOMAIN recorded = 1..Len(recorded)
        /\ \A i, j \in 1..Len(recorded) : i < j => recorded[i].coords # recorded[j].coords
    BY RecordedOnce DEF TraversalInv
  <2> DEFINE n == k - 1
             c == recorded[k].coords
             f == [i \in 1..n |-> recorded[i].coords]
             S == {d \in Points(nodes) : Before(d, c)}
  <2>2. n \in Nat /\ \A i \in 1..n : i \in 1..Len(recorded) /\ i < k
    BY <2>1
  <2>3. \A i \in 1..Len(recorded) : i < k => i \in 1..n
    BY <2>1
  <2> HIDE DEF n
  <2>4. \A i \in 1..n : f[i] \in S
    BY <2>1, <2>2 DEF TraversalInv, OrderInv
  <2>5. ASSUME NEW d \in S PROVE \E i \in 1..n : f[i] = d
    <3>1. PICK i \in 1..Len(recorded) : i < k /\ recorded[i].coords = d
      BY <2>1 DEF TraversalInv, OrderInv
    <3> QED BY <2>3, <3>1
  <2>6. \A i, j \in 1..n : i < j => f[i] # f[j]
    BY <2>1, <2>2
  <2>7. DOMAIN f = 1..n /\ f = [i \in 1..n |-> f[i]]
    OBVIOUS
  <2> HIDE DEF f, S
  <2>8. Cardinality(S) = n
    BY <2>2, <2>4, <2>5, <2>6, <2>7, ListedSet
  <2> QED BY <2>8 DEF PointRank, S, n
<1>2. Init => RowsInv
  BY DEF Init, RowsInv, Attempts, ScanLabels, PointLabels
<1> QED BY InitScan, InitThread, InitTraversal, StepScan, StepThread, StepRows,
           StepTraversal, <1>1, <1>2, PTL DEF Spec

\* In every layout a run that raises nothing and was not stopped has attempted
\* every point of its scan, each once.
THEOREM OkIsComplete == Spec => []OkMeansComplete
<1>1. ScanInv /\ TraversalInv => OkMeansComplete
  <2> SUFFICES ASSUME ScanInv, TraversalInv, outcome = "ok", pc = "idle", ~stopped
               PROVE  Len(recorded) = Cardinality(Points(nodes))
    BY DEF OkMeansComplete
  <2> DEFINE n == Len(recorded)
             f == [i \in 1..n |-> recorded[i].coords]
             S == Points(nodes)
  <2>1. /\ n \in Nat /\ DOMAIN recorded = 1..n
        /\ \A i, j \in 1..n : i < j => recorded[i].coords # recorded[j].coords
    BY RecordedOnce DEF TraversalInv
  <2> HIDE DEF n
  <2>2. \A i \in 1..n : f[i] \in S
    BY <2>1 DEF TraversalInv, OrderInv
  <2>3. \A d \in S : \E i \in 1..n : f[i] = d
    BY <2>1 DEF TraversalInv, ReachInv, Recorded
  <2>4. \A i, j \in 1..n : i < j => f[i] # f[j]
    BY <2>1
  <2>5. DOMAIN f = 1..n /\ f = [i \in 1..n |-> f[i]]
    OBVIOUS
  <2> HIDE DEF f, S
  <2>6. Cardinality(S) = n
    BY <2>1, <2>2, <2>3, <2>4, <2>5, ListedSet
  <2> QED BY <2>6 DEF S, n
<1>2. Init => RowsInv
  BY DEF Init, RowsInv, Attempts, ScanLabels, PointLabels
<1> QED BY InitScan, InitThread, InitTraversal, StepScan, StepThread, StepRows,
           StepTraversal, <1>1, <1>2, PTL DEF Spec
=============================================================================
