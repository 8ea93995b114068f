------------------------ MODULE MorphismArenaProofs ------------------------
(***************************************************************************)
(* The Morphism builder for any number of nodes, templates and children:   *)
(* its DAG is acyclic, every id it hands out keeps denoting what was asked *)
(* for, and the arena finish returns denotes the same and nothing more.    *)
(***************************************************************************)
EXTENDS MorphismArena, FiniteSetTheorems, TLAPS

IsSequence(s) == s \in Seq(Range(s))

\* The slice of a node lies in the edges pushed so far.
SlicesInside ==
    \A id \in 1..Len(nodes) :
        /\ nodes[id].edgeStart \in Nat /\ nodes[id].edgeCount \in Nat
        /\ nodes[id].edgeStart + nodes[id].edgeCount <= Len(edges)

\* Templates are roots of nodes, and an instance names a published template.
TemplatesPublished ==
    /\ \A t \in 1..Len(templates) : templates[t] \in 1..Len(nodes)
    /\ \A id \in 1..Len(nodes) : nodes[id].kind = "Instantiate" =>
         /\ nodes[id].payload \in 1..Len(payloads)
         /\ payloads[nodes[id].payload].template \in 1..Len(templates)

\* A composition that is being flattened has only ids of the builder.
WorkFields == {"kind", "asked", "between", "next", "children", "boundaries"}
WorkInv ==
    work # NoWork =>
      /\ DOMAIN work = WorkFields
      /\ work.kind \in {"Serial", "Parallel"}
      /\ work.next \in Nat \ {0}
      /\ work.asked \in Seq(Nat) /\ \A k \in 1..Len(work.asked) : work.asked[k] \in 1..Len(nodes)
      /\ work.children \in Seq(Nat) /\ \A k \in 1..Len(work.children) : work.children[k] <= Len(nodes)

ArenaInv ==
    /\ IsSequence(nodes) /\ IsSequence(payloads) /\ edges \in Seq(Nat) /\ templates \in Seq(Nat)
    /\ SlicesInside
    /\ TemplatesPublished
    /\ WorkInv
    /\ ChildrenPrecede

\* Appending, and where an offset in a slice is.
LEMMA AppendOne ==
    ASSUME NEW S, NEW s \in Seq(S), NEW e \in S
    PROVE  /\ Append(s, e) \in Seq(S)
           /\ Len(Append(s, e)) = Len(s) + 1
           /\ Append(s, e)[Len(s) + 1] = e
           /\ \A i \in 1..Len(s) : Append(s, e)[i] = s[i]
OBVIOUS

\* A sequence as a function.
LEMMA SequenceOf ==
    ASSUME NEW S, NEW s \in Seq(S)
    PROVE  s \in [1..Len(s) -> S] /\ Len(s) \in Nat /\ DOMAIN s = 1..Len(s)
OBVIOUS

\* A function on 1..n is a sequence.
LEMMA FunctionIsSequence ==
    ASSUME NEW S, NEW n \in Nat, NEW f \in [1..n -> S]
    PROVE  f \in Seq(S) /\ Len(f) = n
OBVIOUS

\* An offset into a slice that lies inside lies inside.
LEMMA OffsetInside ==
    ASSUME NEW start \in Nat, NEW count \in Nat, NEW m \in Nat, start + count <= m, NEW k \in 1..count
    PROVE  start + k \in 1..m
OBVIOUS

\* Appending to a sequence keeps what it holds.
LEMMA AppendFacts ==
    ASSUME NEW s, IsSequence(s), NEW e
    PROVE  /\ IsSequence(Append(s, e))
           /\ Len(Append(s, e)) = Len(s) + 1
           /\ Append(s, e)[Len(s) + 1] = e
           /\ \A i \in 1..Len(s) : Append(s, e)[i] = s[i]
<1> DEFINE t == Append(s, e)
<1>1. /\ t \in Seq(Range(s) \cup {e}) /\ Len(t) = Len(s) + 1 /\ t[Len(s) + 1] = e
      /\ \A i \in 1..Len(s) : t[i] = s[i]
  <2> DEFINE S == Range(s) \cup {e}
  <2>1. s \in [1..Len(s) -> Range(s)] /\ Len(s) \in Nat
    BY SequenceOf DEF IsSequence
  <2>2. s \in [1..Len(s) -> S]
    BY <2>1
  <2>3. s \in Seq(S)
    BY <2>1, <2>2, FunctionIsSequence
  <2>4. e \in S
    OBVIOUS
  <2> HIDE DEF S
  <2>5. t \in Seq(S) /\ Len(t) = Len(s) + 1 /\ t[Len(s) + 1] = e /\ \A i \in 1..Len(s) : t[i] = s[i]
    BY <2>3, <2>4, AppendOne
  <2> QED BY <2>5 DEF S
<1>2. t \in Seq(Range(t))
  <2> HIDE DEF t
  <2>1. t \in [1..Len(t) -> Range(s) \cup {e}] /\ Len(t) \in Nat /\ DOMAIN t = 1..Len(t)
    BY <1>1, SequenceOf
  <2>2. \A i \in 1..Len(t) : t[i] \in Range(t)
    BY <2>1 DEF Range
  <2>3. t \in [1..Len(t) -> Range(t)]
    BY <2>1, <2>2
  <2> QED BY <2>1, <2>3, FunctionIsSequence
<1> QED BY <1>1, <1>2 DEF IsSequence

\* Every method that builds a node appends it, with children that are already
\* there, and leaves the nodes, edges, payloads and templates before it alone.
LEMMA PushKeeps ==
    ASSUME ArenaInv,
           NEW kind, NEW edgeCount \in Nat, NEW payload,
           PushNode(kind, edgeCount, payload),
           edges' \in Seq(Nat), Len(edges') = Len(edges) + edgeCount,
           \A i \in 1..Len(edges) : edges'[i] = edges[i],
           \A k \in 1..edgeCount : edges'[Len(edges) + k] <= Len(nodes),
           IsSequence(payloads'), Len(payloads') >= Len(payloads),
           \A i \in 1..Len(payloads) : payloads'[i] = payloads[i],
           kind = "Instantiate" =>
             payload \in 1..Len(payloads') /\ payloads'[payload].template \in 1..Len(templates),
           templates' = templates, work' = NoWork
    PROVE  ArenaInv'
<1> DEFINE new == [kind |-> kind, edgeStart |-> Len(edges), edgeCount |-> edgeCount,
                   boundaryStart |-> Len(boundaries), payload |-> payload,
                   provenance |-> Len(nodes) + 1]
           n == Len(nodes) + 1
<1>1. /\ IsSequence(nodes') /\ Len(nodes') = n /\ nodes'[n] = new
      /\ \A i \in 1..Len(nodes) : nodes'[i] = nodes[i]
  <2>1. IsSequence(nodes) BY DEF ArenaInv
  <2>2. nodes' = Append(nodes, new) BY DEF PushNode
  <2> HIDE DEF new
  <2> QED BY <2>1, <2>2, AppendFacts
<1>2. Len(nodes) \in Nat /\ Len(edges) \in Nat /\ Len(payloads) \in Nat /\ Len(payloads') \in Nat
      /\ Len(templates) \in Nat
  BY DEF ArenaInv, IsSequence
<1>3. new.edgeStart = Len(edges) /\ new.edgeCount = edgeCount /\ new.kind = kind
      /\ new.payload = payload
  OBVIOUS
<1>4. \A i \in 1..n : i \in 1..Len(nodes) \/ i = n
  BY <1>2
<1> HIDE DEF new
<1>5. SlicesInside'
  <2> SUFFICES ASSUME NEW id \in 1..n
               PROVE  /\ nodes'[id].edgeStart \in Nat /\ nodes'[id].edgeCount \in Nat
                      /\ nodes'[id].edgeStart + nodes'[id].edgeCount <= Len(edges')
    BY <1>1 DEF SlicesInside
  <2>1. CASE id = n BY <2>1, <1>1, <1>2, <1>3
  <2>2. CASE id \in 1..Len(nodes)
    <3>1. /\ nodes[id].edgeStart \in Nat /\ nodes[id].edgeCount \in Nat
          /\ nodes[id].edgeStart + nodes[id].edgeCount <= Len(edges)
      BY <2>2 DEF ArenaInv, SlicesInside
    <3>2. nodes'[id] = nodes[id]
      BY <2>2, <1>1
    <3> QED BY <3>1, <3>2, <1>2
  <2> QED BY <1>4, <2>1, <2>2
<1>6. TemplatesPublished'
  <2>1. \A t \in 1..Len(templates') : templates'[t] \in 1..Len(nodes')
    BY <1>1, <1>2 DEF ArenaInv, TemplatesPublished
  <2>2. ASSUME NEW id \in 1..n, nodes'[id].kind = "Instantiate"
        PROVE  /\ nodes'[id].payload \in 1..Len(payloads')
               /\ payloads'[nodes'[id].payload].template \in 1..Len(templates')
    <3>1. CASE id = n BY <3>1, <2>2, <1>1, <1>3
    <3>2. CASE id \in 1..Len(nodes)
      <4>1. nodes'[id] = nodes[id]
        BY <3>2, <1>1
      <4>2. /\ nodes[id].payload \in 1..Len(payloads)
            /\ payloads[nodes[id].payload].template \in 1..Len(templates)
        BY <4>1, <3>2, <2>2 DEF ArenaInv, TemplatesPublished
      <4>3. payloads'[nodes[id].payload] = payloads[nodes[id].payload]
        BY <4>2
      <4>4. nodes[id].payload \in 1..Len(payloads')
        BY <4>2, <1>2
      <4> QED BY <4>1, <4>2, <4>3, <4>4
    <3> QED BY <1>4, <3>1, <3>2
  <2> QED BY <2>1, <2>2, <1>1 DEF TemplatesPublished
<1>7. WorkInv'
  BY DEF WorkInv, NoWork
<1>8. Precede(nodes', edges')
  <2> SUFFICES ASSUME NEW id \in 1..n, NEW k \in 1..nodes'[id].edgeCount
               PROVE  edges'[nodes'[id].edgeStart + k] < id
    BY <1>1 DEF Precede
  <2>1. CASE id = n
    <3>1. edges'[Len(edges) + k] <= Len(nodes) BY <2>1, <1>1, <1>3
    <3>2. Len(edges) + k \in 1..Len(edges') BY <2>1, <1>1, <1>2, <1>3
    <3>3. edges'[Len(edges) + k] \in Nat BY <3>2
    <3> QED BY <2>1, <3>1, <3>3, <1>1, <1>2, <1>3
  <2>2. CASE id \in 1..Len(nodes)
    <3>1. /\ nodes[id].edgeStart \in Nat /\ nodes[id].edgeCount \in Nat
          /\ nodes[id].edgeStart + nodes[id].edgeCount <= Len(edges)
      BY <2>2 DEF ArenaInv, SlicesInside
    <3>2. k \in 1..nodes[id].edgeCount BY <2>2, <1>1
    <3>3. nodes[id].edgeStart + k \in 1..Len(edges) BY <3>1, <3>2, <1>2, OffsetInside
    <3>4. edges[nodes[id].edgeStart + k] < id
      BY <2>2, <3>2 DEF ArenaInv, ChildrenPrecede, Precede
    <3> QED BY <2>2, <3>3, <3>4, <1>1
  <2> QED BY <1>4, <2>1, <2>2
<1>9. TemplatesPrecede(nodes', payloads', templates')
  <2> SUFFICES ASSUME NEW id \in 1..n, nodes'[id].kind = "Instantiate"
               PROVE  templates[payloads'[nodes'[id].payload].template] < id
    BY <1>1 DEF TemplatesPrecede
  <2>1. CASE id = n
    BY <2>1, <1>1, <1>2, <1>3 DEF ArenaInv, TemplatesPublished
  <2>2. CASE id \in 1..Len(nodes)
    <3>1. nodes[id].payload \in 1..Len(payloads)
      BY <2>2, <1>1 DEF ArenaInv, TemplatesPublished
    <3> QED BY <2>2, <3>1, <1>1 DEF ArenaInv, ChildrenPrecede, TemplatesPrecede
  <2> QED BY <1>4, <2>1, <2>2
<1> QED BY <1>1, <1>5, <1>6, <1>7, <1>8, <1>9 DEF ArenaInv, ChildrenPrecede

\* Concatenation, element by element.
LEMMA ConcatFacts ==
    ASSUME NEW S, NEW s \in Seq(S), NEW t \in Seq(S)
    PROVE  /\ s \o t \in Seq(S)
           /\ Len(s \o t) = Len(s) + Len(t)
           /\ \A i \in 1..Len(s) : (s \o t)[i] = s[i]
           /\ \A k \in 1..Len(t) : (s \o t)[Len(s) + k] = t[k]
OBVIOUS

\* A leaf has no children; an instance is of a template that was published.
LEMMA LeafKeeps ==
    ASSUME ArenaInv, Building, NEW payload, NEW tree, PushLeaf(payload, tree),
           templates' = templates,
           payload.kind = "Instantiate" => payload.template \in 1..Len(templates)
    PROVE  ArenaInv'
<1>1. /\ payloads' = Append(payloads, payload) /\ PushNode(payload.kind, 0, Len(payloads) + 1)
      /\ edges' = edges /\ work' = NoWork
  BY DEF PushLeaf, Building
<1>2. /\ IsSequence(payloads') /\ Len(payloads') = Len(payloads) + 1
      /\ payloads'[Len(payloads) + 1] = payload
      /\ \A i \in 1..Len(payloads) : payloads'[i] = payloads[i]
  BY <1>1, AppendFacts DEF ArenaInv
<1>3. Len(payloads) \in Nat /\ edges \in Seq(Nat) /\ Len(edges) \in Nat
  BY DEF ArenaInv, IsSequence
<1>4. Len(edges') = Len(edges) + 0 /\ Len(payloads') >= Len(payloads)
      /\ Len(payloads) + 1 \in 1..Len(payloads')
  BY <1>1, <1>2, <1>3
<1>5. edges' \in Seq(Nat) /\ \A i \in 1..Len(edges) : edges'[i] = edges[i]
  BY <1>1, <1>3
<1>6. \A k \in 1..0 : edges'[Len(edges) + k] <= Len(nodes)
  OBVIOUS
<1>7. payload.kind = "Instantiate" =>
        /\ Len(payloads) + 1 \in 1..Len(payloads')
        /\ payloads'[Len(payloads) + 1].template \in 1..Len(templates)
  BY <1>2, <1>4
<1>8. 0 \in Nat
  OBVIOUS
<1> QED BY ONLY ArenaInv, templates' = templates, <1>1, <1>2, <1>4, <1>5, <1>6, <1>7, <1>8, PushKeeps

\* The body of a loop is a node that exists.
LEMMA LoopKeeps ==
    ASSUME ArenaInv, NEW body \in 1..Len(nodes), NEW count, LoopRegion(body, count)
    PROVE  ArenaInv'
<1>1. /\ payloads' = Append(payloads, [kind |-> "Loop", count |-> count])
      /\ PushNode("Loop", 1, Len(payloads) + 1)
      /\ edges' = Append(edges, body) /\ work' = NoWork /\ templates' = templates
  BY DEF LoopRegion, Building, tables
<1>2. Len(nodes) \in Nat /\ body \in Nat /\ body <= Len(nodes) /\ edges \in Seq(Nat)
  BY DEF ArenaInv, IsSequence
<1>3. /\ edges' \in Seq(Nat) /\ Len(edges') = Len(edges) + 1 /\ edges'[Len(edges) + 1] = body
      /\ \A i \in 1..Len(edges) : edges'[i] = edges[i]
  BY <1>1, <1>2, AppendOne
<1>4. /\ IsSequence(payloads') /\ Len(payloads') = Len(payloads) + 1
      /\ \A i \in 1..Len(payloads) : payloads'[i] = payloads[i]
  BY <1>1, AppendFacts DEF ArenaInv
<1>5. Len(payloads') >= Len(payloads)
  <2>1. Len(payloads) \in Nat BY DEF ArenaInv, IsSequence
  <2> QED BY <2>1, <1>4
<1>6. \A k \in 1..1 : edges'[Len(edges) + k] <= Len(nodes)
  BY <1>2, <1>3
<1> QED BY <1>1, <1>3, <1>4, <1>5, <1>6, PushKeeps

\* A composition is pushed with the children that were collected for it.
LEMMA CompositionKeeps ==
    ASSUME ArenaInv, PushComposition
    PROVE  ArenaInv'
<1>1. /\ work.kind \in {"Serial", "Parallel"}
      /\ work.children \in Seq(Nat) /\ \A k \in 1..Len(work.children) : work.children[k] <= Len(nodes)
  BY DEF ArenaInv, WorkInv, PushComposition
<1>2. /\ edges' = edges \o work.children
      /\ PushNode(work.kind, Len(work.children), 0)
      /\ payloads' = payloads /\ work' = NoWork /\ templates' = templates
  BY DEF PushComposition, tables
<1>3. edges \in Seq(Nat) /\ IsSequence(payloads) /\ Len(payloads) \in Nat /\ Len(work.children) \in Nat
  BY <1>1 DEF ArenaInv, IsSequence
<1>4. /\ edges' \in Seq(Nat) /\ Len(edges') = Len(edges) + Len(work.children)
      /\ \A i \in 1..Len(edges) : edges'[i] = edges[i]
      /\ \A k \in 1..Len(work.children) : edges'[Len(edges) + k] = work.children[k]
  BY <1>1, <1>2, <1>3, ConcatFacts
<1>5. \A k \in 1..Len(work.children) : edges'[Len(edges) + k] <= Len(nodes)
  BY <1>1, <1>4
<1>6. IsSequence(payloads') /\ Len(payloads') >= Len(payloads) /\ work.kind # "Instantiate"
  BY <1>1, <1>2, <1>3
<1> QED BY <1>2, <1>3, <1>4, <1>5, <1>6, PushKeeps

\* Where nothing is appended, only the work list has to be kept.
LEMMA NothingPushed ==
    ASSUME ArenaInv, WorkInv', UNCHANGED <<nodes, edges, payloads, templates>>
    PROVE  ArenaInv'
BY DEF ArenaInv, SlicesInside, TemplatesPublished, ChildrenPrecede, IsSequence

\* Flattening replaces a child by its own children, which precede it.
LEMMA FlattenKeeps ==
    ASSUME ArenaInv, FlattenChild
    PROVE  ArenaInv'
<1> DEFINE child == work.asked[work.next]
           same == nodes[child].kind = work.kind
           below == Children(Builder, child)
           more == IF same THEN below ELSE <<child>>
           joint == IF work.kind = "Serial" /\ work.next > 1
                    THEN <<work.between[work.next - 1]>> ELSE <<>>
<1>1. /\ DOMAIN work = WorkFields /\ work.kind \in {"Serial", "Parallel"} /\ work.next \in Nat \ {0}
      /\ work.asked \in Seq(Nat) /\ \A k \in 1..Len(work.asked) : work.asked[k] \in 1..Len(nodes)
      /\ work.children \in Seq(Nat) /\ \A k \in 1..Len(work.children) : work.children[k] <= Len(nodes)
  BY DEF FlattenChild, ArenaInv, WorkInv
<1>2. /\ work.next <= Len(work.asked)
      /\ work' = [work EXCEPT !.next = @ + 1, !.children = @ \o more,
                              !.boundaries = @ \o joint \o IF same THEN Boundaries(Builder, child)
                                                        ELSE <<>>]
      /\ UNCHANGED <<nodes, edges, payloads, templates>>
  BY DEF FlattenChild, tables
<1>3. child \in 1..Len(nodes) /\ Len(nodes) \in Nat
  BY <1>1, <1>2 DEF ArenaInv, IsSequence
<1>4. below \in Seq(Nat) /\ \A k \in 1..Len(below) : below[k] <= Len(nodes)
  <2> DEFINE start == nodes[child].edgeStart
             count == nodes[child].edgeCount
  <2>1. start \in Nat /\ count \in Nat /\ start + count <= Len(edges)
    BY <1>3 DEF ArenaInv, SlicesInside
  <2>2. \A k \in 1..count : edges[start + k] < child
    BY <1>3 DEF ArenaInv, ChildrenPrecede, Precede
  <2>3. below = SubSeq(edges, start + 1, start + count)
    BY DEF Children, Slice, Builder
  <2>4. edges \in Seq(Nat) /\ Len(edges) \in Nat
    BY DEF ArenaInv
  <2> HIDE DEF start, count, below, child
  <2>5. below \in Seq(Nat) /\ Len(below) = count /\ \A k \in 1..count : below[k] = edges[start + k]
    BY <2>1, <2>3, <2>4
  <2>6. ASSUME NEW k \in 1..count PROVE edges[start + k] <= Len(nodes)
    <3>1. start + k \in 1..Len(edges) BY <2>1, <2>4, OffsetInside
    <3>2. edges[start + k] \in Nat BY <3>1, <2>4
    <3> QED BY <3>2, <2>2, <1>3
  <2> QED BY <2>5, <2>6
<1>5. more \in Seq(Nat) /\ \A k \in 1..Len(more) : more[k] <= Len(nodes)
  <2> HIDE DEF child, below, same
  <2>1. CASE same BY <2>1, <1>4
  <2>2. CASE ~same
    <3>1. more = <<child>> /\ child \in Nat /\ child <= Len(nodes) BY <2>2, <1>3
    <3> HIDE DEF more
    <3> QED BY <3>1
  <2> QED BY <2>1, <2>2
<1> HIDE DEF child, same, below, more, joint
<1>6. /\ DOMAIN work' = WorkFields /\ work'.kind = work.kind /\ work'.asked = work.asked
      /\ work'.next = work.next + 1 /\ work'.children = work.children \o more
  BY <1>1, <1>2 DEF WorkFields
<1>7. work.children \o more \in Seq(Nat)
      /\ \A k \in 1..Len(work.children \o more) : (work.children \o more)[k] <= Len(nodes)
  <2> DEFINE old == work.children
  <2>1. /\ old \o more \in Seq(Nat) /\ Len(old \o more) = Len(old) + Len(more)
        /\ \A i \in 1..Len(old) : (old \o more)[i] = old[i]
        /\ \A k \in 1..Len(more) : (old \o more)[Len(old) + k] = more[k]
    BY <1>1, <1>5, ConcatFacts
  <2>2. Len(old) \in Nat /\ Len(more) \in Nat BY <1>1, <1>5
  <2>3. \A k \in 1..Len(old) : old[k] <= Len(nodes) BY <1>1
  <2> HIDE DEF old
  <2>4. ASSUME NEW k \in 1..Len(old \o more) PROVE (old \o more)[k] <= Len(nodes)
    <3>1. CASE k \in 1..Len(old) BY <3>1, <2>1, <2>3
    <3>2. CASE k \notin 1..Len(old)
      <4>1. k - Len(old) \in 1..Len(more) /\ Len(old) + (k - Len(old)) = k BY <3>2, <2>1, <2>2
      <4>2. (old \o more)[Len(old) + (k - Len(old))] = more[k - Len(old)] BY <4>1, <2>1
      <4> QED BY <4>1, <4>2, <1>5
    <3> QED BY <3>1, <3>2
  <2> QED BY <2>1, <2>4 DEF old
<1>8. work.next + 1 \in Nat \ {0} BY <1>1
<1>9. WorkInv'
  BY <1>1, <1>2, <1>6, <1>7, <1>8 DEF WorkInv
<1> QED BY <1>2, <1>9, NothingPushed

\* Template roots and the children of a composition are ids of the builder.
LEMMA PublishKeeps ==
    ASSUME ArenaInv, NEW body \in 1..Len(nodes), PublishTemplate(body)
    PROVE  ArenaInv'
<1>1. /\ templates' = Append(templates, body) /\ UNCHANGED <<nodes, edges, payloads, work>>
  BY DEF PublishTemplate
<1>2. Len(nodes) \in Nat /\ body \in Nat /\ templates \in Seq(Nat) /\ Len(templates) \in Nat
  BY DEF ArenaInv, IsSequence
<1>3. /\ templates' \in Seq(Nat) /\ Len(templates') = Len(templates) + 1
      /\ templates'[Len(templates) + 1] = body
      /\ \A t \in 1..Len(templates) : templates'[t] = templates[t]
  BY <1>1, <1>2, AppendOne
<1>4. SlicesInside' /\ WorkInv' /\ Precede(nodes', edges') /\ IsSequence(nodes') /\ IsSequence(payloads')
  BY <1>1 DEF ArenaInv, SlicesInside, WorkInv, ChildrenPrecede, IsSequence
<1>5. ASSUME NEW id \in 1..Len(nodes), nodes[id].kind = "Instantiate"
      PROVE  /\ nodes[id].payload \in 1..Len(payloads)
             /\ payloads[nodes[id].payload].template \in 1..Len(templates')
             /\ templates'[payloads[nodes[id].payload].template] < id
  <2> DEFINE t == payloads[nodes[id].payload].template
  <2>1. nodes[id].payload \in 1..Len(payloads) /\ t \in 1..Len(templates)
    BY <1>5 DEF ArenaInv, TemplatesPublished
  <2>2. templates[t] < id
    BY <1>5 DEF ArenaInv, ChildrenPrecede, TemplatesPrecede
  <2> HIDE DEF t
  <2>3. t \in 1..Len(templates') /\ templates'[t] < id
    BY <2>1, <2>2, <1>2, <1>3
  <2> QED BY <2>1, <2>3 DEF t
<1>6. \A t \in 1..Len(templates') : templates'[t] \in 1..Len(nodes)
  <2> SUFFICES ASSUME NEW t \in 1..Len(templates') PROVE templates'[t] \in 1..Len(nodes)
    OBVIOUS
  <2>1. t \in 1..Len(templates) \/ t = Len(templates) + 1 BY <1>2, <1>3
  <2> QED BY <2>1, <1>3 DEF ArenaInv, TemplatesPublished
<1>7. TemplatesPublished' /\ TemplatesPrecede(nodes', payloads', templates')
  BY <1>1, <1>5, <1>6 DEF TemplatesPublished, TemplatesPrecede
<1> QED BY <1>1, <1>3, <1>4, <1>7 DEF ArenaInv, ChildrenPrecede

\* A composition begins with ids of the builder.
LEMMA BeginKeeps ==
    ASSUME ArenaInv, NEW kind \in {"Serial", "Parallel"}, NEW children \in ChildLists, NEW between,
           BeginComposition(kind, children, between)
    PROVE  ArenaInv'
<1>1. /\ work' = [kind |-> kind, asked |-> children, between |-> between, next |-> 1,
                  children |-> <<>>, boundaries |-> <<>>]
      /\ UNCHANGED <<nodes, edges, payloads, templates>>
  BY DEF BeginComposition, tables
<1>2. Len(nodes) \in Nat
  BY DEF ArenaInv, IsSequence
<1>3. children \in Seq(Nat) /\ \A k \in 1..Len(children) : children[k] \in 1..Len(nodes)
  <2>1. PICK n \in 2..MaxChildren : children \in [1..n -> 1..Len(nodes)]
    BY DEF ChildLists, Ids
  <2>2. n \in Nat
    BY <2>1, ArenaAssumption DEF ArenaAssumption
  <2>3. children \in Seq(1..Len(nodes)) /\ Len(children) = n
    BY <2>1, <2>2, FunctionIsSequence
  <2>4. children \in [1..n -> Nat]
    BY <2>1
  <2> QED BY <2>1, <2>2, <2>3, <2>4, FunctionIsSequence
<1>4. /\ DOMAIN work' = WorkFields /\ work'.kind = kind /\ work'.next = 1 /\ work'.asked = children
      /\ work'.children = <<>>
  BY <1>1 DEF WorkFields
<1>5. WorkInv'
  BY <1>1, <1>3, <1>4 DEF WorkInv
<1> QED BY <1>1, <1>5, NothingPushed

\* An empty builder is in order.
LEMMA InitArena == Init => ArenaInv
<1> SUFFICES ASSUME Init PROVE ArenaInv
  OBVIOUS
<1>1. nodes = <<>> /\ edges = <<>> /\ payloads = <<>> /\ templates = <<>> /\ work = NoWork
  BY DEF Init
<1>2. IsSequence(nodes) /\ IsSequence(payloads) /\ edges \in Seq(Nat) /\ templates \in Seq(Nat)
  BY <1>1 DEF IsSequence
<1> QED BY <1>1, <1>2 DEF ArenaInv, SlicesInside, TemplatesPublished, WorkInv, ChildrenPrecede,
                       Precede, TemplatesPrecede

\* Every method of the builder keeps it in order.
LEMMA StepArena == ArenaInv /\ [Next]_vars => ArenaInv'
<1> SUFFICES ASSUME ArenaInv, [Next]_vars PROVE ArenaInv'
  OBVIOUS
<1>1. ASSUME NEW d, NEW args, DefinitionRef(d, args) PROVE ArenaInv'
  BY <1>1, LeafKeeps DEF DefinitionRef
<1>2. ASSUME NEW o, NEW args, Atomic(o, args) PROVE ArenaInv'
  BY <1>2, LeafKeeps DEF Atomic
<1>3. ASSUME NEW d, NEW calls, Opaque(d, calls) PROVE ArenaInv'
  BY <1>3, LeafKeeps DEF Opaque
<1>4. ASSUME NEW d, NEW s, TimeDisplacement(d, s) PROVE ArenaInv'
  BY <1>4, LeafKeeps DEF TimeDisplacement, tables
<1>5. ASSUME NEW t \in DOMAIN templates, NEW c, Instantiate(t, c) PROVE ArenaInv'
  <2>1. t \in 1..Len(templates) BY DEF ArenaInv
  <2> QED BY <1>5, <2>1, LeafKeeps DEF Instantiate
<1>6. ASSUME NEW id, Finish(id) PROVE ArenaInv'
  <2>1. UNCHANGED <<nodes, edges, payloads, templates, work>> BY <1>6 DEF Finish, tables
  <2>2. WorkInv' BY <2>1 DEF ArenaInv, WorkInv
  <2> QED BY <2>1, <2>2, NothingPushed
<1>7. CASE Compositions
  BY <1>7, BeginKeeps DEF Compositions
<1>8. CASE UNCHANGED vars
  <2>1. UNCHANGED <<nodes, edges, payloads, templates, work>> BY <1>8 DEF vars
  <2>2. WorkInv' BY <2>1 DEF ArenaInv, WorkInv
  <2> QED BY <2>1, <2>2, NothingPushed
<1> QED BY <1>1, <1>2, <1>3, <1>4, <1>5, <1>6, <1>7, <1>8, LoopKeeps, PublishKeeps, FlattenKeeps,
          CompositionKeeps DEF Next, Ids

\* The Morphism DAG is acyclic: for any number of nodes, templates and children, every
\* edge and every instance of a template refers to a smaller id, however compositions
\* are flattened (MorphismArenaBuilder).
THEOREM Acyclic == Spec => []ChildrenPrecede
<1>1. ArenaInv => ChildrenPrecede
  BY DEF ArenaInv
<1> QED BY InitArena, StepArena, <1>1, PTL DEF Spec

-----------------------------------------------------------------------------
(* What an id denotes. *)

\* A set of numbers that is not empty has a smallest element.
LEMMA SmallestNumber ==
    ASSUME NEW S, S \subseteq Nat, S # {}
    PROVE  \E x \in S : \A y \in S : x <= y
<1> DEFINE less == OpToRel(<, Nat)
<1>1. IsWellFoundedOn(less, Nat)
  BY NatLessThanWellFounded
<1>2. \A x, y \in Nat : x < y => <<x, y>> \in less
  BY DEF OpToRel
<1> HIDE DEF less
<1>3. PICK x \in S : \A y \in S : ~(<<y, x>> \in less)
  BY <1>1, WFMin
<1>4. \A y \in S : ~(y < x)
  BY <1>2, <1>3, Zenon
<1>5. \A y \in S : x <= y
  BY <1>4
<1> QED BY <1>5

\* What a sequence is as a function.
LEMMA SequenceFacts ==
    ASSUME NEW s, IsSequence(s)
    PROVE  /\ Len(s) \in Nat /\ DOMAIN s = 1..Len(s) /\ s = [i \in 1..Len(s) |-> s[i]]
           /\ \A i \in 1..Len(s) : s[i] \in Range(s)
<1>1. s \in [1..Len(s) -> Range(s)] /\ Len(s) \in Nat /\ DOMAIN s = 1..Len(s)
  BY SequenceOf DEF IsSequence
<1> QED BY <1>1

\* A function on 1..n is a sequence, whatever its values are.
LEMMA FunctionSequence ==
    ASSUME NEW n \in Nat, NEW f, f = [i \in 1..n |-> f[i]]
    PROVE  IsSequence(f) /\ Len(f) = n
<1>1. DOMAIN f = 1..n
  OBVIOUS
<1>2. \A i \in 1..n : f[i] \in Range(f)
  BY <1>1 DEF Range
<1>3. f \in [1..n -> Range(f)]
  BY <1>2
<1> QED BY <1>3, FunctionIsSequence DEF IsSequence

\* Sequences with the same elements are equal.
LEMMA SameSequence ==
    ASSUME NEW s, NEW t, IsSequence(s), IsSequence(t), Len(s) = Len(t),
           \A i \in 1..Len(s) : s[i] = t[i]
    PROVE  s = t
<1>1. s = [i \in 1..Len(s) |-> s[i]] /\ t = [i \in 1..Len(t) |-> t[i]]
  BY SequenceFacts
<1>2. [i \in 1..Len(s) |-> s[i]] = [i \in 1..Len(s) |-> t[i]]
  OBVIOUS
<1> QED BY <1>1, <1>2

\* A larger set of values.
LEMMA SequenceInto ==
    ASSUME NEW s, IsSequence(s), NEW S, Range(s) \subseteq S
    PROVE  s \in Seq(S)
<1>1. s \in [1..Len(s) -> Range(s)] /\ Len(s) \in Nat
  BY SequenceOf DEF IsSequence
<1>2. s \in [1..Len(s) -> S]
  BY <1>1
<1> QED BY <1>1, <1>2, FunctionIsSequence

\* A sequence over some set is one over its own range.
LEMMA SequenceFrom ==
    ASSUME NEW S, NEW s \in Seq(S)
    PROVE  IsSequence(s)
<1>1. s \in [1..Len(s) -> S] /\ Len(s) \in Nat
  BY SequenceOf
<1>2. s = [i \in 1..Len(s) |-> s[i]]
  BY <1>1
<1> QED BY <1>1, <1>2, FunctionSequence

\* Concatenation, whatever the values are.
LEMMA Concatenation ==
    ASSUME NEW s, NEW t, IsSequence(s), IsSequence(t)
    PROVE  /\ IsSequence(s \o t) /\ Len(s \o t) = Len(s) + Len(t)
           /\ \A i \in 1..Len(s) : (s \o t)[i] = s[i]
           /\ \A k \in 1..Len(t) : (s \o t)[Len(s) + k] = t[k]
<1> DEFINE S == Range(s) \cup Range(t)
<1>1. s \in Seq(S) /\ t \in Seq(S)
  BY SequenceInto
<1> HIDE DEF S
<1>2. /\ s \o t \in Seq(S) /\ Len(s \o t) = Len(s) + Len(t)
      /\ \A i \in 1..Len(s) : (s \o t)[i] = s[i]
      /\ \A k \in 1..Len(t) : (s \o t)[Len(s) + k] = t[k]
  BY <1>1, ConcatFacts
<1>3. IsSequence(s \o t)
  BY <1>2, SequenceFrom
<1> QED BY <1>2, <1>3

Window(s, start, count) == [k \in 1..count |-> s[start + k]]

\* A slice that lies inside.
LEMMA SliceFacts ==
    ASSUME NEW s, IsSequence(s), NEW start \in Nat, NEW count \in Nat, start + count <= Len(s)
    PROVE  /\ IsSequence(Slice(s, start, count)) /\ Len(Slice(s, start, count)) = count
           /\ Slice(s, start, count) = Window(s, start, count)
<1>1. s \in Seq(Range(s)) /\ Len(s) \in Nat
  BY SequenceOf DEF IsSequence
<1> DEFINE t == SubSeq(s, start + 1, start + count)
           S == Range(s)
<1> HIDE DEF S
<1>2. t \in Seq(S) /\ Len(t) = count /\ \A k \in 1..count : t[k] = s[start + k]
  BY <1>1 DEF S
<1> HIDE DEF t
<1>3. IsSequence(t)
  BY <1>2, SequenceFrom
<1>4. t = [k \in 1..Len(t) |-> t[k]]
  BY <1>3, SequenceFacts
<1>5. t = [k \in 1..count |-> s[start + k]]
  BY <1>2, <1>4
<1> QED BY <1>2, <1>3, <1>5 DEF t, Slice, Window

\* Every vector of an arena is a sequence, and all that a payload or a node refers
\* to lies inside the vectors.
Sequences(a) ==
    /\ IsSequence(a.nodes) /\ IsSequence(a.edges) /\ IsSequence(a.boundaries)
    /\ IsSequence(a.payloads) /\ IsSequence(a.valueArguments) /\ IsSequence(a.opaqueCalls)
    /\ IsSequence(a.templates) /\ IsSequence(a.definitions) /\ IsSequence(a.operations)
    /\ IsSequence(a.channels)

PayloadInside(a, p) ==
    /\ p.kind \in Leaves \cup {"Loop"}
    /\ p.kind \in {"Atomic", "DefinitionRef"} =>
          /\ p.argumentStart \in Nat /\ p.argumentCount \in Nat
          /\ p.argumentStart + p.argumentCount <= Len(a.valueArguments)
    /\ p.kind = "Atomic" => p.operation \in 1..Len(a.operations)
    /\ p.kind = "DefinitionRef" => p.definition \in 1..Len(a.definitions)
    /\ p.kind = "Opaque" => /\ p.callStart \in Nat /\ p.callCount \in Nat
                            /\ p.callStart + p.callCount <= Len(a.opaqueCalls)
    /\ p.kind = "Instantiate" => p.template \in 1..Len(a.templates) /\ p.channel \in 1..Len(a.channels)

NodeFields == {"kind", "edgeStart", "edgeCount", "boundaryStart", "payload", "provenance"}
NodeInside(a, n) ==
    /\ DOMAIN n = NodeFields
    /\ n.kind \in Kinds
    /\ n.edgeStart \in Nat /\ n.edgeCount \in Nat /\ n.boundaryStart \in Nat
    /\ n.edgeStart + n.edgeCount <= Len(a.edges)
    /\ n.kind \in {"Serial", "Parallel"} => n.edgeCount >= 2 /\ n.payload = 0
    /\ n.kind = "Serial" => n.boundaryStart + (n.edgeCount - 1) <= Len(a.boundaries)
    /\ n.kind \notin {"Serial", "Parallel"} =>
          /\ n.edgeCount = IF n.kind = "Loop" THEN 1 ELSE 0
          /\ n.payload \in 1..Len(a.payloads) /\ a.payloads[n.payload].kind = n.kind

ArenaInside(a) ==
    /\ Sequences(a)
    /\ \A k \in 1..Len(a.edges) : a.edges[k] \in 1..Len(a.nodes)
    /\ \A t \in 1..Len(a.templates) : a.templates[t] \in 1..Len(a.nodes)
    /\ \A i \in 1..Len(a.payloads) : PayloadInside(a, a.payloads[i])
    /\ \A id \in 1..Len(a.nodes) : NodeInside(a, a.nodes[id])

\* The children and boundaries of a node that lies inside.
LEMMA NodeReads ==
    ASSUME NEW a, Sequences(a), NEW id, NodeInside(a, a.nodes[id])
    PROVE  /\ IsSequence(Children(a, id)) /\ Len(Children(a, id)) = a.nodes[id].edgeCount
           /\ Children(a, id) = Window(a.edges, a.nodes[id].edgeStart, a.nodes[id].edgeCount)
           /\ IsSequence(Boundaries(a, id))
           /\ a.nodes[id].kind = "Serial" =>
                /\ Len(Boundaries(a, id)) = a.nodes[id].edgeCount - 1
                /\ Boundaries(a, id) = Window(a.boundaries, a.nodes[id].boundaryStart,
                                             a.nodes[id].edgeCount - 1)
           /\ a.nodes[id].kind # "Serial" => Boundaries(a, id) = <<>>
<1> DEFINE n == a.nodes[id]
<1>1. /\ n.edgeStart \in Nat /\ n.edgeCount \in Nat /\ n.boundaryStart \in Nat
      /\ n.edgeStart + n.edgeCount <= Len(a.edges)
      /\ n.kind = "Serial" => n.edgeCount >= 2 /\ n.boundaryStart + (n.edgeCount - 1) <= Len(a.boundaries)
  BY DEF NodeInside
<1>2. IsSequence(a.edges) /\ IsSequence(a.boundaries)
  BY DEF Sequences
<1> HIDE DEF n
<1>3. /\ IsSequence(Slice(a.edges, n.edgeStart, n.edgeCount))
      /\ Len(Slice(a.edges, n.edgeStart, n.edgeCount)) = n.edgeCount
      /\ Slice(a.edges, n.edgeStart, n.edgeCount) = Window(a.edges, n.edgeStart, n.edgeCount)
  BY <1>1, <1>2, SliceFacts
<1>4. CASE n.kind = "Serial"
  <2> DEFINE count == n.edgeCount - 1
  <2>1. BoundaryCount(n) = count /\ count \in Nat
    BY <1>1, <1>4 DEF BoundaryCount
  <2>2. n.boundaryStart + count <= Len(a.boundaries)
    BY <1>1, <1>4
  <2> HIDE DEF count
  <2>3. /\ IsSequence(Slice(a.boundaries, n.boundaryStart, count))
        /\ Len(Slice(a.boundaries, n.boundaryStart, count)) = count
        /\ Slice(a.boundaries, n.boundaryStart, count) = Window(a.boundaries, n.boundaryStart, count)
    BY <1>1, <1>2, <2>1, <2>2, SliceFacts
  <2> QED BY <1>3, <1>4, <2>1, <2>3 DEF Children, Boundaries, n, count
<1>5. CASE n.kind # "Serial"
  <2>1. IsSequence(<<>>)
    BY DEF IsSequence
  <2> QED BY <1>3, <1>5, <2>1 DEF Children, Boundaries, n
<1> QED BY <1>4, <1>5

\* Two nodes store the same tree when they agree in kind, in the trees of their
\* children, in their boundaries and in what their payloads say.
LEMMA SameTree ==
    ASSUME NEW a, NEW b, NEW D, NEW E, NEW i, NEW j,
           a.nodes[i].kind = b.nodes[j].kind,
           Below(a, D, i) = Below(b, E, j),
           Boundaries(a, i) = Boundaries(b, j),
           a.nodes[i].kind \notin {"Serial", "Parallel"} =>
             /\ a.payloads[a.nodes[i].payload] = b.payloads[b.nodes[j].payload]
             /\ a.nodes[i].kind # "Loop" =>
                  LeafTree(a, D, a.payloads[a.nodes[i].payload]) =
                  LeafTree(b, E, b.payloads[b.nodes[j].payload])
    PROVE  Tree(a, D, i) = Tree(b, E, j)
<1> DEFINE below == Below(a, D, i)
           kind == a.nodes[i].kind
<1>1. Tree(a, D, i) = CASE kind \in {"Serial", "Parallel"} -> <<kind, below, Boundaries(a, i)>>
                        [] kind = "Loop" -> <<"Loop", below[1], a.payloads[a.nodes[i].payload].count>>
                        [] OTHER -> LeafTree(a, D, a.payloads[a.nodes[i].payload])
  BY DEF Tree
<1>2. Tree(b, E, j) = CASE kind \in {"Serial", "Parallel"} -> <<kind, below, Boundaries(b, j)>>
                        [] kind = "Loop" -> <<"Loop", below[1], b.payloads[b.nodes[j].payload].count>>
                        [] OTHER -> LeafTree(b, E, b.payloads[b.nodes[j].payload])
  BY DEF Tree
<1> HIDE DEF below, kind
<1>3. kind = a.nodes[i].kind
  BY DEF kind
<1>4. CASE kind \in {"Serial", "Parallel"}
  BY <1>1, <1>2, <1>4
<1>5. CASE kind = "Loop"
  BY <1>1, <1>2, <1>3, <1>5
<1>6. CASE kind \notin {"Serial", "Parallel"} /\ kind # "Loop"
  BY <1>1, <1>2, <1>3, <1>6
<1> QED BY <1>4, <1>5, <1>6

\* A tree begins with the kind of its node.
LEMMA KindOfTree ==
    ASSUME NEW a, NEW D, NEW id, NodeInside(a, a.nodes[id])
    PROVE  /\ Tree(a, D, id)[1] = a.nodes[id].kind
           /\ a.nodes[id].kind \in {"Serial", "Parallel"} =>
                Tree(a, D, id) = <<a.nodes[id].kind, Below(a, D, id), Boundaries(a, id)>>
<1> DEFINE n == a.nodes[id]
           p == a.payloads[n.payload]
<1>1. n.kind \in Kinds /\ (n.kind \notin {"Serial", "Parallel"} => p.kind = n.kind)
  BY DEF NodeInside
<1>2. CASE n.kind \in {"Serial", "Parallel"}
  BY <1>2 DEF Tree
<1>3. CASE n.kind = "Loop"
  BY <1>3 DEF Tree
<1>4. CASE n.kind \in Leaves
  <2>1. Tree(a, D, id) = LeafTree(a, D, p)
    BY <1>4 DEF Tree, Leaves
  <2>2. p.kind = n.kind
    BY <1>1, <1>4 DEF Leaves
  <2>3. LeafTree(a, D, p)[1] = p.kind
    BY <2>2, <1>4 DEF LeafTree, Leaves
  <2> QED BY <2>1, <2>2, <2>3, <1>4 DEF Leaves
<1> QED BY <1>1, <1>2, <1>3, <1>4 DEF Kinds
\* The trees of an acyclic arena are what Denotation reads: no other assignment of
\* trees to ids satisfies the equations of all nodes.
LEMMA DenotationIs ==
    ASSUME NEW a, ArenaInside(a), Precede(a.nodes, a.edges),
           TemplatesPrecede(a.nodes, a.payloads, a.templates),
           NEW m, m = [id \in 1..Len(a.nodes) |-> m[id]],
           \A id \in 1..Len(a.nodes) : m[id] = Tree(a, m, id)
    PROVE  Denotation(a) = m
<1> DEFINE ids == 1..Len(a.nodes)
<1>1. Sequences(a) /\ Len(a.nodes) \in Nat /\ DOMAIN a.nodes = ids
  BY SequenceFacts DEF ArenaInside, Sequences
<1>2. m = [id \in DOMAIN a.nodes |-> Tree(a, m, id)]
  BY <1>1
<1>3. ASSUME NEW f, f = [id \in DOMAIN a.nodes |-> Tree(a, f, id)]
      PROVE  f = m
  <2> DEFINE bad == {id \in ids : f[id] # m[id]}
  <2>0. f = [id \in ids |-> f[id]] /\ \A id \in ids : f[id] = Tree(a, f, id)
    BY <1>1, <1>3
  <2>1. bad = {}
    <3> SUFFICES ASSUME bad # {} PROVE FALSE
      OBVIOUS
    <3>1. bad \subseteq Nat
      BY <1>1
    <3>2. PICK x \in bad : \A y \in bad : x <= y
      BY <3>1, SmallestNumber
    <3>3. x \in ids /\ f[x] # m[x] /\ \A y \in ids : y < x => f[y] = m[y]
      <4>1. x \in ids /\ f[x] # m[x]
        BY <3>2
      <4>2. ASSUME NEW y \in ids, y < x, f[y] # m[y] PROVE FALSE
        <5>1. y \in bad
          BY <4>2
        <5>2. x <= y
          BY <5>1, <3>2
        <5> QED BY <4>1, <4>2, <5>2, <1>1
      <4> QED BY <4>1, <4>2
    <3> HIDE DEF bad
    <3> DEFINE n == a.nodes[x]
    <3>4. NodeInside(a, n)
      BY <3>3 DEF ArenaInside
    <3>5. Children(a, x) = Window(a.edges, n.edgeStart, n.edgeCount)
      BY <1>1, <3>4, NodeReads
    <3>6. ASSUME NEW k \in 1..n.edgeCount
          PROVE  f[a.edges[n.edgeStart + k]] = m[a.edges[n.edgeStart + k]]
      <4>1. n.edgeStart \in Nat /\ n.edgeCount \in Nat /\ n.edgeStart + n.edgeCount <= Len(a.edges)
        BY <3>4 DEF NodeInside
      <4>2. Len(a.edges) \in Nat
        BY <1>1, SequenceFacts DEF Sequences
      <4>3. n.edgeStart + k \in 1..Len(a.edges)
        BY <4>1, <4>2, OffsetInside
      <4>4. a.edges[n.edgeStart + k] \in ids
        BY <4>3 DEF ArenaInside
      <4>5. a.edges[n.edgeStart + k] < x
        BY <3>3 DEF Precede
      <4> QED BY <4>4, <4>5, <3>3
    <3>7. Below(a, f, x) = Below(a, m, x)
      <4> HIDE DEF n
      <4> DEFINE w == Window(a.edges, n.edgeStart, n.edgeCount)
      <4>1. DOMAIN w = 1..n.edgeCount /\ \A k \in 1..n.edgeCount : w[k] = a.edges[n.edgeStart + k]
        BY DEF Window
      <4> HIDE DEF w
      <4>2. \A k \in DOMAIN w : f[w[k]] = m[w[k]]
        BY <4>1, <3>6
      <4>3. [k \in DOMAIN w |-> f[w[k]]] = [k \in DOMAIN w |-> m[w[k]]]
        BY <4>2
      <4> QED BY <4>3, <3>5 DEF w, Below
    <3> DEFINE p == a.payloads[n.payload]
    <3>8. ASSUME n.kind \notin {"Serial", "Parallel"}, n.kind # "Loop"
          PROVE  LeafTree(a, f, p) = LeafTree(a, m, p)
      <4>1. n.payload \in 1..Len(a.payloads) /\ p.kind = n.kind
        BY <3>4, <3>8 DEF NodeInside
      <4>2. PayloadInside(a, p)
        BY <4>1 DEF ArenaInside
      <4>3. CASE p.kind = "Instantiate"
        <5>1. p.template \in 1..Len(a.templates)
          BY <4>2, <4>3 DEF PayloadInside
        <5>2. a.templates[p.template] \in ids
          BY <5>1 DEF ArenaInside
        <5>3. a.templates[p.template] < x
          BY <3>3, <4>1, <4>3 DEF TemplatesPrecede
        <5>4. f[a.templates[p.template]] = m[a.templates[p.template]]
          BY <5>2, <5>3, <3>3
        <5> HIDE DEF p
        <5> QED BY <4>3, <5>4 DEF LeafTree
      <4>4. CASE p.kind # "Instantiate"
        <5>1. p.kind \in Leaves
          BY <4>1, <3>4, <3>8 DEF NodeInside, Kinds
        <5> HIDE DEF p
        <5> QED BY <4>4, <5>1 DEF LeafTree, Leaves
      <4> QED BY <4>3, <4>4
    <3>9. Tree(a, f, x) = Tree(a, m, x)
      BY <3>7, <3>8, SameTree
    <3> QED BY <3>3, <3>9, <2>0
  <2>2. \A id \in ids : f[id] = m[id]
    BY <2>1
  <2>3. [id \in ids |-> f[id]] = [id \in ids |-> m[id]]
    BY <2>2
  <2> QED BY <2>0, <2>3
<1> HIDE DEF ids
<1> DEFINE D == CHOOSE f : f = [id \in DOMAIN a.nodes |-> Tree(a, f, id)]
<1>4. Denotation(a) = D
  BY DEF Denotation
<1>5. D = m
  BY <1>2, <1>3
<1> QED BY <1>4, <1>5
\* Nothing that is stored changes when vectors are appended to.
Grows(s, t) == Len(s) <= Len(t) /\ \A i \in 1..Len(s) : t[i] = s[i]
ArenaGrows(a, b) ==
    /\ Grows(a.nodes, b.nodes) /\ Grows(a.edges, b.edges) /\ Grows(a.boundaries, b.boundaries)
    /\ Grows(a.payloads, b.payloads) /\ Grows(a.valueArguments, b.valueArguments)
    /\ Grows(a.opaqueCalls, b.opaqueCalls) /\ Grows(a.templates, b.templates)
    /\ Grows(a.definitions, b.definitions) /\ Grows(a.operations, b.operations)
    /\ Grows(a.channels, b.channels)

\* A slice stays where it is.
LEMMA WindowGrows ==
    ASSUME NEW s, NEW t, IsSequence(s), IsSequence(t), Grows(s, t),
           NEW start \in Nat, NEW count \in Nat, start + count <= Len(s)
    PROVE  start + count <= Len(t) /\ Window(t, start, count) = Window(s, start, count)
<1>1. Len(s) \in Nat /\ Len(t) \in Nat
  BY SequenceFacts
<1>2. ASSUME NEW k \in 1..count PROVE t[start + k] = s[start + k]
  <2>1. start + k \in 1..Len(s)
    BY <1>1, OffsetInside
  <2> QED BY <2>1 DEF Grows
<1>3. start + count <= Len(t)
  BY <1>1 DEF Grows
<1> QED BY <1>2, <1>3 DEF Window

\* What a payload refers to stays inside.
LEMMA PayloadGrows ==
    ASSUME NEW a, NEW b, Sequences(a), Sequences(b), ArenaGrows(a, b), NEW p, PayloadInside(a, p)
    PROVE  PayloadInside(b, p)
<1>1. /\ Len(a.valueArguments) \in Nat /\ Len(b.valueArguments) \in Nat
      /\ Len(a.valueArguments) <= Len(b.valueArguments)
      /\ Len(a.operations) \in Nat /\ Len(b.operations) \in Nat /\ Len(a.operations) <= Len(b.operations)
      /\ Len(a.definitions) \in Nat /\ Len(b.definitions) \in Nat /\ Len(a.definitions) <= Len(b.definitions)
      /\ Len(a.opaqueCalls) \in Nat /\ Len(b.opaqueCalls) \in Nat /\ Len(a.opaqueCalls) <= Len(b.opaqueCalls)
      /\ Len(a.templates) \in Nat /\ Len(b.templates) \in Nat /\ Len(a.templates) <= Len(b.templates)
      /\ Len(a.channels) \in Nat /\ Len(b.channels) \in Nat /\ Len(a.channels) <= Len(b.channels)
  BY SequenceFacts DEF Sequences, ArenaGrows, Grows
<1>2. p.kind \in {"Atomic", "DefinitionRef"} =>
          /\ p.argumentStart \in Nat /\ p.argumentCount \in Nat
          /\ p.argumentStart + p.argumentCount <= Len(b.valueArguments)
  BY <1>1 DEF PayloadInside
<1>3. p.kind = "Atomic" => p.operation \in 1..Len(b.operations)
  BY <1>1 DEF PayloadInside
<1>4. p.kind = "DefinitionRef" => p.definition \in 1..Len(b.definitions)
  BY <1>1 DEF PayloadInside
<1>5. p.kind = "Opaque" => /\ p.callStart \in Nat /\ p.callCount \in Nat
                            /\ p.callStart + p.callCount <= Len(b.opaqueCalls)
  BY <1>1 DEF PayloadInside
<1>6. p.kind = "Instantiate" => p.template \in 1..Len(b.templates) /\ p.channel \in 1..Len(b.channels)
  BY <1>1 DEF PayloadInside
<1> QED BY <1>2, <1>3, <1>4, <1>5, <1>6 DEF PayloadInside

\* A leaf stays what it is: its arguments, calls and interned names are not moved.
LEMMA LeafGrows ==
    ASSUME NEW a, NEW b, ArenaInside(a), Sequences(b), ArenaGrows(a, b), NEW p, PayloadInside(a, p),
           NEW D, NEW E, \A id \in 1..Len(a.nodes) : E[id] = D[id], p.kind # "Loop"
    PROVE  LeafTree(b, E, p) = LeafTree(a, D, p)
<1>0. Sequences(a)
  BY DEF ArenaInside
<1>1. CASE p.kind = "Atomic"
  <2>1. b.operations[p.operation] = a.operations[p.operation]
    BY <1>1 DEF PayloadInside, ArenaGrows, Grows
  <2>2. p.argumentStart \in Nat /\ p.argumentCount \in Nat
        /\ p.argumentStart + p.argumentCount <= Len(a.valueArguments)
    BY <1>1 DEF PayloadInside
  <2>3. PayloadArguments(b, p) = PayloadArguments(a, p)
    BY <1>0, <1>1, <2>2, WindowGrows, SliceFacts DEF Sequences, ArenaGrows, PayloadArguments
  <2> QED BY <1>1, <2>1, <2>3 DEF LeafTree
<1>2. CASE p.kind = "DefinitionRef"
  <2>1. b.definitions[p.definition] = a.definitions[p.definition]
    BY <1>2 DEF PayloadInside, ArenaGrows, Grows
  <2>2. p.argumentStart \in Nat /\ p.argumentCount \in Nat
        /\ p.argumentStart + p.argumentCount <= Len(a.valueArguments)
    BY <1>2 DEF PayloadInside
  <2>3. PayloadArguments(b, p) = PayloadArguments(a, p)
    BY <1>0, <1>2, <2>2, WindowGrows, SliceFacts DEF Sequences, ArenaGrows, PayloadArguments
  <2> QED BY <1>2, <2>1, <2>3 DEF LeafTree
<1>3. CASE p.kind = "Opaque"
  <2>1. p.callStart \in Nat /\ p.callCount \in Nat /\ p.callStart + p.callCount <= Len(a.opaqueCalls)
    BY <1>3 DEF PayloadInside
  <2>2. OpaqueCalls(b, p) = OpaqueCalls(a, p)
    BY <1>0, <1>3, <2>1, WindowGrows, SliceFacts DEF Sequences, ArenaGrows, OpaqueCalls
  <2> QED BY <1>3, <2>2 DEF LeafTree
<1>4. CASE p.kind = "Wait"
  BY <1>4 DEF LeafTree
<1>5. CASE p.kind = "Instantiate"
  <2>1. p.template \in 1..Len(a.templates) /\ p.channel \in 1..Len(a.channels)
    BY <1>5 DEF PayloadInside
  <2>2. b.templates[p.template] = a.templates[p.template] /\ b.channels[p.channel] = a.channels[p.channel]
    BY <2>1 DEF ArenaGrows, Grows
  <2>3. E[a.templates[p.template]] = D[a.templates[p.template]]
    BY <2>1 DEF ArenaInside
  <2> QED BY <1>5, <2>2, <2>3 DEF LeafTree
<1> QED BY <1>1, <1>2, <1>3, <1>4, <1>5 DEF PayloadInside, Leaves

\* A node stays inside, with the same children and boundaries.
LEMMA NodeGrows ==
    ASSUME NEW a, NEW b, ArenaInside(a), Sequences(b), ArenaGrows(a, b), NEW id \in 1..Len(a.nodes)
    PROVE  /\ NodeInside(b, b.nodes[id]) /\ b.nodes[id] = a.nodes[id]
           /\ Children(b, id) = Children(a, id) /\ Boundaries(b, id) = Boundaries(a, id)
<1> DEFINE n == a.nodes[id]
<1>1. b.nodes[id] = n /\ NodeInside(a, n) /\ Sequences(a)
  BY DEF ArenaInside, ArenaGrows, Grows
<1> HIDE DEF n
<1>2. /\ n.edgeStart \in Nat /\ n.edgeCount \in Nat /\ n.boundaryStart \in Nat
      /\ n.edgeStart + n.edgeCount <= Len(a.edges)
      /\ n.kind = "Serial" => /\ n.edgeCount >= 2
                              /\ n.boundaryStart + (n.edgeCount - 1) <= Len(a.boundaries)
  BY <1>1 DEF NodeInside
<1>3. /\ n.edgeStart + n.edgeCount <= Len(b.edges)
      /\ Window(b.edges, n.edgeStart, n.edgeCount) = Window(a.edges, n.edgeStart, n.edgeCount)
  BY <1>1, <1>2, WindowGrows DEF Sequences, ArenaGrows
<1>4. ASSUME n.kind = "Serial"
      PROVE  /\ n.boundaryStart + (n.edgeCount - 1) <= Len(b.boundaries)
             /\ Window(b.boundaries, n.boundaryStart, n.edgeCount - 1) =
                Window(a.boundaries, n.boundaryStart, n.edgeCount - 1)
  <2> DEFINE count == n.edgeCount - 1
  <2>1. count \in Nat /\ n.boundaryStart + count <= Len(a.boundaries)
    BY <1>2, <1>4
  <2> HIDE DEF count
  <2>2. n.boundaryStart + count <= Len(b.boundaries)
        /\ Window(b.boundaries, n.boundaryStart, count) = Window(a.boundaries, n.boundaryStart, count)
    BY <1>1, <1>2, <2>1, WindowGrows DEF Sequences, ArenaGrows
  <2> QED BY <2>2 DEF count
<1>5. ASSUME n.kind \notin {"Serial", "Parallel"}
      PROVE  n.payload \in 1..Len(b.payloads) /\ b.payloads[n.payload].kind = n.kind
  <2>1. n.payload \in 1..Len(a.payloads) /\ a.payloads[n.payload].kind = n.kind
    BY <1>1, <1>5 DEF NodeInside
  <2>2. Len(a.payloads) \in Nat /\ Len(b.payloads) \in Nat /\ Len(a.payloads) <= Len(b.payloads)
        /\ b.payloads[n.payload] = a.payloads[n.payload]
    BY <1>1, <2>1, SequenceFacts DEF Sequences, ArenaGrows, Grows
  <2> QED BY <2>1, <2>2
<1>6. NodeInside(b, n)
  BY <1>1, <1>3, <1>4, <1>5 DEF NodeInside
<1>7. Children(b, id) = Children(a, id) /\ Boundaries(b, id) = Boundaries(a, id)
  BY <1>1, <1>3, <1>4, <1>6, NodeReads DEF n
<1> QED BY <1>1, <1>6, <1>7 DEF n

\* And so its tree is the same, whatever was appended.
LEMMA TreeGrows ==
    ASSUME NEW a, NEW b, ArenaInside(a), Sequences(b), ArenaGrows(a, b), NEW id \in 1..Len(a.nodes),
           NEW D, NEW E, \A i \in 1..Len(a.nodes) : E[i] = D[i]
    PROVE  Tree(a, D, id) = Tree(b, E, id)
<1> DEFINE n == a.nodes[id]
           w == Children(a, id)
<1>1. /\ b.nodes[id] = n /\ NodeInside(a, n) /\ Sequences(a)
      /\ Children(b, id) = w /\ Boundaries(b, id) = Boundaries(a, id)
  BY NodeGrows DEF ArenaInside
<1>2. Below(a, D, id) = Below(b, E, id)
  <2>1. /\ n.edgeStart \in Nat /\ n.edgeCount \in Nat /\ n.edgeStart + n.edgeCount <= Len(a.edges)
        /\ w = Window(a.edges, n.edgeStart, n.edgeCount) /\ Len(a.edges) \in Nat
    BY <1>1, NodeReads, SequenceFacts DEF NodeInside, Sequences
  <2>2. ASSUME NEW k \in DOMAIN w PROVE w[k] \in 1..Len(a.nodes)
    <3>1. k \in 1..n.edgeCount /\ w[k] = a.edges[n.edgeStart + k]
      BY <2>1 DEF Window
    <3>2. n.edgeStart + k \in 1..Len(a.edges)
      BY <3>1, <2>1, OffsetInside
    <3> QED BY <3>1, <3>2 DEF ArenaInside
  <2>3. \A k \in DOMAIN w : E[w[k]] = D[w[k]]
    BY <2>2
  <2> HIDE DEF w
  <2>4. [k \in DOMAIN w |-> E[w[k]]] = [k \in DOMAIN w |-> D[w[k]]]
    BY <2>3
  <2> QED BY <2>4, <1>1 DEF Below, w
<1>3. ASSUME n.kind \notin {"Serial", "Parallel"}
      PROVE  /\ a.payloads[n.payload] = b.payloads[n.payload]
             /\ n.kind # "Loop" =>
                  LeafTree(a, D, a.payloads[n.payload]) = LeafTree(b, E, b.payloads[n.payload])
  <2>1. n.payload \in 1..Len(a.payloads) /\ a.payloads[n.payload].kind = n.kind
    BY <1>1, <1>3 DEF NodeInside
  <2>2. b.payloads[n.payload] = a.payloads[n.payload] /\ PayloadInside(a, a.payloads[n.payload])
    BY <2>1 DEF ArenaGrows, Grows, ArenaInside
  <2> QED BY <2>1, <2>2, LeafGrows
<1> QED BY <1>1, <1>2, <1>3, SameTree
\* The builder stores, under every id it has handed out, the tree that was asked for.
BuilderInv ==
    /\ ArenaInside(Builder)
    /\ IsSequence(meaning) /\ Len(meaning) = Len(nodes)
    /\ \A id \in 1..Len(nodes) : nodes[id].provenance = id
    /\ \A id \in 1..Len(nodes) : meaning[id] = Tree(Builder, meaning, id)

\* The vectors of the builder, read as an arena.
LEMMA BuilderFields ==
    /\ Builder.nodes = nodes /\ Builder.edges = edges /\ Builder.boundaries = boundaries
    /\ Builder.payloads = payloads /\ Builder.valueArguments = valueArguments
    /\ Builder.opaqueCalls = opaqueCalls /\ Builder.templates = templates
    /\ Builder.definitions = definitions /\ Builder.operations = operations
    /\ Builder.channels = channels
BY DEF Builder

\* The same after a step.
LEMMA BuilderFieldsNext ==
    /\ Builder'.nodes = nodes' /\ Builder'.edges = edges' /\ Builder'.boundaries = boundaries'
    /\ Builder'.payloads = payloads' /\ Builder'.valueArguments = valueArguments'
    /\ Builder'.opaqueCalls = opaqueCalls' /\ Builder'.templates = templates'
    /\ Builder'.definitions = definitions' /\ Builder'.operations = operations'
    /\ Builder'.channels = channels'
BY DEF Builder

\* A vector left alone has grown, by nothing.
LEMMA GrowsSame == \A s : IsSequence(s) => Grows(s, s)
BY SequenceFacts DEF Grows

\* A node pushed behind the others, whose own tree is the one asked for, leaves all
\* of them as they are.
LEMMA PushDenotes ==
    ASSUME BuilderInv, Sequences(Builder'), ArenaGrows(Builder, Builder'),
           Len(nodes') = Len(nodes) + 1, templates' = templates,
           NodeInside(Builder', nodes'[Len(nodes) + 1]),
           nodes'[Len(nodes) + 1].provenance = Len(nodes) + 1,
           \A k \in 1..Len(edges') : k \in 1..Len(edges) \/ edges'[k] \in 1..Len(nodes),
           \A i \in 1..Len(payloads') :
             i \in 1..Len(payloads) \/ PayloadInside(Builder', payloads'[i]),
           NEW tree, meaning' = Append(meaning, tree),
           tree = Tree(Builder', meaning', Len(nodes) + 1)
    PROVE  BuilderInv'
<1> DEFINE a == Builder
           b == Builder'
           n == Len(nodes) + 1
           E == Append(meaning, tree)
<1>1. ArenaInside(a) /\ Sequences(a) /\ Len(nodes) \in Nat /\ a.nodes = nodes /\ b.nodes = nodes'
  BY BuilderFields, BuilderFieldsNext, SequenceFacts DEF BuilderInv, ArenaInside, Sequences
<1>2. /\ IsSequence(E) /\ Len(E) = n /\ E[n] = tree /\ \A i \in 1..Len(nodes) : E[i] = meaning[i]
  BY AppendFacts DEF BuilderInv
<1>3. \A i \in 1..n : i \in 1..Len(nodes) \/ i = n
  BY <1>1
<1>4. ASSUME NEW id \in 1..Len(nodes)
      PROVE  /\ NodeInside(b, nodes'[id]) /\ nodes'[id].provenance = id
             /\ E[id] = Tree(b, E, id)
  <2>1. NodeInside(b, b.nodes[id]) /\ b.nodes[id] = a.nodes[id]
    BY <1>1, NodeGrows
  <2>2. \A i \in 1..Len(a.nodes) : E[i] = meaning[i]
    BY <1>1, <1>2
  <2>3. Sequences(b) /\ ArenaGrows(a, b) /\ id \in 1..Len(a.nodes)
    BY <1>1
  <2> HIDE DEF a, b, E
  <2>4. Tree(a, meaning, id) = Tree(b, E, id)
    BY <1>1, <2>2, <2>3, TreeGrows
  <2> QED BY <1>1, <1>2, <2>1, <2>4 DEF BuilderInv, a
<1>5. \A id \in 1..Len(nodes') : /\ NodeInside(b, nodes'[id]) /\ nodes'[id].provenance = id
                                 /\ E[id] = Tree(b, E, id)
  BY <1>2, <1>3, <1>4
<1>6. \A k \in 1..Len(edges') : edges'[k] \in 1..Len(nodes')
  <2> SUFFICES ASSUME NEW k \in 1..Len(edges') PROVE edges'[k] \in 1..Len(nodes')
    OBVIOUS
  <2>1. CASE k \in 1..Len(edges)
    <3>1. edges'[k] = edges[k] /\ edges[k] \in 1..Len(nodes)
      BY <2>1, <1>1, BuilderFields, BuilderFieldsNext DEF ArenaInside, ArenaGrows, Grows
    <3> QED BY <3>1, <1>1
  <2>2. CASE edges'[k] \in 1..Len(nodes)
    BY <2>2, <1>1
  <2> QED BY <2>1, <2>2
<1>7. \A t \in 1..Len(templates') : templates'[t] \in 1..Len(nodes')
  BY <1>1, BuilderFields DEF ArenaInside
<1>8. ASSUME NEW i \in 1..Len(payloads') PROVE PayloadInside(b, payloads'[i])
  <2>1. CASE i \in 1..Len(payloads)
    <3>1. payloads'[i] = payloads[i] /\ PayloadInside(a, payloads[i])
      BY <2>1, <1>1, BuilderFields, BuilderFieldsNext DEF ArenaInside, ArenaGrows, Grows
    <3> QED BY <3>1, <1>1, PayloadGrows
  <2> QED BY <2>1
<1>9. ArenaInside(b)
  BY <1>5, <1>6, <1>7, <1>8, BuilderFieldsNext DEF ArenaInside
<1> HIDE DEF a, b, E
<1>10. IsSequence(meaning') /\ Len(meaning') = Len(nodes')
       /\ \A id \in 1..Len(nodes') : nodes'[id].provenance = id /\ meaning'[id] = Tree(b, meaning', id)
  BY <1>2, <1>5 DEF E
<1> QED BY <1>9, <1>10 DEF BuilderInv, b
\* Appending grows a vector, and the slice appended reads as what was appended.
LEMMA AppendGrows ==
    ASSUME NEW s, IsSequence(s), NEW e
    PROVE  IsSequence(Append(s, e)) /\ Grows(s, Append(s, e))
<1>1. Len(s) \in Nat
  BY SequenceFacts
<1> QED BY <1>1, AppendFacts DEF Grows

\* So does concatenation.
LEMMA ConcatGrows ==
    ASSUME NEW s, IsSequence(s), NEW t, IsSequence(t)
    PROVE  /\ IsSequence(s \o t) /\ Grows(s, s \o t)
           /\ Len(s) \in Nat /\ Len(t) \in Nat /\ Len(s) + Len(t) <= Len(s \o t)
           /\ Slice(s \o t, Len(s), Len(t)) = t
<1> DEFINE u == s \o t
<1>1. Len(s) \in Nat /\ Len(t) \in Nat
  BY SequenceFacts
<1>2. /\ IsSequence(u) /\ Len(u) = Len(s) + Len(t)
      /\ \A i \in 1..Len(s) : u[i] = s[i]
      /\ \A k \in 1..Len(t) : u[Len(s) + k] = t[k]
  BY Concatenation
<1> HIDE DEF u
<1>3. Grows(s, u) /\ Len(s) + Len(t) <= Len(u)
  BY <1>1, <1>2 DEF Grows
<1>4. Slice(u, Len(s), Len(t)) = Window(u, Len(s), Len(t))
  BY <1>1, <1>2, <1>3, SliceFacts
<1>5. Window(u, Len(s), Len(t)) = [k \in 1..Len(t) |-> t[k]]
  BY <1>2 DEF Window
<1>6. t = [k \in 1..Len(t) |-> t[k]]
  BY SequenceFacts
<1> QED BY <1>1, <1>2, <1>3, <1>4, <1>5, <1>6 DEF u

\* Interning a name: the table grows if the name is new, and the id names it.
LEMMA InternFacts ==
    ASSUME NEW table, IsSequence(table), NEW name
    PROVE  LET t == Intern(table, name)
           IN  /\ IsSequence(t) /\ Grows(table, t)
               /\ IdOf(t, name) \in 1..Len(t) /\ t[IdOf(t, name)] = name
<1> DEFINE t == Intern(table, name)
<1>1. IsSequence(t) /\ Grows(table, t) /\ \E i \in DOMAIN t : t[i] = name
  <2>1. CASE name \in Range(table)
    BY <2>1, GrowsSame DEF Intern, Range
  <2>2. CASE name \notin Range(table)
    <3>1. /\ t = Append(table, name) /\ IsSequence(t) /\ Grows(table, t)
          /\ Len(t) = Len(table) + 1 /\ t[Len(table) + 1] = name
      BY <2>2, AppendGrows, AppendFacts DEF Intern
    <3>2. Len(table) + 1 \in DOMAIN t
      <4> HIDE DEF t
      <4>1. DOMAIN t = 1..Len(t) /\ Len(table) \in Nat
        BY <3>1, SequenceFacts
      <4> QED BY <4>1, <3>1
    <3> QED BY <3>1, <3>2
  <2> QED BY <2>1, <2>2
<1> HIDE DEF t
<1>2. DOMAIN t = 1..Len(t)
  BY <1>1, SequenceFacts
<1>3. IdOf(t, name) \in DOMAIN t /\ t[IdOf(t, name)] = name
  BY <1>1 DEF IdOf
<1> QED BY <1>1, <1>2, <1>3 DEF t

\* A leaf is pushed with its payload.
LEMMA LeafDenotes ==
    ASSUME BuilderInv, NEW payload, NEW tree, PushLeaf(payload, tree),
           payload.kind \in Leaves, PayloadInside(Builder', payload),
           LeafTree(Builder', meaning', payload) = tree,
           templates' = templates,
           IsSequence(valueArguments'), Grows(valueArguments, valueArguments'),
           IsSequence(opaqueCalls'), Grows(opaqueCalls, opaqueCalls'),
           IsSequence(definitions'), Grows(definitions, definitions'),
           IsSequence(operations'), Grows(operations, operations'),
           IsSequence(channels'), Grows(channels, channels')
    PROVE  BuilderInv'
<1> DEFINE new == [kind |-> payload.kind, edgeStart |-> Len(edges), edgeCount |-> 0,
                   boundaryStart |-> Len(boundaries), payload |-> Len(payloads) + 1,
                   provenance |-> Len(nodes) + 1]
           n == Len(nodes) + 1
<1>1. /\ payloads' = Append(payloads, payload) /\ nodes' = Append(nodes, new)
      /\ edges' = edges /\ boundaries' = boundaries /\ meaning' = Append(meaning, tree)
  BY DEF PushLeaf, PushNode
<1>2. /\ IsSequence(nodes) /\ IsSequence(edges) /\ IsSequence(boundaries)
      /\ IsSequence(payloads) /\ IsSequence(templates)
  BY BuilderFields DEF BuilderInv, ArenaInside, Sequences
<1>3. /\ new.kind = payload.kind /\ new.edgeStart = Len(edges) /\ new.edgeCount = 0
      /\ new.boundaryStart = Len(boundaries) /\ new.payload = Len(payloads) + 1
      /\ new.provenance = n /\ DOMAIN new = NodeFields
  BY DEF NodeFields
<1> HIDE DEF new
<1>4. /\ IsSequence(nodes') /\ Grows(nodes, nodes') /\ Len(nodes') = n /\ nodes'[n] = new
      /\ IsSequence(payloads') /\ Grows(payloads, payloads') /\ Len(payloads') = Len(payloads) + 1
      /\ payloads'[Len(payloads) + 1] = payload
      /\ Len(nodes) \in Nat /\ Len(payloads) \in Nat /\ Len(edges) \in Nat /\ Len(boundaries) \in Nat
  BY <1>1, <1>2, AppendGrows, AppendFacts, SequenceFacts
<1>5. Sequences(Builder') /\ ArenaGrows(Builder, Builder')
  BY <1>1, <1>2, <1>4, GrowsSame, BuilderFields, BuilderFieldsNext DEF Sequences, ArenaGrows
<1>6. NodeInside(Builder', new)
  <2>1. new.kind \in Kinds /\ new.kind \notin {"Serial", "Parallel", "Loop"}
    BY <1>3 DEF Kinds, Leaves
  <2>2. new.payload \in 1..Len(payloads') /\ payloads'[new.payload].kind = new.kind
    BY <1>3, <1>4
  <2>3. new.edgeStart + new.edgeCount <= Len(edges')
    BY <1>1, <1>3, <1>4
  <2> QED BY <1>3, <1>4, <2>1, <2>2, <2>3, BuilderFieldsNext DEF NodeInside
<1>7. \A i \in 1..Len(payloads') :
        i \in 1..Len(payloads) \/ PayloadInside(Builder', payloads'[i])
  BY <1>4
<1>8. tree = Tree(Builder', meaning', n)
  <2>1. Builder'.nodes[n] = new /\ Builder'.payloads[new.payload] = payload
    BY <1>3, <1>4, BuilderFieldsNext
  <2>2. payload.kind \notin {"Serial", "Parallel"} /\ payload.kind # "Loop"
    BY DEF Leaves
  <2> QED BY <1>3, <2>1, <2>2 DEF Tree
<1> QED BY <1>1, <1>3, <1>4, <1>5, <1>6, <1>7, <1>8, PushDenotes
\* Every vector of the builder is a sequence.
LEMMA TablesAreSequences ==
    ASSUME BuilderInv
    PROVE  /\ IsSequence(nodes) /\ IsSequence(edges) /\ IsSequence(boundaries)
           /\ IsSequence(payloads) /\ IsSequence(templates) /\ IsSequence(valueArguments)
           /\ IsSequence(opaqueCalls) /\ IsSequence(definitions) /\ IsSequence(operations)
           /\ IsSequence(channels)
BY BuilderFields DEF BuilderInv, ArenaInside, Sequences

\* A reference to a definition keeps its name and its arguments.
LEMMA DefinitionRefDenotes ==
    ASSUME BuilderInv, NEW definition, NEW args \in Arguments, DefinitionRef(definition, args)
    PROVE  BuilderInv'
<1> DEFINE id == IdOf(definitions', definition)
           payload == [kind |-> "DefinitionRef", definition |-> id,
                       argumentStart |-> Len(valueArguments), argumentCount |-> Len(args)]
           tree == <<"DefinitionRef", definition, args>>
<1>1. /\ definitions' = Intern(definitions, definition) /\ valueArguments' = valueArguments \o args
      /\ PushLeaf(payload, tree) /\ UNCHANGED <<opaqueCalls, templates, operations, channels>>
  BY DEF DefinitionRef
<1>2. IsSequence(args)
  BY ArenaAssumption, SequenceFrom DEF ArenaAssumption
<1>3. /\ IsSequence(definitions') /\ Grows(definitions, definitions')
      /\ id \in 1..Len(definitions') /\ definitions'[id] = definition
  BY <1>1, TablesAreSequences, InternFacts
<1>4. /\ IsSequence(valueArguments') /\ Grows(valueArguments, valueArguments')
      /\ Len(valueArguments) \in Nat /\ Len(args) \in Nat
      /\ Len(valueArguments) + Len(args) <= Len(valueArguments')
      /\ Slice(valueArguments', Len(valueArguments), Len(args)) = args
  BY <1>1, <1>2, TablesAreSequences, ConcatGrows
<1> HIDE DEF id
<1>5. /\ payload.kind = "DefinitionRef" /\ payload.definition = id
      /\ payload.argumentStart = Len(valueArguments) /\ payload.argumentCount = Len(args)
  OBVIOUS
<1> HIDE DEF payload
<1>6. PayloadInside(Builder', payload) /\ payload.kind \in Leaves
  BY <1>3, <1>4, <1>5, BuilderFieldsNext DEF PayloadInside, Leaves
<1>7. LeafTree(Builder', meaning', payload) = tree
  BY <1>3, <1>4, <1>5, BuilderFieldsNext DEF LeafTree, PayloadArguments
<1>8. /\ IsSequence(opaqueCalls') /\ Grows(opaqueCalls, opaqueCalls')
      /\ IsSequence(operations') /\ Grows(operations, operations')
      /\ IsSequence(channels') /\ Grows(channels, channels')
  BY <1>1, TablesAreSequences, GrowsSame
<1> HIDE DEF tree
<1> QED BY <1>1, <1>3, <1>4, <1>6, <1>7, <1>8, LeafDenotes

\* An atomic operation keeps its name and its arguments.
LEMMA AtomicDenotes ==
    ASSUME BuilderInv, NEW operation, NEW args \in Arguments, Atomic(operation, args)
    PROVE  BuilderInv'
<1> DEFINE id == IdOf(operations', operation)
           payload == [kind |-> "Atomic", operation |-> id,
                       argumentStart |-> Len(valueArguments), argumentCount |-> Len(args)]
           tree == <<"Atomic", operation, args>>
<1>1. /\ operations' = Intern(operations, operation) /\ valueArguments' = valueArguments \o args
      /\ PushLeaf(payload, tree) /\ UNCHANGED <<opaqueCalls, templates, definitions, channels>>
  BY DEF Atomic
<1>2. IsSequence(args)
  BY ArenaAssumption, SequenceFrom DEF ArenaAssumption
<1>3. /\ IsSequence(operations') /\ Grows(operations, operations')
      /\ id \in 1..Len(operations') /\ operations'[id] = operation
  BY <1>1, TablesAreSequences, InternFacts
<1>4. /\ IsSequence(valueArguments') /\ Grows(valueArguments, valueArguments')
      /\ Len(valueArguments) \in Nat /\ Len(args) \in Nat
      /\ Len(valueArguments) + Len(args) <= Len(valueArguments')
      /\ Slice(valueArguments', Len(valueArguments), Len(args)) = args
  BY <1>1, <1>2, TablesAreSequences, ConcatGrows
<1> HIDE DEF id
<1>5. /\ payload.kind = "Atomic" /\ payload.operation = id
      /\ payload.argumentStart = Len(valueArguments) /\ payload.argumentCount = Len(args)
  OBVIOUS
<1> HIDE DEF payload
<1>6. PayloadInside(Builder', payload) /\ payload.kind \in Leaves
  BY <1>3, <1>4, <1>5, BuilderFieldsNext DEF PayloadInside, Leaves
<1>7. LeafTree(Builder', meaning', payload) = tree
  BY <1>3, <1>4, <1>5, BuilderFieldsNext DEF LeafTree, PayloadArguments
<1>8. /\ IsSequence(opaqueCalls') /\ Grows(opaqueCalls, opaqueCalls')
      /\ IsSequence(definitions') /\ Grows(definitions, definitions')
      /\ IsSequence(channels') /\ Grows(channels, channels')
  BY <1>1, TablesAreSequences, GrowsSame
<1> HIDE DEF tree
<1> QED BY <1>1, <1>3, <1>4, <1>6, <1>7, <1>8, LeafDenotes

\* An opaque block keeps its duration and its calls.
LEMMA OpaqueDenotes ==
    ASSUME BuilderInv, NEW duration, NEW calls \in BoardCalls, Opaque(duration, calls)
    PROVE  BuilderInv'
<1> DEFINE payload == [kind |-> "Opaque", duration |-> duration,
                       callStart |-> Len(opaqueCalls), callCount |-> Len(calls)]
           tree == <<"Opaque", duration, calls>>
<1>1. /\ opaqueCalls' = opaqueCalls \o calls /\ PushLeaf(payload, tree)
      /\ UNCHANGED <<valueArguments, templates, definitions, operations, channels>>
  BY DEF Opaque
<1>2. IsSequence(calls)
  BY ArenaAssumption, SequenceFrom DEF ArenaAssumption
<1>3. /\ IsSequence(opaqueCalls') /\ Grows(opaqueCalls, opaqueCalls')
      /\ Len(opaqueCalls) \in Nat /\ Len(calls) \in Nat
      /\ Len(opaqueCalls) + Len(calls) <= Len(opaqueCalls')
      /\ Slice(opaqueCalls', Len(opaqueCalls), Len(calls)) = calls
  BY <1>1, <1>2, TablesAreSequences, ConcatGrows
<1>4. /\ payload.kind = "Opaque" /\ payload.duration = duration
      /\ payload.callStart = Len(opaqueCalls) /\ payload.callCount = Len(calls)
  OBVIOUS
<1> HIDE DEF payload
<1>5. PayloadInside(Builder', payload) /\ payload.kind \in Leaves
  BY <1>3, <1>4, BuilderFieldsNext DEF PayloadInside, Leaves
<1>6. LeafTree(Builder', meaning', payload) = tree
  BY <1>3, <1>4, BuilderFieldsNext DEF LeafTree, OpaqueCalls
<1>7. /\ IsSequence(valueArguments') /\ Grows(valueArguments, valueArguments')
      /\ IsSequence(definitions') /\ Grows(definitions, definitions')
      /\ IsSequence(operations') /\ Grows(operations, operations')
      /\ IsSequence(channels') /\ Grows(channels, channels')
  BY <1>1, TablesAreSequences, GrowsSame
<1> HIDE DEF tree
<1> QED BY <1>1, <1>3, <1>5, <1>6, <1>7, LeafDenotes

\* A wait keeps its duration and what it means by it.
LEMMA WaitDenotes ==
    ASSUME BuilderInv, NEW duration, NEW semantics, TimeDisplacement(duration, semantics)
    PROVE  BuilderInv'
<1> DEFINE payload == [kind |-> "Wait", duration |-> duration, semantics |-> semantics]
           tree == <<"Wait", duration, semantics>>
<1>1. /\ PushLeaf(payload, tree)
      /\ UNCHANGED <<valueArguments, opaqueCalls, templates, definitions, operations, channels>>
  BY DEF TimeDisplacement, tables
<1>2. payload.kind = "Wait" /\ payload.duration = duration /\ payload.semantics = semantics
  OBVIOUS
<1> HIDE DEF payload
<1>3. PayloadInside(Builder', payload) /\ payload.kind \in Leaves
  BY <1>2 DEF PayloadInside, Leaves
<1>4. LeafTree(Builder', meaning', payload) = tree
  BY <1>2 DEF LeafTree
<1>5. /\ IsSequence(valueArguments') /\ Grows(valueArguments, valueArguments')
      /\ IsSequence(opaqueCalls') /\ Grows(opaqueCalls, opaqueCalls')
      /\ IsSequence(definitions') /\ Grows(definitions, definitions')
      /\ IsSequence(operations') /\ Grows(operations, operations')
      /\ IsSequence(channels') /\ Grows(channels, channels')
  BY <1>1, TablesAreSequences, GrowsSame
<1> HIDE DEF tree
<1> QED BY <1>1, <1>3, <1>4, <1>5, LeafDenotes

\* An instance denotes the body its template had when it was published.
LEMMA InstantiateDenotes ==
    ASSUME BuilderInv, NEW template \in DOMAIN templates, NEW channel, Instantiate(template, channel)
    PROVE  BuilderInv'
<1> DEFINE id == IdOf(channels', channel)
           payload == [kind |-> "Instantiate", template |-> template, channel |-> id]
           tree == <<"Instantiate", meaning[templates[template]], channel>>
<1>1. /\ channels' = Intern(channels, channel) /\ PushLeaf(payload, tree)
      /\ UNCHANGED <<valueArguments, opaqueCalls, templates, definitions, operations>>
  BY DEF Instantiate
<1>2. /\ IsSequence(channels') /\ Grows(channels, channels')
      /\ id \in 1..Len(channels') /\ channels'[id] = channel
  BY <1>1, TablesAreSequences, InternFacts
<1>3. template \in 1..Len(templates) /\ templates[template] \in 1..Len(nodes)
  <2>1. template \in 1..Len(templates)
    BY TablesAreSequences, SequenceFacts
  <2> QED BY <2>1, BuilderFields DEF BuilderInv, ArenaInside
<1> HIDE DEF id
<1>4. payload.kind = "Instantiate" /\ payload.template = template /\ payload.channel = id
  OBVIOUS
<1> HIDE DEF payload
<1>5. PayloadInside(Builder', payload) /\ payload.kind \in Leaves
  BY <1>1, <1>2, <1>3, <1>4, BuilderFieldsNext DEF PayloadInside, Leaves
<1>6. LeafTree(Builder', meaning', payload) = tree
  <2>1. meaning' = Append(meaning, tree)
    BY <1>1 DEF PushLeaf
  <2>2. templates[template] \in 1..Len(meaning) /\ IsSequence(meaning)
    BY <1>3 DEF BuilderInv
  <2> HIDE DEF tree
  <2>3. meaning'[templates[template]] = meaning[templates[template]]
    BY <2>1, <2>2, AppendFacts
  <2> QED BY <1>1, <1>2, <1>4, <2>3, BuilderFieldsNext DEF LeafTree, tree
<1>7. /\ IsSequence(valueArguments') /\ Grows(valueArguments, valueArguments')
      /\ IsSequence(opaqueCalls') /\ Grows(opaqueCalls, opaqueCalls')
      /\ IsSequence(definitions') /\ Grows(definitions, definitions')
      /\ IsSequence(operations') /\ Grows(operations, operations')
  BY <1>1, TablesAreSequences, GrowsSame
<1> HIDE DEF tree
<1> QED BY <1>1, <1>2, <1>5, <1>6, <1>7, LeafDenotes
\* A loop keeps its body and its count.
LEMMA LoopDenotes ==
    ASSUME BuilderInv, NEW body \in 1..Len(nodes), NEW count, LoopRegion(body, count)
    PROVE  BuilderInv'
<1> DEFINE payload == [kind |-> "Loop", count |-> count]
           new == [kind |-> "Loop", edgeStart |-> Len(edges), edgeCount |-> 1,
                   boundaryStart |-> Len(boundaries), payload |-> Len(payloads) + 1,
                   provenance |-> Len(nodes) + 1]
           n == Len(nodes) + 1
           tree == <<"Loop", meaning[body], count>>
<1>1. /\ payloads' = Append(payloads, payload) /\ nodes' = Append(nodes, new)
      /\ edges' = Append(edges, body) /\ meaning' = Append(meaning, tree)
      /\ UNCHANGED <<boundaries, valueArguments, opaqueCalls, templates, definitions, operations,
                     channels>>
  BY DEF LoopRegion, PushNode, tables
<1>2. /\ new.kind = "Loop" /\ new.edgeStart = Len(edges) /\ new.edgeCount = 1
      /\ new.boundaryStart = Len(boundaries) /\ new.payload = Len(payloads) + 1
      /\ new.provenance = n /\ DOMAIN new = NodeFields
      /\ payload.kind = "Loop" /\ payload.count = count
  BY DEF NodeFields
<1> HIDE DEF new, payload, tree
<1>3. /\ IsSequence(nodes') /\ Grows(nodes, nodes') /\ Len(nodes') = n /\ nodes'[n] = new
      /\ IsSequence(payloads') /\ Grows(payloads, payloads') /\ Len(payloads') = Len(payloads) + 1
      /\ payloads'[Len(payloads) + 1] = payload
      /\ IsSequence(edges') /\ Grows(edges, edges') /\ Len(edges') = Len(edges) + 1
      /\ edges'[Len(edges) + 1] = body
      /\ Len(nodes) \in Nat /\ Len(payloads) \in Nat /\ Len(edges) \in Nat /\ Len(boundaries) \in Nat
  BY <1>1, TablesAreSequences, AppendGrows, AppendFacts, SequenceFacts
<1>4. Sequences(Builder') /\ ArenaGrows(Builder, Builder')
  BY <1>1, <1>3, TablesAreSequences, GrowsSame, BuilderFields, BuilderFieldsNext DEF Sequences, ArenaGrows
<1>5. NodeInside(Builder', new)
  <2>1. new.kind \in Kinds /\ new.kind \notin {"Serial", "Parallel"}
    BY <1>2 DEF Kinds
  <2>2. new.payload \in 1..Len(payloads') /\ payloads'[new.payload].kind = new.kind
    BY <1>2, <1>3
  <2>3. new.edgeStart + new.edgeCount <= Len(edges')
    BY <1>2, <1>3
  <2> QED BY <1>2, <1>3, <2>1, <2>2, <2>3, BuilderFieldsNext DEF NodeInside
<1>6. \A i \in 1..Len(payloads') :
        i \in 1..Len(payloads) \/ PayloadInside(Builder', payloads'[i])
  BY <1>2, <1>3 DEF PayloadInside, Leaves
<1>7. \A k \in 1..Len(edges') : k \in 1..Len(edges) \/ edges'[k] \in 1..Len(nodes)
  BY <1>3
<1>8. tree = Tree(Builder', meaning', n)
  <2>1. Builder'.nodes[n] = new /\ Builder'.payloads[new.payload] = payload /\ Builder'.edges = edges'
    BY <1>2, <1>3, BuilderFieldsNext
  <2>2. Children(Builder', n) = Window(edges', Len(edges), 1)
    BY <1>2, <1>4, <1>5, <2>1, NodeReads
  <2>3. DOMAIN Children(Builder', n) = 1..1 /\ Children(Builder', n)[1] = body
    BY <1>3, <2>2 DEF Window
  <2>4. Below(Builder', meaning', n)[1] = meaning'[body]
    BY <2>3 DEF Below
  <2>5. meaning'[body] = meaning[body]
    <3>1. IsSequence(meaning) /\ body \in 1..Len(meaning)
      BY DEF BuilderInv
    <3> QED BY <1>1, <3>1, AppendFacts
  <2> QED BY <1>2, <2>1, <2>4, <2>5 DEF Tree, tree
<1> QED BY <1>1, <1>2, <1>3, <1>4, <1>5, <1>6, <1>7, <1>8, PushDenotes

\* Publishing a template only extends the list of templates.
LEMMA PublishDenotes ==
    ASSUME BuilderInv, NEW body \in 1..Len(nodes), PublishTemplate(body)
    PROVE  BuilderInv'
<1>1. /\ templates' = Append(templates, body)
      /\ UNCHANGED <<nodes, edges, boundaries, payloads, valueArguments, opaqueCalls, definitions,
                     operations, channels, meaning>>
  BY DEF PublishTemplate
<1>2. /\ IsSequence(templates') /\ Grows(templates, templates') /\ Len(templates') = Len(templates) + 1
      /\ templates'[Len(templates) + 1] = body /\ Len(templates) \in Nat
  BY <1>1, TablesAreSequences, AppendGrows, AppendFacts, SequenceFacts
<1> DEFINE a == Builder
           b == Builder'
<1>3. /\ ArenaInside(a) /\ Sequences(a) /\ a.nodes = nodes /\ a.edges = edges /\ a.payloads = payloads
      /\ a.templates = templates /\ b.nodes = nodes /\ b.edges = edges /\ b.payloads = payloads
      /\ b.templates = templates'
  BY <1>1, BuilderFields, BuilderFieldsNext DEF BuilderInv, ArenaInside
<1>4. Sequences(b) /\ ArenaGrows(a, b)
  BY <1>1, <1>2, TablesAreSequences, GrowsSame, BuilderFields, BuilderFieldsNext DEF Sequences, ArenaGrows
<1>5. IsSequence(meaning) /\ Len(meaning) = Len(nodes) /\ Len(nodes) \in Nat
  BY TablesAreSequences, SequenceFacts DEF BuilderInv
<1> HIDE DEF a, b
<1>6. \A id \in 1..Len(nodes) : NodeInside(b, nodes[id]) /\ Tree(a, meaning, id) = Tree(b, meaning, id)
  BY <1>3, <1>4, NodeGrows, TreeGrows
<1>7. \A i \in 1..Len(payloads) : PayloadInside(b, payloads[i])
  <2>1. \A i \in 1..Len(payloads) : PayloadInside(a, payloads[i])
    BY <1>3 DEF ArenaInside
  <2> QED BY <2>1, <1>3, <1>4, PayloadGrows
<1>8. \A t \in 1..Len(templates') : templates'[t] \in 1..Len(nodes)
  <2> SUFFICES ASSUME NEW t \in 1..Len(templates') PROVE templates'[t] \in 1..Len(nodes)
    OBVIOUS
  <2>1. CASE t \in 1..Len(templates)
    BY <2>1, <1>2, <1>3 DEF Grows, ArenaInside
  <2>2. CASE t = Len(templates) + 1
    BY <2>2, <1>2
  <2> QED BY <2>1, <2>2, <1>2
<1>9. ArenaInside(b)
  BY <1>3, <1>4, <1>6, <1>7, <1>8 DEF ArenaInside
<1> QED BY <1>1, <1>5, <1>6, <1>9 DEF BuilderInv, a, b
-----------------------------------------------------------------------------
(* Compositions. *)

\* The trees composed from the first children, as a function of how many.
Joint(kind, between, n) == IF kind = "Serial" THEN <<between[n - 1]>> ELSE <<>>
PartComposed(kind, trees, between) ==
    CHOOSE T : T = [n \in 1..Len(trees) |->
                      IF n = 1 THEN trees[1]
                      ELSE Compose(kind, T[n - 1], Joint(kind, between, n), trees[n])]

\* The composition of the first n trees, from the one before.
LEMMA CompositionUnfolds ==
    ASSUME NEW kind, NEW trees, NEW between, Len(trees) \in Nat \ {0}
    PROVE  /\ Composed(kind, trees, between) = PartComposed(kind, trees, between)[Len(trees)]
           /\ PartComposed(kind, trees, between)[1] = trees[1]
           /\ \A n \in 2..Len(trees) :
                PartComposed(kind, trees, between)[n] =
                Compose(kind, PartComposed(kind, trees, between)[n - 1], Joint(kind, between, n), trees[n])
<1> DEFINE Is(T, N) == T = [n \in 1..N |-> IF n = 1 THEN trees[1]
                              ELSE Compose(kind, T[n - 1], Joint(kind, between, n), trees[n])]
           bad == {N \in Nat : ~\E T : Is(T, N)}
           P == PartComposed(kind, trees, between)
<1>1. bad = {}
  <2> SUFFICES ASSUME bad # {} PROVE FALSE
    OBVIOUS
  <2>1. PICK x \in bad : \A y \in bad : x <= y
    BY SmallestNumber
  <2>2. x \in Nat /\ ~\E T : Is(T, x)
    BY <2>1
  <2>3. CASE x = 0
    <3> DEFINE T == [n \in 1..0 |-> trees[1]]
               body(n) == IF n = 1 THEN trees[1]
                          ELSE Compose(kind, T[n - 1], Joint(kind, between, n), trees[n])
    <3>0. \A n \in 1..0 : FALSE
      OBVIOUS
    <3>1. Is(T, 0)
      <4> HIDE DEF T
      <4>1. T = [n \in 1..0 |-> trees[1]]
        BY DEF T
      <4>2. \A n \in 1..0 : trees[1] = body(n)
        BY <3>0
      <4>3. [n \in 1..0 |-> trees[1]] = [n \in 1..0 |-> body(n)]
        BY <4>2
      <4> QED BY <4>1, <4>3
    <3> QED BY <2>2, <2>3, <3>1
  <2>4. CASE x # 0
    <3>1. x - 1 \in Nat /\ x - 1 \notin bad
      <4> HIDE DEF bad
      <4>1. x - 1 \in Nat /\ ~(x <= x - 1)
        BY <2>2, <2>4
      <4> QED BY <2>1, <4>1
    <3>2. PICK S : Is(S, x - 1)
      BY <3>1
    <3> DEFINE last == IF x = 1 THEN trees[1]
                       ELSE Compose(kind, S[x - 1], Joint(kind, between, x), trees[x])
               T == [n \in 1..x |-> IF n = x THEN last ELSE S[n]]
    <3>3. ASSUME NEW n \in 1..x
          PROVE  T[n] = IF n = 1 THEN trees[1]
                        ELSE Compose(kind, T[n - 1], Joint(kind, between, n), trees[n])
      <4>1. CASE n = x
        <5>1. n # 1 => n - 1 \in 1..x /\ n - 1 # x
          BY <2>2, <4>1
        <5> QED BY <4>1, <5>1
      <4>2. CASE n # x
        <5>1. n \in 1..(x - 1)
          BY <2>2, <4>2
        <5>2. S[n] = IF n = 1 THEN trees[1]
                     ELSE Compose(kind, S[n - 1], Joint(kind, between, n), trees[n])
          BY <3>2, <5>1
        <5>3. n # 1 => n - 1 \in 1..x /\ n - 1 # x
          BY <2>2, <5>1
        <5> QED BY <4>2, <5>2, <5>3
      <4> QED BY <4>1, <4>2
    <3>4. T = [n \in 1..x |-> T[n]]
      OBVIOUS
    <3> HIDE DEF T
    <3>5. Is(T, x)
      BY <3>3, <3>4
    <3> QED BY <2>2, <3>5
  <2> QED BY <2>3, <2>4
<1>2. \E T : Is(T, Len(trees))
  BY <1>1
<1>3. Is(P, Len(trees))
  BY <1>2 DEF PartComposed
<1>4. Composed(kind, trees, between) = P[Len(trees)]
  BY DEF Composed, PartComposed, Joint
<1> HIDE DEF P, bad
<1>5. P[1] = trees[1] /\ \A n \in 2..Len(trees) :
                            P[n] = Compose(kind, P[n - 1], Joint(kind, between, n), trees[n])
  BY <1>3
<1> QED BY <1>4, <1>5 DEF P

TreesOf(ids) == [k \in 1..Len(ids) |-> meaning[ids[k]]]

\* The trees of a list of ids.
LEMMA TreesOfFacts ==
    ASSUME NEW s, IsSequence(s)
    PROVE  /\ IsSequence(TreesOf(s)) /\ Len(TreesOf(s)) = Len(s)
           /\ \A k \in 1..Len(s) : TreesOf(s)[k] = meaning[s[k]]
<1> DEFINE t == TreesOf(s)
<1>1. Len(s) \in Nat
  BY SequenceFacts
<1>2. t = [k \in 1..Len(s) |-> t[k]] /\ \A k \in 1..Len(s) : t[k] = meaning[s[k]]
  BY DEF TreesOf
<1> HIDE DEF t
<1>3. IsSequence(t) /\ Len(t) = Len(s)
  BY <1>1, <1>2, FunctionSequence
<1> QED BY <1>2, <1>3 DEF t

\* The trees of two lists, one behind the other.
LEMMA TreesOfConcat ==
    ASSUME NEW s, NEW u, IsSequence(s), IsSequence(u)
    PROVE  TreesOf(s \o u) = TreesOf(s) \o TreesOf(u)
<1> DEFINE left == TreesOf(s \o u)
           right == TreesOf(s) \o TreesOf(u)
<1>1. /\ IsSequence(s \o u) /\ Len(s \o u) = Len(s) + Len(u) /\ Len(s) \in Nat /\ Len(u) \in Nat
      /\ \A i \in 1..Len(s) : (s \o u)[i] = s[i]
      /\ \A k \in 1..Len(u) : (s \o u)[Len(s) + k] = u[k]
  BY Concatenation, SequenceFacts
<1>2. /\ IsSequence(left) /\ Len(left) = Len(s) + Len(u)
      /\ \A k \in 1..(Len(s) + Len(u)) : left[k] = meaning[(s \o u)[k]]
  BY <1>1, TreesOfFacts
<1>3. /\ IsSequence(TreesOf(s)) /\ Len(TreesOf(s)) = Len(s)
      /\ IsSequence(TreesOf(u)) /\ Len(TreesOf(u)) = Len(u)
      /\ \A k \in 1..Len(s) : TreesOf(s)[k] = meaning[s[k]]
      /\ \A k \in 1..Len(u) : TreesOf(u)[k] = meaning[u[k]]
  BY TreesOfFacts
<1>4. /\ IsSequence(right) /\ Len(right) = Len(s) + Len(u)
      /\ \A i \in 1..Len(s) : right[i] = meaning[s[i]]
      /\ \A k \in 1..Len(u) : right[Len(s) + k] = meaning[u[k]]
  BY <1>3, Concatenation
<1> HIDE DEF left, right
<1>5. ASSUME NEW k \in 1..(Len(s) + Len(u)) PROVE left[k] = right[k]
  <2>1. CASE k \in 1..Len(s)
    BY <2>1, <1>1, <1>2, <1>4
  <2>2. CASE k \notin 1..Len(s)
    <3> DEFINE j == k - Len(s)
    <3>1. j \in 1..Len(u) /\ k = Len(s) + j
      BY <2>2, <1>1
    <3> HIDE DEF j
    <3>2. left[k] = meaning[(s \o u)[Len(s) + j]] /\ (s \o u)[Len(s) + j] = u[j]
      BY <3>1, <1>1, <1>2
    <3>3. right[Len(s) + j] = meaning[u[j]]
      BY <3>1, <1>4
    <3> QED BY <3>1, <3>2, <3>3
  <2> QED BY <2>1, <2>2
<1>6. left = right
  BY <1>2, <1>4, <1>5, SameSequence
<1> QED BY <1>6 DEF left, right
\* A composition in progress has collected the parts of what is composed so far.
CollectedInv ==
    LET t == PartComposed(work.kind, TreesOf(work.asked), work.between)[work.next - 1]
    IN  /\ Elems(work.kind, t) = TreesOf(work.children)
        /\ Joints(work.kind, t) = work.boundaries
        /\ Len(work.children) >= work.next - 1
        /\ work.next > 2 => t = <<work.kind, TreesOf(work.children), work.boundaries>>
        /\ work.kind = "Serial" => Len(work.boundaries) = Len(work.children) - 1

WorkDenotes ==
    work # NoWork =>
      /\ finished = NotFinished
      /\ 2 <= Len(work.asked) /\ work.next <= Len(work.asked) + 1
      /\ IsSequence(work.children) /\ \A k \in 1..Len(work.children) : work.children[k] \in 1..Len(nodes)
      /\ IsSequence(work.boundaries)
      /\ work.kind = "Parallel" => work.boundaries = <<>>
      /\ work.next = 1 => work.children = <<>> /\ work.boundaries = <<>>
      /\ work.next > 1 => CollectedInv

\* What a child contributes: its own parts if it is of the same kind, otherwise itself.
LEMMA ChildReads ==
    ASSUME BuilderInv, NEW c \in 1..Len(nodes), NEW kind \in {"Serial", "Parallel"}
    PROVE  LET same == nodes[c].kind = kind
               more == IF same THEN Children(Builder, c) ELSE <<c>>
               joints == IF same THEN Boundaries(Builder, c) ELSE <<>>
           IN  /\ IsSequence(more) /\ Len(more) >= 1 /\ \A k \in 1..Len(more) : more[k] \in 1..Len(nodes)
               /\ IsSequence(joints)
               /\ kind = "Serial" => Len(joints) = Len(more) - 1
               /\ kind = "Parallel" => joints = <<>>
               /\ Elems(kind, meaning[c]) = TreesOf(more)
               /\ Joints(kind, meaning[c]) = joints
<1> DEFINE same == nodes[c].kind = kind
           more == IF same THEN Children(Builder, c) ELSE <<c>>
           joints == IF same THEN Boundaries(Builder, c) ELSE <<>>
           n == nodes[c]
           a == Builder
           u == meaning[c]
<1>1. /\ ArenaInside(a) /\ Sequences(a) /\ a.nodes = nodes /\ a.edges = edges
      /\ NodeInside(a, n) /\ u = Tree(a, meaning, c)
  BY BuilderFields DEF BuilderInv, ArenaInside
<1> HIDE DEF a, n, u
<1>2. /\ IsSequence(Children(a, c)) /\ Len(Children(a, c)) = n.edgeCount
      /\ Children(a, c) = Window(edges, n.edgeStart, n.edgeCount)
      /\ IsSequence(Boundaries(a, c))
      /\ n.kind = "Serial" => Len(Boundaries(a, c)) = n.edgeCount - 1
      /\ n.kind # "Serial" => Boundaries(a, c) = <<>>
  BY <1>1, NodeReads DEF n
<1>3. u[1] = n.kind /\ (n.kind \in {"Serial", "Parallel"} => u = <<n.kind, Below(a, meaning, c), Boundaries(a, c)>>)
  BY <1>1, KindOfTree DEF n
<1>4. /\ n.edgeStart \in Nat /\ n.edgeCount \in Nat /\ n.edgeStart + n.edgeCount <= Len(edges)
      /\ n.kind \in {"Serial", "Parallel"} => n.edgeCount >= 2
  BY <1>1 DEF NodeInside
<1>5. CASE same
  <2> DEFINE w == Children(a, c)
  <2>0. n.kind = kind /\ more = w /\ joints = Boundaries(a, c)
    BY <1>5 DEF a, n
  <2>1. ASSUME NEW k \in 1..Len(w) PROVE w[k] \in 1..Len(nodes)
    <3>1. k \in 1..n.edgeCount /\ w[k] = edges[n.edgeStart + k]
      BY <1>2 DEF Window
    <3>2. n.edgeStart + k \in 1..Len(edges)
      <4>1. Len(edges) \in Nat
        BY <1>1, SequenceFacts DEF Sequences
      <4> QED BY <1>4, <3>1, <4>1, OffsetInside
    <3> QED BY <1>1, <3>1, <3>2 DEF ArenaInside
  <2>2. Below(a, meaning, c) = TreesOf(w)
    <3>1. DOMAIN w = 1..Len(w)
      BY <1>2, SequenceFacts
    <3> QED BY <3>1 DEF Below, TreesOf
  <2>3. u = <<kind, TreesOf(w), Boundaries(a, c)>>
    BY <1>3, <2>0, <2>2
  <2>4. Elems(kind, u) = TreesOf(w) /\ Joints(kind, u) = Boundaries(a, c)
    BY <2>3 DEF Elems, Joints
  <2>5. Len(w) >= 1 /\ (kind = "Serial" => Len(Boundaries(a, c)) = Len(w) - 1)
        /\ (kind = "Parallel" => Boundaries(a, c) = <<>>)
    BY <1>2, <1>4, <2>0
  <2> HIDE DEF w, more, joints
  <2> QED BY <1>2, <2>0, <2>1, <2>4, <2>5 DEF w, u, more, joints, a
<1>6. CASE ~same
  <2>0. n.kind # kind /\ more = <<c>> /\ joints = <<>>
    BY <1>6 DEF n
  <2>1. Elems(kind, u) = <<u>> /\ Joints(kind, u) = <<>>
    BY <1>3, <2>0 DEF Elems, Joints
  <2> HIDE DEF more, joints
  <2>2. IsSequence(more) /\ Len(more) = 1 /\ more[1] = c
    <3>1. <<c>> \in Seq({c})
      OBVIOUS
    <3>2. IsSequence(<<c>>)
      BY <3>1, SequenceFrom
    <3> QED BY <2>0, <3>2
  <2>3. TreesOf(more) = <<u>>
    <3>1. TreesOf(more) = [k \in 1..1 |-> meaning[more[k]]]
      BY <2>2 DEF TreesOf
    <3>2. \A k \in 1..1 : k = 1
      OBVIOUS
    <3>3. [k \in 1..1 |-> meaning[more[k]]] = [k \in 1..1 |-> u]
      BY <2>2, <3>2 DEF u
    <3>4. [k \in 1..1 |-> u] = <<u>>
      OBVIOUS
    <3> QED BY <3>1, <3>3, <3>4
  <2>4. IsSequence(joints) /\ Len(joints) = 0
    BY <2>0 DEF IsSequence
  <2>5. \A k \in 1..Len(more) : more[k] \in 1..Len(nodes)
    BY <2>2
  <2> QED BY <2>0, <2>1, <2>2, <2>3, <2>4, <2>5 DEF u, more, joints
<1> QED BY <1>5, <1>6
\* Only the work list and the outcome of finish change.
LEMMA NothingBuilt ==
    ASSUME BuilderInv,
           UNCHANGED <<nodes, edges, boundaries, payloads, valueArguments, opaqueCalls, templates,
                       definitions, operations, channels, meaning>>
    PROVE  BuilderInv'
<1>1. Builder' = Builder
  BY DEF Builder
<1> QED BY <1>1 DEF BuilderInv

\* Nothing is appended.
LEMMA ConcatEmpty ==
    ASSUME NEW s, IsSequence(s)
    PROVE  <<>> \o s = s /\ s \o <<>> = s
<1>1. IsSequence(<<>>) /\ Len(<<>>) = 0 /\ Len(s) \in Nat
  BY SequenceFacts DEF IsSequence
<1>2. /\ IsSequence(<<>> \o s) /\ Len(<<>> \o s) = Len(s)
      /\ \A k \in 1..Len(s) : (<<>> \o s)[0 + k] = s[k]
  BY <1>1, Concatenation
<1>3. \A k \in 1..Len(s) : (<<>> \o s)[k] = s[k]
  BY <1>1, <1>2
<1>4. /\ IsSequence(s \o <<>>) /\ Len(s \o <<>>) = Len(s)
      /\ \A i \in 1..Len(s) : (s \o <<>>)[i] = s[i]
  BY <1>1, Concatenation
<1>5. <<>> \o s = s
  BY <1>2, <1>3, SameSequence
<1>6. s \o <<>> = s
  BY <1>4, SameSequence
<1> QED BY <1>5, <1>6

\* Flattening a child extends what is composed by the child's tree.
LEMMA FlattenDenotes ==
    ASSUME ArenaInv, BuilderInv, WorkDenotes, FlattenChild
    PROVE  BuilderInv' /\ WorkDenotes'
<1> DEFINE c == work.asked[work.next]
           same == nodes[c].kind = work.kind
           more == IF same THEN Children(Builder, c) ELSE <<c>>
           joints == IF same THEN Boundaries(Builder, c) ELSE <<>>
           joint == IF work.kind = "Serial" /\ work.next > 1
                    THEN <<work.between[work.next - 1]>> ELSE <<>>
           kind == work.kind
           trees == TreesOf(work.asked)
           T == PartComposed(kind, trees, work.between)
<1>1. /\ work # NoWork /\ work.next <= Len(work.asked)
      /\ work' = [work EXCEPT !.next = @ + 1, !.children = @ \o more,
                              !.boundaries = @ \o joint \o joints]
      /\ UNCHANGED <<nodes, edges, boundaries, payloads, valueArguments, opaqueCalls, templates,
                     definitions, operations, channels, meaning, finished>>
  BY DEF FlattenChild, tables
<1>2. /\ DOMAIN work = WorkFields /\ kind \in {"Serial", "Parallel"} /\ work.next \in Nat \ {0}
      /\ work.asked \in Seq(Nat) /\ \A k \in 1..Len(work.asked) : work.asked[k] \in 1..Len(nodes)
  BY <1>1 DEF ArenaInv, WorkInv
<1>3. /\ finished = NotFinished /\ 2 <= Len(work.asked)
      /\ IsSequence(work.children) /\ \A k \in 1..Len(work.children) : work.children[k] \in 1..Len(nodes)
      /\ IsSequence(work.boundaries)
      /\ kind = "Parallel" => work.boundaries = <<>>
      /\ work.next = 1 => work.children = <<>> /\ work.boundaries = <<>>
      /\ work.next > 1 => CollectedInv
  BY <1>1 DEF WorkDenotes
<1>4. IsSequence(work.asked) /\ Len(work.asked) \in Nat /\ c \in 1..Len(nodes)
  BY <1>1, <1>2, SequenceFrom
<1>5. /\ IsSequence(more) /\ Len(more) >= 1 /\ \A k \in 1..Len(more) : more[k] \in 1..Len(nodes)
      /\ IsSequence(joints)
      /\ kind = "Serial" => Len(joints) = Len(more) - 1
      /\ kind = "Parallel" => joints = <<>>
      /\ Elems(kind, meaning[c]) = TreesOf(more)
      /\ Joints(kind, meaning[c]) = joints
  BY <1>2, <1>4, ChildReads
<1>6. IsSequence(joint) /\ (kind = "Serial" /\ work.next > 1 => Len(joint) = 1)
      /\ (work.next = 1 \/ kind = "Parallel" => joint = <<>>)
  <2>1. IsSequence(<<>>)
    BY DEF IsSequence
  <2>2. ASSUME NEW x PROVE IsSequence(<<x>>) /\ Len(<<x>>) = 1
    <3>1. <<x>> \in Seq({x})
      OBVIOUS
    <3>2. IsSequence(<<x>>)
      BY <3>1, SequenceFrom
    <3> QED BY <3>2
  <2>3. IsSequence(<<work.between[work.next - 1]>>) /\ Len(<<work.between[work.next - 1]>>) = 1
    BY <2>2
  <2> QED BY <2>1, <2>3
<1>7. trees[work.next] = meaning[c] /\ Len(trees) = Len(work.asked) /\ Len(trees) \in Nat \ {0}
  BY <1>1, <1>2, <1>3, <1>4, TreesOfFacts
<1>8. /\ T[1] = trees[1]
      /\ work.next > 1 => T[work.next] = Compose(kind, T[work.next - 1],
                                                 Joint(kind, work.between, work.next), trees[work.next])
  <2> HIDE DEF trees, kind
  <2>1. work.next > 1 => work.next \in 2..Len(trees)
    BY <1>1, <1>2, <1>7
  <2> QED BY <1>7, <2>1, CompositionUnfolds
<1>9. work.next > 1 => Joint(kind, work.between, work.next) = joint
  BY <1>2 DEF Joint
<1> HIDE DEF c, same, more, joints, joint, trees, T
<1>10. /\ DOMAIN work' = WorkFields /\ work'.kind = kind /\ work'.asked = work.asked
       /\ work'.between = work.between /\ work'.next = work.next + 1
       /\ work'.children = work.children \o more
       /\ work'.boundaries = work.boundaries \o joint \o joints
  BY <1>1, <1>2 DEF WorkFields
<1>11. BuilderInv'
  BY <1>1, NothingBuilt
<1> DEFINE children == work.children \o more
           bounds == work.boundaries \o joint \o joints
<1>12. /\ IsSequence(children) /\ Len(children) = Len(work.children) + Len(more)
       /\ Len(work.children) \in Nat /\ Len(more) \in Nat
       /\ \A i \in 1..Len(work.children) : children[i] = work.children[i]
       /\ \A k \in 1..Len(more) : children[Len(work.children) + k] = more[k]
  BY <1>3, <1>5, Concatenation, SequenceFacts
<1>13. /\ IsSequence(bounds) /\ Len(bounds) = Len(work.boundaries) + Len(joint) + Len(joints)
       /\ Len(work.boundaries) \in Nat /\ Len(joint) \in Nat /\ Len(joints) \in Nat
  <2>1. IsSequence(work.boundaries \o joint)
        /\ Len(work.boundaries \o joint) = Len(work.boundaries) + Len(joint)
    BY <1>3, <1>6, Concatenation
  <2> QED BY <2>1, <1>3, <1>5, <1>6, Concatenation, SequenceFacts
<1>14. ASSUME NEW k \in 1..Len(children) PROVE children[k] \in 1..Len(nodes)
  <2> HIDE DEF children
  <2>1. CASE k \in 1..Len(work.children)
    BY <2>1, <1>3, <1>12
  <2>2. CASE k \notin 1..Len(work.children)
    <3> DEFINE j == k - Len(work.children)
    <3>1. j \in 1..Len(more) /\ k = Len(work.children) + j
      BY <2>2, <1>12
    <3> HIDE DEF j
    <3>2. children[k] = more[j]
      BY <3>1, <1>12
    <3> QED BY <3>1, <3>2, <1>5
  <2> QED BY <2>1, <2>2
<1>15. kind = "Parallel" => bounds = <<>>
  <2>1. IsSequence(<<>>)
    BY DEF IsSequence
  <2> QED BY <1>3, <1>5, <1>6, <2>1, ConcatEmpty
<1>16. TreesOf(children) = TreesOf(work.children) \o TreesOf(more)
  BY <1>3, <1>5, TreesOfConcat
<1>17. /\ Elems(kind, T[work.next]) = TreesOf(children)
       /\ Joints(kind, T[work.next]) = bounds
       /\ Len(children) >= work.next
       /\ work.next > 1 => T[work.next] = <<kind, TreesOf(children), bounds>>
       /\ kind = "Serial" => Len(bounds) = Len(children) - 1
  <2>1. CASE work.next = 1
    <3>1. children = more /\ bounds = joints
      <4>1. work.children = <<>> /\ work.boundaries = <<>> /\ joint = <<>>
        BY <2>1, <1>3, <1>6
      <4>2. IsSequence(<<>>)
        BY DEF IsSequence
      <4>3. <<>> \o more = more /\ <<>> \o joints = joints /\ <<>> \o <<>> = <<>>
        BY <1>5, <4>2, ConcatEmpty
      <4> QED BY <4>1, <4>3
    <3>2. T[work.next] = meaning[c]
      BY <2>1, <1>7, <1>8
    <3> HIDE DEF children, bounds
    <3>3. Len(children) >= work.next /\ ~(work.next > 1)
      BY <2>1, <3>1, <1>5
    <3> QED BY <3>1, <3>2, <3>3, <1>5
  <2>2. CASE work.next > 1
    <3> DEFINE t == T[work.next - 1]
    <3>1. /\ Elems(kind, t) = TreesOf(work.children) /\ Joints(kind, t) = work.boundaries
          /\ Len(work.children) >= work.next - 1
          /\ kind = "Serial" => Len(work.boundaries) = Len(work.children) - 1
      BY <2>2, <1>3 DEF CollectedInv, T, trees
    <3>2. T[work.next] = Compose(kind, t, joint, meaning[c])
      BY <2>2, <1>7, <1>8, <1>9
    <3> HIDE DEF t, kind
    <3>3. T[work.next] = <<kind, TreesOf(work.children) \o TreesOf(more), bounds>>
      BY <3>1, <3>2, <1>5 DEF Compose
    <3>4. T[work.next] = <<kind, TreesOf(children), bounds>>
      BY <3>3, <1>16
    <3> HIDE DEF children, bounds
    <3>5. Elems(kind, T[work.next]) = TreesOf(children) /\ Joints(kind, T[work.next]) = bounds
      BY <3>4 DEF Elems, Joints
    <3>6. Len(children) >= work.next
      BY <1>2, <1>5, <1>12, <3>1
    <3>7. kind = "Serial" => Len(bounds) = Len(children) - 1
      <4> SUFFICES ASSUME kind = "Serial" PROVE Len(bounds) = Len(children) - 1
        OBVIOUS
      <4>1. Len(joint) = 1 /\ Len(joints) = Len(more) - 1 /\ Len(work.boundaries) = Len(work.children) - 1
        BY <2>2, <1>5, <1>6, <3>1
      <4> QED BY <4>1, <1>12, <1>13
    <3> QED BY <3>4, <3>5, <3>6, <3>7
  <2>3. work.next = 1 \/ work.next > 1
    <3>1. work.next \in Nat \ {0}
      BY <1>2
    <3> QED BY <3>1
  <2> QED BY <2>1, <2>2, <2>3
<1> HIDE DEF children, bounds
<1>18. /\ work'.children = children /\ work'.boundaries = bounds
       /\ TreesOf(work.asked)' = trees /\ TreesOf(work.children)' = TreesOf(children)
  <2>1. meaning' = meaning
    BY <1>1
  <2>2. work'.children = children /\ work'.boundaries = bounds /\ work'.asked = work.asked
    BY <1>10 DEF children, bounds
  <2>3. TreesOf(work.asked)' = trees
    BY <2>1, <2>2 DEF TreesOf, trees
  <2>4. TreesOf(work.children)' = TreesOf(children)
    BY <2>1, <2>2 DEF TreesOf
  <2> QED BY <2>2, <2>3, <2>4
<1>19. work'.next - 1 = work.next /\ work'.next > 1 /\ (work'.next > 2 => work.next > 1)
       /\ work'.next <= Len(work.asked) + 1 /\ work'.next # 1
  <2>1. /\ work.next \in Nat \ {0} /\ work.next <= Len(work.asked) /\ Len(work.asked) \in Nat
        /\ work'.next = work.next + 1
    BY <1>1, <1>2, <1>4, <1>10
  <2> QED BY <2>1
<1>20. CollectedInv'
  <2>1. PartComposed(work'.kind, TreesOf(work.asked)', work'.between)[work'.next - 1] = T[work.next]
    BY <1>10, <1>18, <1>19 DEF T
  <2> HIDE DEF kind
  <2> QED BY <1>10, <1>17, <1>18, <1>19, <2>1 DEF CollectedInv
<1>21. WorkDenotes'
  BY <1>1, <1>3, <1>10, <1>12, <1>13, <1>14, <1>15, <1>18, <1>19, <1>20 DEF WorkDenotes
<1> QED BY <1>11, <1>21
\* The node pushed for a composition stores what was composed.
LEMMA CompositionDenotes ==
    ASSUME ArenaInv, BuilderInv, WorkDenotes, PushComposition
    PROVE  BuilderInv'
<1> DEFINE kind == work.kind
           children == work.children
           bounds == work.boundaries
           trees == TreesOf(work.asked)
           new == [kind |-> kind, edgeStart |-> Len(edges), edgeCount |-> Len(children),
                   boundaryStart |-> Len(boundaries), payload |-> 0, provenance |-> Len(nodes) + 1]
           n == Len(nodes) + 1
           tree == Composed(kind, trees, work.between)
<1>1. /\ work # NoWork /\ work.next > Len(work.asked)
      /\ edges' = edges \o children /\ boundaries' = boundaries \o bounds /\ nodes' = Append(nodes, new)
      /\ UNCHANGED <<payloads, valueArguments, opaqueCalls, templates, definitions, operations, channels>>
  BY DEF PushComposition, PushNode, tables
<1>2. /\ kind \in {"Serial", "Parallel"} /\ work.next \in Nat \ {0}
      /\ work.asked \in Seq(Nat) /\ \A k \in 1..Len(work.asked) : work.asked[k] \in 1..Len(nodes)
  BY <1>1 DEF ArenaInv, WorkInv
<1>3. /\ 2 <= Len(work.asked) /\ work.next <= Len(work.asked) + 1
      /\ IsSequence(children) /\ \A k \in 1..Len(children) : children[k] \in 1..Len(nodes)
      /\ IsSequence(bounds)
      /\ kind = "Parallel" => bounds = <<>>
      /\ work.next > 1 => CollectedInv
  BY <1>1 DEF WorkDenotes
<1>4. IsSequence(work.asked) /\ Len(work.asked) \in Nat
  BY <1>2, SequenceFrom
<1>5. work.next - 1 = Len(work.asked) /\ work.next > 2 /\ work.next > 1
  <2>1. /\ work.next \in Nat \ {0} /\ Len(work.asked) \in Nat /\ 2 <= Len(work.asked)
        /\ work.next > Len(work.asked) /\ work.next <= Len(work.asked) + 1
    BY <1>1, <1>2, <1>3, <1>4
  <2> QED BY <2>1
<1>6. meaning' = Append(meaning, tree)
  <2>1. DOMAIN work.asked = 1..Len(work.asked)
    BY <1>4, SequenceFacts
  <2>2. [i \in DOMAIN work.asked |-> meaning[work.asked[i]]] = trees
    BY <2>1 DEF TreesOf
  <2> QED BY <2>2 DEF PushComposition
<1>7. Len(trees) = Len(work.asked) /\ Len(trees) \in Nat \ {0}
  BY <1>3, <1>4, TreesOfFacts
<1>8. /\ tree = <<kind, TreesOf(children), bounds>> /\ Len(children) >= 2
      /\ kind = "Serial" => Len(bounds) = Len(children) - 1
  <2>1. tree = PartComposed(kind, trees, work.between)[Len(trees)]
    BY <1>7, CompositionUnfolds
  <2>2. CollectedInv
    BY <1>3, <1>5
  <2>3. Len(children) \in Nat
    BY <1>3, SequenceFacts
  <2> HIDE DEF trees, tree
  <2>4. tree = PartComposed(kind, TreesOf(work.asked), work.between)[work.next - 1]
    BY <2>1, <1>5, <1>7 DEF trees
  <2>5. /\ tree = <<kind, TreesOf(children), bounds>> /\ Len(children) >= work.next - 1
        /\ kind = "Serial" => Len(bounds) = Len(children) - 1
    BY <2>2, <2>4, <1>5 DEF CollectedInv
  <2>6. Len(children) >= 2
    BY <2>3, <2>5, <1>3, <1>4, <1>5
  <2> QED BY <2>5, <2>6
<1>9. /\ new.kind = kind /\ new.edgeStart = Len(edges) /\ new.edgeCount = Len(children)
      /\ new.boundaryStart = Len(boundaries) /\ new.payload = 0
      /\ new.provenance = n /\ DOMAIN new = NodeFields
  BY DEF NodeFields
<1> HIDE DEF new, trees, tree, kind, children, bounds
<1>10. /\ IsSequence(nodes') /\ Grows(nodes, nodes') /\ Len(nodes') = n /\ nodes'[n] = new
       /\ Len(nodes) \in Nat /\ IsSequence(payloads) /\ Len(payloads) \in Nat
  BY <1>1, TablesAreSequences, AppendGrows, AppendFacts, SequenceFacts
<1>11. /\ IsSequence(edges') /\ Grows(edges, edges') /\ Len(edges') = Len(edges) + Len(children)
       /\ Len(edges) \in Nat /\ Len(children) \in Nat
       /\ Slice(edges', Len(edges), Len(children)) = children
       /\ \A k \in 1..Len(children) : edges'[Len(edges) + k] = children[k]
  BY <1>1, <1>3, TablesAreSequences, ConcatGrows, Concatenation
<1>12. /\ IsSequence(boundaries') /\ Grows(boundaries, boundaries')
       /\ Len(boundaries) \in Nat /\ Len(bounds) \in Nat
       /\ Len(boundaries) + Len(bounds) <= Len(boundaries')
       /\ Slice(boundaries', Len(boundaries), Len(bounds)) = bounds
  BY <1>1, <1>3, TablesAreSequences, ConcatGrows
<1>13. Sequences(Builder') /\ ArenaGrows(Builder, Builder')
  BY <1>1, <1>10, <1>11, <1>12, TablesAreSequences, GrowsSame, BuilderFields, BuilderFieldsNext
     DEF Sequences, ArenaGrows
<1>14. NodeInside(Builder', new)
  <2>1. new.kind \in Kinds /\ new.kind \in {"Serial", "Parallel"}
    BY <1>2, <1>9 DEF Kinds
  <2>2. new.edgeStart + new.edgeCount <= Len(edges')
    BY <1>9, <1>11
  <2>3. new.kind = "Serial" => new.boundaryStart + (new.edgeCount - 1) <= Len(boundaries')
    BY <1>8, <1>9, <1>12
  <2> QED BY <1>8, <1>9, <1>11, <1>12, <2>1, <2>2, <2>3, BuilderFieldsNext DEF NodeInside
<1>15. \A k \in 1..Len(edges') : k \in 1..Len(edges) \/ edges'[k] \in 1..Len(nodes)
  <2> SUFFICES ASSUME NEW k \in 1..Len(edges'), k \notin 1..Len(edges) PROVE edges'[k] \in 1..Len(nodes)
    OBVIOUS
  <2> DEFINE j == k - Len(edges)
  <2>1. j \in 1..Len(children) /\ k = Len(edges) + j
    BY <1>11
  <2> HIDE DEF j
  <2>2. edges'[k] = children[j]
    BY <2>1, <1>11
  <2> QED BY <2>1, <2>2, <1>3
<1>16. tree = Tree(Builder', meaning', n)
  <2> DEFINE b == Builder'
  <2>1. b.nodes[n] = new /\ b.edges = edges' /\ b.boundaries = boundaries'
    BY <1>10, BuilderFieldsNext
  <2> HIDE DEF b
  <2>2. Children(b, n) = children
    BY <1>9, <1>11, <2>1 DEF Children
  <2>3. Below(b, meaning', n) = TreesOf(children)
    <3>1. DOMAIN children = 1..Len(children)
      BY <1>3, SequenceFacts
    <3>2. IsSequence(meaning) /\ Len(meaning) = Len(nodes)
      BY DEF BuilderInv
    <3>3. \A i \in 1..Len(meaning) : meaning'[i] = meaning[i]
      BY <1>6, <3>2, AppendFacts
    <3>4. \A k \in 1..Len(children) : meaning'[children[k]] = meaning[children[k]]
      BY <1>3, <3>2, <3>3
    <3> QED BY <2>2, <3>1, <3>4 DEF Below, TreesOf
  <2>4. Boundaries(b, n) = bounds
    <3>1. CASE kind = "Serial"
      <4>1. BoundaryCount(new) = Len(bounds)
        BY <3>1, <1>8, <1>9, <1>11 DEF BoundaryCount
      <4> QED BY <3>1, <4>1, <1>9, <1>12, <2>1 DEF Boundaries
    <3>2. CASE kind = "Parallel"
      BY <3>2, <1>3, <1>9, <2>1 DEF Boundaries
    <3> QED BY <3>1, <3>2, <1>2
  <2>5. NodeInside(b, b.nodes[n])
    BY <1>14, <2>1 DEF b
  <2>6. Tree(b, meaning', n) = <<kind, Below(b, meaning', n), Boundaries(b, n)>>
    BY <1>2, <1>9, <2>1, <2>5, KindOfTree
  <2>7. Tree(b, meaning', n) = tree
    BY <1>8, <2>3, <2>4, <2>6
  <2> QED BY <2>7 DEF b
<1>17. \A i \in 1..Len(payloads') :
         i \in 1..Len(payloads) \/ PayloadInside(Builder', payloads'[i])
  BY <1>1
<1> QED BY <1>1, <1>6, <1>9, <1>10, <1>13, <1>14, <1>15, <1>16, <1>17, PushDenotes

\* A composition that begins has collected nothing yet.
LEMMA BeginDenotes ==
    ASSUME ArenaInv, BuilderInv, NEW kind, NEW children \in ChildLists, NEW between,
           BeginComposition(kind, children, between)
    PROVE  BuilderInv' /\ WorkDenotes'
<1>1. /\ finished = NotFinished /\ Len(children) >= 2
      /\ work' = [kind |-> kind, asked |-> children, between |-> between, next |-> 1,
                  children |-> <<>>, boundaries |-> <<>>]
      /\ UNCHANGED <<nodes, edges, boundaries, payloads, valueArguments, opaqueCalls, templates,
                     definitions, operations, channels, meaning, finished>>
  BY DEF BeginComposition, Building, tables
<1>2. /\ work'.kind = kind /\ work'.asked = children /\ work'.next = 1 /\ work'.children = <<>>
      /\ work'.boundaries = <<>>
  BY <1>1
<1>3. IsSequence(<<>>) /\ Len(<<>>) = 0
  BY DEF IsSequence
<1>4. Len(children) \in Nat
  <2>1. PICK n \in 2..MaxChildren : children \in [1..n -> Ids]
    BY DEF ChildLists
  <2>2. n \in Nat
    BY <2>1, ArenaAssumption DEF ArenaAssumption
  <2> QED BY <2>1, <2>2, FunctionIsSequence
<1>5. WorkDenotes'
  BY <1>1, <1>2, <1>3, <1>4 DEF WorkDenotes
<1> QED BY <1>1, <1>5, NothingBuilt

\* Everything the builder does keeps what it has stored.
DenotesInv == BuilderInv /\ WorkDenotes

\* An empty builder denotes nothing.
LEMMA InitDenotes == Init => DenotesInv
<1> SUFFICES ASSUME Init PROVE DenotesInv
  OBVIOUS
<1>1. IsSequence(<<>>) /\ Len(<<>>) = 0
  BY DEF IsSequence
<1>2. ArenaInside(Builder)
  BY <1>1, BuilderFields DEF Init, ArenaInside, Sequences
<1> QED BY <1>1, <1>2 DEF Init, DenotesInv, BuilderInv, WorkDenotes

\* Every method keeps what the ids denote and what has been collected.
LEMMA StepDenotes == ArenaInv /\ DenotesInv /\ [Next]_vars => DenotesInv'
<1> SUFFICES ASSUME ArenaInv, DenotesInv, [Next]_vars PROVE DenotesInv'
  OBVIOUS
<1>0. BuilderInv /\ WorkDenotes
  BY DEF DenotesInv
<1>1. ASSUME NEW d, NEW args \in Arguments, DefinitionRef(d, args) PROVE DenotesInv'
  <2>1. work' = NoWork
    BY <1>1 DEF DefinitionRef, Building, PushLeaf
  <2> QED BY <1>0, <1>1, <2>1, DefinitionRefDenotes DEF DenotesInv, WorkDenotes
<1>2. ASSUME NEW o, NEW args \in Arguments, Atomic(o, args) PROVE DenotesInv'
  <2>1. work' = NoWork
    BY <1>2 DEF Atomic, Building, PushLeaf
  <2> QED BY <1>0, <1>2, <2>1, AtomicDenotes DEF DenotesInv, WorkDenotes
<1>3. ASSUME NEW d, NEW calls \in BoardCalls, Opaque(d, calls) PROVE DenotesInv'
  <2>1. work' = NoWork
    BY <1>3 DEF Opaque, Building, PushLeaf
  <2> QED BY <1>0, <1>3, <2>1, OpaqueDenotes DEF DenotesInv, WorkDenotes
<1>4. ASSUME NEW d, NEW s, TimeDisplacement(d, s) PROVE DenotesInv'
  <2>1. work' = NoWork
    BY <1>4 DEF TimeDisplacement, Building, PushLeaf
  <2> QED BY <1>0, <1>4, <2>1, WaitDenotes DEF DenotesInv, WorkDenotes
<1>5. ASSUME NEW t \in DOMAIN templates, NEW c, Instantiate(t, c) PROVE DenotesInv'
  <2>1. work' = NoWork
    BY <1>5 DEF Instantiate, Building, PushLeaf
  <2> QED BY <1>0, <1>5, <2>1, InstantiateDenotes DEF DenotesInv, WorkDenotes
<1>6. ASSUME NEW id \in Ids, PublishTemplate(id) PROVE DenotesInv'
  <2>1. work' = NoWork
    BY <1>6 DEF PublishTemplate, Building
  <2> QED BY <1>0, <1>6, <2>1, PublishDenotes DEF DenotesInv, WorkDenotes, Ids
<1>7. ASSUME NEW id \in Ids, NEW c, LoopRegion(id, c) PROVE DenotesInv'
  <2>1. work' = NoWork
    BY <1>7 DEF LoopRegion, Building
  <2> QED BY <1>0, <1>7, <2>1, LoopDenotes DEF DenotesInv, WorkDenotes, Ids
<1>8. CASE Compositions
  BY <1>0, <1>8, BeginDenotes DEF Compositions, DenotesInv
<1>9. CASE FlattenChild
  BY <1>0, <1>9, FlattenDenotes DEF DenotesInv
<1>10. CASE PushComposition
  <2>1. work' = NoWork
    BY <1>10 DEF PushComposition
  <2> QED BY <1>0, <1>10, <2>1, CompositionDenotes DEF DenotesInv, WorkDenotes
<1>11. ASSUME NEW id, Finish(id) PROVE DenotesInv'
  <2>1. /\ work' = NoWork
        /\ UNCHANGED <<nodes, edges, boundaries, payloads, valueArguments, opaqueCalls, templates,
                       definitions, operations, channels, meaning>>
    BY <1>11 DEF Finish, Building, tables
  <2> QED BY <1>0, <2>1, NothingBuilt DEF DenotesInv, WorkDenotes
<1>12. CASE UNCHANGED vars
  <2>1. BuilderInv'
    BY <1>0, <1>12, NothingBuilt DEF vars
  <2>2. WorkDenotes'
    BY <1>0, <1>12 DEF vars, WorkDenotes, CollectedInv, TreesOf
  <2> QED BY <2>1, <2>2 DEF DenotesInv
<1> QED BY <1>1, <1>2, <1>3, <1>4, <1>5, <1>6, <1>7, <1>8, <1>9, <1>10, <1>11, <1>12 DEF Next

\* Both invariants hold of every behaviour.
LEMMA DenotesInvariant == Spec => [](ArenaInv /\ DenotesInv)
BY InitArena, StepArena, InitDenotes, StepDenotes, PTL DEF Spec

\* Every id handed out denotes what was asked for when it was built, for any number of
\* nodes, templates and children: no later append moves its slices or names, and flattening
\* neither loses a child nor misaligns a boundary (MorphismArenaBuilder).
THEOREM BuilderFaithful == Spec => []BuilderDenotes
<1>1. ArenaInv /\ DenotesInv => BuilderDenotes
  <2> SUFFICES ASSUME ArenaInv, DenotesInv PROVE Denotation(Builder) = meaning
    BY DEF BuilderDenotes
  <2>1. /\ ArenaInside(Builder) /\ IsSequence(meaning) /\ Len(meaning) = Len(nodes)
        /\ \A id \in 1..Len(nodes) : meaning[id] = Tree(Builder, meaning, id)
    BY DEF DenotesInv, BuilderInv
  <2>2. Precede(nodes, edges) /\ TemplatesPrecede(nodes, payloads, templates)
    BY DEF ArenaInv, ChildrenPrecede
  <2>3. meaning = [id \in 1..Len(nodes) |-> meaning[id]]
    BY <2>1, SequenceFacts
  <2> QED BY <2>1, <2>2, <2>3, BuilderFields, DenotationIs
<1> QED BY <1>1, DenotesInvariant, PTL
-----------------------------------------------------------------------------
(* finish. *)

\* Ids are renumbered by counting the nodes that are kept up to them.
LEMMA RemapStep ==
    ASSUME NEW N \in Nat, NEW kept \in SUBSET (1..N), NEW n \in 1..N
    PROVE  /\ Remap(kept, n) \in Nat /\ Remap(kept, n - 1) \in Nat
           /\ Remap(kept, n) = IF n \in kept THEN Remap(kept, n - 1) + 1 ELSE Remap(kept, n - 1)
<1> DEFINE A == {j \in kept : j <= n - 1}
           B == {j \in kept : j <= n}
<1>1. IsFiniteSet(1..N)
  BY FS_Interval
<1>2. A \subseteq 1..N /\ B \subseteq 1..N
  OBVIOUS
<1>3. IsFiniteSet(A) /\ IsFiniteSet(B)
  <2> HIDE DEF A, B
  <2> QED BY <1>1, <1>2, FS_Subset
<1>4. n \notin A
  OBVIOUS
<1>5. B = IF n \in kept THEN A \cup {n} ELSE A
  <2>1. \A j \in kept : j \in Int /\ (j <= n <=> j <= n - 1 \/ j = n)
    OBVIOUS
  <2>2. n <= n
    OBVIOUS
  <2>3. CASE n \in kept
    BY <2>1, <2>2, <2>3
  <2>4. CASE n \notin kept
    BY <2>1, <2>4
  <2> QED BY <2>3, <2>4
<1> HIDE DEF A, B
<1>6. Cardinality(A) \in Nat /\ Cardinality(B) \in Nat /\ Cardinality(A \cup {n}) = Cardinality(A) + 1
  BY <1>3, <1>4, FS_CardinalityType, FS_AddElement
<1>7. Remap(kept, n) = Cardinality(B) /\ Remap(kept, n - 1) = Cardinality(A)
  BY DEF Remap, A, B
<1> QED BY <1>5, <1>6, <1>7

\* No node is kept before the first.
LEMMA RemapZero ==
    ASSUME NEW N \in Nat, NEW kept \in SUBSET (1..N)
    PROVE  Remap(kept, 0) = 0
<1>1. {j \in kept : j <= 0} = {}
  <2>1. \A j \in kept : ~(j <= 0)
    OBVIOUS
  <2> QED BY <2>1
<1>2. Cardinality({}) = 0
  BY FS_EmptySet
<1> QED BY <1>1, <1>2 DEF Remap

\* Ids are renumbered in order.
LEMMA RemapGrows ==
    ASSUME NEW N \in Nat, NEW kept \in SUBSET (1..N), NEW i \in 0..N, NEW j \in 0..N, i <= j
    PROVE  Remap(kept, i) \in Nat /\ Remap(kept, j) \in Nat /\ Remap(kept, i) <= Remap(kept, j)
<1> DEFINE A == {x \in kept : x <= i}
           B == {x \in kept : x <= j}
<1>1. IsFiniteSet(1..N)
  BY FS_Interval
<1>2. B \subseteq 1..N /\ A \subseteq B
  <2>1. \A x \in kept : x <= i => x <= j
    OBVIOUS
  <2> QED BY <2>1
<1> HIDE DEF A, B
<1>3. IsFiniteSet(B)
  BY <1>1, <1>2, FS_Subset
<1>4. IsFiniteSet(A) /\ Cardinality(A) <= Cardinality(B)
  BY <1>2, <1>3, FS_Subset
<1>5. Cardinality(A) \in Nat /\ Cardinality(B) \in Nat
  BY <1>3, <1>4, FS_CardinalityType
<1> QED BY <1>4, <1>5 DEF Remap, A, B

\* A kept node gets a larger id than every node before it.
LEMMA RemapStrict ==
    ASSUME NEW N \in Nat, NEW kept \in SUBSET (1..N), NEW j \in kept
    PROVE  /\ Remap(kept, j) \in 1..Remap(kept, N)
           /\ \A i \in 0..N : i < j => Remap(kept, i) \in Nat /\ Remap(kept, i) < Remap(kept, j)
<1>1. j \in 1..N /\ j - 1 \in 0..N /\ j \in 0..N /\ N \in 0..N
  OBVIOUS
<1>2. Remap(kept, j) = Remap(kept, j - 1) + 1 /\ Remap(kept, j - 1) \in Nat
  BY <1>1, RemapStep
<1>3. Remap(kept, N) \in Nat /\ Remap(kept, j) <= Remap(kept, N)
  BY <1>1, RemapGrows
<1>4. ASSUME NEW i \in 0..N, i < j PROVE Remap(kept, i) \in Nat /\ Remap(kept, i) < Remap(kept, j)
  <2>1. i <= j - 1
    BY <1>1, <1>4
  <2>2. Remap(kept, i) \in Nat /\ Remap(kept, i) <= Remap(kept, j - 1)
    BY <1>1, <2>1, RemapGrows
  <2> QED BY <1>2, <2>2
<1> QED BY <1>2, <1>3, <1>4

\* What the marking keeps: the root, the templates and all children of what it keeps, and
\* nothing but them.
LEMMA ReachableFacts ==
    ASSUME BuilderInv, NEW id \in 1..Len(nodes)
    PROVE  LET kept == Reachable(id)
           IN  /\ kept \subseteq 1..Len(nodes) /\ id \in kept /\ Range(templates) \subseteq kept
               /\ \A j \in kept : Range(Children(Builder, j)) \subseteq kept
               /\ \A j \in kept : \/ j = id \/ j \in Range(templates)
                                  \/ \E p \in kept : j \in Range(Children(Builder, p))
<1> DEFINE kept == Reachable(id)
<1>1. DOMAIN nodes = 1..Len(nodes)
  BY TablesAreSequences, SequenceFacts
<1>2. \A j : j \in kept <=> /\ j \in 1..Len(nodes)
                            /\ \A marked \in SUBSET (1..Len(nodes)) : Closed(id, marked) => j \in marked
  BY <1>1 DEF Reachable
<1> HIDE DEF kept
<1>3. Range(templates) \subseteq 1..Len(nodes)
  <2>1. \A t \in 1..Len(templates) : templates[t] \in 1..Len(nodes)
    BY BuilderFields DEF BuilderInv, ArenaInside
  <2>2. DOMAIN templates = 1..Len(templates)
    BY TablesAreSequences, SequenceFacts
  <2> QED BY <2>1, <2>2 DEF Range
<1>4. ASSUME NEW j \in 1..Len(nodes) PROVE Range(Children(Builder, j)) \subseteq 1..Len(nodes)
  <2> DEFINE n == nodes[j]
             w == Children(Builder, j)
  <2>1. /\ Sequences(Builder) /\ NodeInside(Builder, Builder.nodes[j]) /\ Builder.nodes[j] = n
        /\ Builder.edges = edges /\ \A k \in 1..Len(edges) : edges[k] \in 1..Len(nodes)
    BY BuilderFields DEF BuilderInv, ArenaInside
  <2>2. w = Window(edges, n.edgeStart, n.edgeCount)
    BY <2>1, NodeReads
  <2>3. n.edgeStart \in Nat /\ n.edgeCount \in Nat /\ n.edgeStart + n.edgeCount <= Len(edges)
    BY <2>1 DEF NodeInside
  <2>4. Len(edges) \in Nat
    BY TablesAreSequences, SequenceFacts
  <2> HIDE DEF n, w
  <2>5. ASSUME NEW k \in DOMAIN w PROVE w[k] \in 1..Len(nodes)
    <3>1. k \in 1..n.edgeCount /\ w[k] = edges[n.edgeStart + k]
      BY <2>2 DEF Window
    <3>2. n.edgeStart + k \in 1..Len(edges)
      BY <2>3, <2>4, <3>1, OffsetInside
    <3> QED BY <2>1, <3>1, <3>2
  <2> QED BY <2>5 DEF Range, w
<1>5. kept \subseteq 1..Len(nodes)
  BY <1>2
<1>6. id \in kept /\ Range(templates) \subseteq kept
  BY <1>2, <1>3 DEF Closed
<1>7. ASSUME NEW j \in kept PROVE Range(Children(Builder, j)) \subseteq kept
  <2> SUFFICES ASSUME NEW c \in Range(Children(Builder, j)) PROVE c \in kept
    OBVIOUS
  <2>1. c \in 1..Len(nodes)
    BY <1>4, <1>5
  <2>2. ASSUME NEW marked \in SUBSET (1..Len(nodes)), Closed(id, marked) PROVE c \in marked
    <3>1. j \in marked
      BY <1>2, <2>2
    <3> QED BY <2>2, <3>1 DEF Closed
  <2> QED BY <1>2, <2>1, <2>2
<1>8. ASSUME NEW j \in kept, j # id, j \notin Range(templates),
             \A p \in kept : j \notin Range(Children(Builder, p))
      PROVE  FALSE
  <2> DEFINE less == kept \ {j}
  <2>1. less \in SUBSET (1..Len(nodes))
    BY <1>5
  <2>2. Closed(id, less)
    BY <1>6, <1>7, <1>8 DEF Closed
  <2>3. j \in less
    <3> HIDE DEF less
    <3> QED BY <1>2, <2>1, <2>2
  <2> QED BY <2>3
<1> QED BY <1>5, <1>6, <1>7, <1>8 DEF kept

\* The copy as a function of how many nodes have been looked at.
NothingCopied == [nodes |-> <<>>, edges |-> <<>>, boundaries |-> <<>>]
PartCopied(kept) ==
    CHOOSE U : U = [n \in 0..Len(nodes) |->
                      IF n = 0 THEN NothingCopied
                      ELSE IF n \in kept THEN CopyNode(kept, U[n - 1], n) ELSE U[n - 1]]

\* The copy of the first n nodes, from the one before.
LEMMA CopyUnfolds ==
    ASSUME Len(nodes) \in Nat, NEW kept
    PROVE  /\ Copied(kept) = PartCopied(kept)[Len(nodes)]
           /\ PartCopied(kept)[0] = NothingCopied
           /\ \A n \in 1..Len(nodes) :
                PartCopied(kept)[n] = IF n \in kept THEN CopyNode(kept, PartCopied(kept)[n - 1], n)
                                      ELSE PartCopied(kept)[n - 1]
<1> DEFINE Is(U, N) == U = [n \in 0..N |-> IF n = 0 THEN NothingCopied
                              ELSE IF n \in kept THEN CopyNode(kept, U[n - 1], n) ELSE U[n - 1]]
           bad == {N \in Nat : ~\E U : Is(U, N)}
           P == PartCopied(kept)
<1>1. bad = {}
  <2> SUFFICES ASSUME bad # {} PROVE FALSE
    OBVIOUS
  <2>1. PICK x \in bad : \A y \in bad : x <= y
    BY SmallestNumber
  <2>2. x \in Nat /\ ~\E U : Is(U, x)
    BY <2>1
  <2>3. CASE x = 0
    <3> DEFINE U == [n \in 0..0 |-> NothingCopied]
               body(n) == IF n = 0 THEN NothingCopied
                          ELSE IF n \in kept THEN CopyNode(kept, U[n - 1], n) ELSE U[n - 1]
    <3>1. Is(U, 0)
      <4> HIDE DEF U
      <4>1. U = [n \in 0..0 |-> NothingCopied]
        BY DEF U
      <4>2. \A n \in 0..0 : NothingCopied = body(n)
        OBVIOUS
      <4>3. [n \in 0..0 |-> NothingCopied] = [n \in 0..0 |-> body(n)]
        BY <4>2
      <4> QED BY <4>1, <4>3
    <3> QED BY <2>2, <2>3, <3>1
  <2>4. CASE x # 0
    <3>1. x - 1 \in Nat /\ x - 1 \notin bad
      <4> HIDE DEF bad
      <4>1. x - 1 \in Nat /\ ~(x <= x - 1)
        BY <2>2, <2>4
      <4> QED BY <2>1, <4>1
    <3>2. PICK S : Is(S, x - 1)
      BY <3>1
    <3> DEFINE last == IF x \in kept THEN CopyNode(kept, S[x - 1], x) ELSE S[x - 1]
               U == [n \in 0..x |-> IF n = x THEN last ELSE S[n]]
    <3>3. ASSUME NEW n \in 0..x
          PROVE  U[n] = IF n = 0 THEN NothingCopied
                        ELSE IF n \in kept THEN CopyNode(kept, U[n - 1], n) ELSE U[n - 1]
      <4>1. CASE n = x
        <5>1. n # 0 /\ n - 1 \in 0..x /\ n - 1 # x
          BY <2>2, <2>4, <4>1
        <5> QED BY <4>1, <5>1
      <4>2. CASE n # x
        <5>1. n \in 0..(x - 1)
          BY <2>2, <4>2
        <5>2. S[n] = IF n = 0 THEN NothingCopied
                     ELSE IF n \in kept THEN CopyNode(kept, S[n - 1], n) ELSE S[n - 1]
          BY <3>2, <5>1
        <5>3. n # 0 => n - 1 \in 0..x /\ n - 1 # x
          BY <2>2, <5>1
        <5> QED BY <4>2, <5>2, <5>3
      <4> QED BY <4>1, <4>2
    <3>4. U = [n \in 0..x |-> U[n]]
      OBVIOUS
    <3> HIDE DEF U
    <3>5. Is(U, x)
      BY <3>3, <3>4
    <3> QED BY <2>2, <3>5
  <2> QED BY <2>3, <2>4
<1>2. \E U : Is(U, Len(nodes))
  BY <1>1
<1>3. Is(P, Len(nodes))
  BY <1>2 DEF PartCopied
<1>4. Copied(kept) = P[Len(nodes)]
  BY DEF Copied, PartCopied, NothingCopied
<1> HIDE DEF P, bad
<1>5. P[0] = NothingCopied /\ \A n \in 1..Len(nodes) :
                                P[n] = IF n \in kept THEN CopyNode(kept, P[n - 1], n) ELSE P[n - 1]
  BY <1>3
<1> QED BY <1>4, <1>5 DEF P
\* What the copy c holds of the kept node j.
CopyOf(kept, c, j) ==
    LET m == c.nodes[Remap(kept, j)]
        o == nodes[j]
    IN  /\ DOMAIN m = NodeFields
        /\ m.kind = o.kind /\ m.edgeCount = o.edgeCount /\ m.payload = o.payload
        /\ m.provenance = o.provenance
        /\ m.edgeStart \in Nat /\ m.boundaryStart \in Nat
        /\ m.edgeStart + o.edgeCount <= Len(c.edges)
        /\ \A k \in 1..o.edgeCount : c.edges[m.edgeStart + k] = Remap(kept, edges[o.edgeStart + k])
        /\ o.kind = "Serial" =>
             /\ m.boundaryStart + (o.edgeCount - 1) <= Len(c.boundaries)
             /\ \A k \in 1..(o.edgeCount - 1) :
                  c.boundaries[m.boundaryStart + k] = boundaries[o.boundaryStart + k]

CopyInv(kept, n, c) ==
    /\ IsSequence(c.nodes) /\ IsSequence(c.edges) /\ IsSequence(c.boundaries)
    /\ Len(c.nodes) = Remap(kept, n)
    /\ \A k \in 1..Len(c.edges) : c.edges[k] \in 1..Remap(kept, Len(nodes))
    /\ \A j \in kept : j <= n => CopyOf(kept, c, j)
    /\ \A i \in 1..Len(c.nodes) : \E j \in kept : j <= n /\ Remap(kept, j) = i

\* What was copied stays when more is copied behind it.
LEMMA CopyStays ==
    ASSUME BuilderInv, NEW kept \in SUBSET (1..Len(nodes)), NEW c, NEW d, NEW j \in kept,
           CopyOf(kept, c, j), Remap(kept, j) \in 1..Len(c.nodes),
           IsSequence(c.nodes), IsSequence(c.edges), IsSequence(c.boundaries),
           IsSequence(d.nodes), IsSequence(d.edges), IsSequence(d.boundaries),
           Grows(c.nodes, d.nodes), Grows(c.edges, d.edges), Grows(c.boundaries, d.boundaries)
    PROVE  CopyOf(kept, d, j)
<1> DEFINE m == c.nodes[Remap(kept, j)]
           o == nodes[j]
<1>1. d.nodes[Remap(kept, j)] = m
  BY DEF Grows
<1>2. /\ DOMAIN m = NodeFields
      /\ m.kind = o.kind /\ m.edgeCount = o.edgeCount /\ m.payload = o.payload
      /\ m.provenance = o.provenance
      /\ m.edgeStart \in Nat /\ m.boundaryStart \in Nat
      /\ m.edgeStart + o.edgeCount <= Len(c.edges)
      /\ \A k \in 1..o.edgeCount : c.edges[m.edgeStart + k] = Remap(kept, edges[o.edgeStart + k])
      /\ o.kind = "Serial" =>
           /\ m.boundaryStart + (o.edgeCount - 1) <= Len(c.boundaries)
           /\ \A k \in 1..(o.edgeCount - 1) :
                c.boundaries[m.boundaryStart + k] = boundaries[o.boundaryStart + k]
  BY DEF CopyOf
<1>3. o.edgeCount \in Nat /\ (o.kind = "Serial" => o.edgeCount - 1 \in Nat)
  <2>1. NodeInside(Builder, o)
    BY BuilderFields DEF BuilderInv, ArenaInside
  <2>2. o.edgeCount \in Nat /\ (o.kind = "Serial" => o.edgeCount >= 2)
    BY <2>1 DEF NodeInside
  <2> QED BY <2>2
<1>4. /\ Len(c.edges) \in Nat /\ Len(d.edges) \in Nat /\ Len(c.edges) <= Len(d.edges)
      /\ Len(c.boundaries) \in Nat /\ Len(d.boundaries) \in Nat /\ Len(c.boundaries) <= Len(d.boundaries)
  BY SequenceFacts DEF Grows
<1> HIDE DEF m, o
<1>5. m.edgeStart + o.edgeCount <= Len(d.edges)
  BY <1>2, <1>3, <1>4
<1>6. ASSUME NEW k \in 1..o.edgeCount
      PROVE  d.edges[m.edgeStart + k] = Remap(kept, edges[o.edgeStart + k])
  <2>1. m.edgeStart + k \in 1..Len(c.edges)
    BY <1>2, <1>3, <1>4, OffsetInside
  <2>2. d.edges[m.edgeStart + k] = c.edges[m.edgeStart + k]
    BY <2>1 DEF Grows
  <2> QED BY <1>2, <2>2
<1>7. ASSUME o.kind = "Serial"
      PROVE  /\ m.boundaryStart + (o.edgeCount - 1) <= Len(d.boundaries)
             /\ \A k \in 1..(o.edgeCount - 1) :
                  d.boundaries[m.boundaryStart + k] = boundaries[o.boundaryStart + k]
  <2> DEFINE count == o.edgeCount - 1
  <2>1. count \in Nat /\ m.boundaryStart + count <= Len(c.boundaries)
        /\ \A k \in 1..count : c.boundaries[m.boundaryStart + k] = boundaries[o.boundaryStart + k]
    BY <1>2, <1>3, <1>7
  <2> HIDE DEF count
  <2>2. m.boundaryStart + count <= Len(d.boundaries)
    BY <1>2, <1>4, <2>1
  <2>3. ASSUME NEW k \in 1..count
        PROVE  d.boundaries[m.boundaryStart + k] = boundaries[o.boundaryStart + k]
    <3>1. m.boundaryStart + k \in 1..Len(c.boundaries)
      BY <1>2, <1>4, <2>1, OffsetInside
    <3>2. d.boundaries[m.boundaryStart + k] = c.boundaries[m.boundaryStart + k]
      BY <3>1 DEF Grows
    <3> QED BY <2>1, <3>2
  <2> QED BY <2>2, <2>3 DEF count
<1> QED BY <1>1, <1>2, <1>5, <1>6, <1>7 DEF CopyOf, o

\* Copying one more node.
LEMMA CopyNodeKeeps ==
    ASSUME BuilderInv, NEW kept \in SUBSET (1..Len(nodes)),
           \A j \in kept : Range(Children(Builder, j)) \subseteq kept,
           NEW n \in kept, NEW c, CopyInv(kept, n - 1, c)
    PROVE  CopyInv(kept, n, CopyNode(kept, c, n))
<1> DEFINE o == nodes[n]
           w == Children(Builder, n)
           ws == [k \in DOMAIN w |-> Remap(kept, w[k])]
           bs == Boundaries(Builder, n)
           m == [o EXCEPT !.edgeStart = Len(c.edges), !.boundaryStart = Len(c.boundaries)]
           d == CopyNode(kept, c, n)
           N == Len(nodes)
           R == Len(c.nodes) + 1
<1>1. /\ NodeInside(Builder, o) /\ Sequences(Builder) /\ Builder.nodes[n] = o /\ N \in Nat
      /\ Builder.edges = edges /\ Builder.boundaries = boundaries
  BY BuilderFields, SequenceFacts DEF BuilderInv, ArenaInside, Sequences
<1>2. /\ IsSequence(c.nodes) /\ IsSequence(c.edges) /\ IsSequence(c.boundaries)
      /\ Len(c.nodes) = Remap(kept, n - 1)
      /\ \A k \in 1..Len(c.edges) : c.edges[k] \in 1..Remap(kept, N)
      /\ \A j \in kept : j <= n - 1 => CopyOf(kept, c, j)
      /\ \A i \in 1..Len(c.nodes) : \E j \in kept : j <= n - 1 /\ Remap(kept, j) = i
  BY DEF CopyInv
<1>3. /\ o.edgeCount \in Nat /\ o.edgeStart \in Nat /\ DOMAIN o = NodeFields
      /\ o.kind = "Serial" => o.edgeCount >= 2
  BY <1>1 DEF NodeInside
<1>4. /\ IsSequence(w) /\ Len(w) = o.edgeCount /\ w = Window(edges, o.edgeStart, o.edgeCount)
      /\ IsSequence(bs)
      /\ o.kind = "Serial" => /\ Len(bs) = o.edgeCount - 1
                              /\ bs = Window(boundaries, o.boundaryStart, o.edgeCount - 1)
  BY <1>1, NodeReads
<1>5. d.nodes = Append(c.nodes, m) /\ d.edges = c.edges \o ws /\ d.boundaries = c.boundaries \o bs
  BY DEF CopyNode
<1>6. n \in 1..N /\ Remap(kept, n) = R /\ Remap(kept, n - 1) \in Nat /\ Len(c.nodes) \in Nat
  <2>1. n \in 1..N /\ kept \in SUBSET (1..N)
    OBVIOUS
  <2> HIDE DEF N
  <2>2. Remap(kept, n - 1) \in Nat /\ Remap(kept, n) = Remap(kept, n - 1) + 1
    BY <1>1, <2>1, RemapStep
  <2> QED BY <1>2, <2>1, <2>2
<1>7. /\ DOMAIN w = 1..o.edgeCount /\ IsSequence(ws) /\ Len(ws) = o.edgeCount
      /\ \A k \in 1..o.edgeCount : ws[k] = Remap(kept, edges[o.edgeStart + k])
      /\ \A k \in 1..o.edgeCount : ws[k] \in 1..Remap(kept, N)
  <2>1. DOMAIN w = 1..o.edgeCount /\ \A k \in 1..o.edgeCount : w[k] = edges[o.edgeStart + k]
    BY <1>4 DEF Window
  <2> HIDE DEF w
  <2>2. ws = [k \in 1..o.edgeCount |-> ws[k]] /\ \A k \in 1..o.edgeCount : ws[k] = Remap(kept, w[k])
    BY <2>1
  <2> HIDE DEF ws
  <2>3. IsSequence(ws) /\ Len(ws) = o.edgeCount
    BY <2>2, <1>3, FunctionSequence
  <2>4. \A k \in 1..o.edgeCount : w[k] \in kept
    <3>1. Range(w) \subseteq kept
      BY DEF w
    <3> QED BY <2>1, <3>1 DEF Range
  <2>5. \A k \in 1..o.edgeCount : ws[k] \in 1..Remap(kept, N)
    BY <2>2, <2>4, <1>1, RemapStrict
  <2> QED BY <2>1, <2>2, <2>3, <2>5
<1>8. /\ DOMAIN m = NodeFields /\ m.kind = o.kind /\ m.edgeCount = o.edgeCount
      /\ m.payload = o.payload /\ m.provenance = o.provenance
      /\ m.edgeStart = Len(c.edges) /\ m.boundaryStart = Len(c.boundaries)
  BY <1>3 DEF NodeFields
<1> HIDE DEF o, w, ws, bs, m, d, N
<1>9. /\ IsSequence(d.nodes) /\ Grows(c.nodes, d.nodes) /\ Len(d.nodes) = R /\ d.nodes[R] = m
  BY <1>2, <1>5, AppendGrows, AppendFacts
<1>10. /\ IsSequence(d.edges) /\ Grows(c.edges, d.edges) /\ Len(d.edges) = Len(c.edges) + o.edgeCount
       /\ Len(c.edges) \in Nat
       /\ \A k \in 1..o.edgeCount : d.edges[Len(c.edges) + k] = ws[k]
  <2> DEFINE es == c.edges
  <2>1. IsSequence(es) /\ d.edges = es \o ws /\ IsSequence(ws)
    BY <1>2, <1>5, <1>7
  <2> HIDE DEF es
  <2>2. IsSequence(es \o ws) /\ Grows(es, es \o ws) /\ Len(es) \in Nat
    BY <2>1, ConcatGrows
  <2>3. Len(es \o ws) = Len(es) + Len(ws) /\ \A k \in 1..Len(ws) : (es \o ws)[Len(es) + k] = ws[k]
    BY <2>1, Concatenation
  <2> QED BY <2>1, <2>2, <2>3, <1>7 DEF es
<1>11. /\ IsSequence(d.boundaries) /\ Grows(c.boundaries, d.boundaries)
       /\ Len(d.boundaries) = Len(c.boundaries) + Len(bs) /\ Len(c.boundaries) \in Nat
       /\ \A k \in 1..Len(bs) : d.boundaries[Len(c.boundaries) + k] = bs[k]
  <2> DEFINE es == c.boundaries
  <2>1. IsSequence(es) /\ d.boundaries = es \o bs
    BY <1>2, <1>5
  <2> HIDE DEF es
  <2>2. IsSequence(es \o bs) /\ Grows(es, es \o bs) /\ Len(es) \in Nat
    BY <2>1, <1>4, ConcatGrows
  <2>3. Len(es \o bs) = Len(es) + Len(bs) /\ \A k \in 1..Len(bs) : (es \o bs)[Len(es) + k] = bs[k]
    BY <2>1, <1>4, Concatenation
  <2> QED BY <2>1, <2>2, <2>3 DEF es
<1>12. CopyOf(kept, d, n)
  <2>1. d.nodes[Remap(kept, n)] = m
    BY <1>6, <1>9
  <2>2. m.edgeStart + o.edgeCount <= Len(d.edges)
    BY <1>3, <1>8, <1>10
  <2>3. \A k \in 1..o.edgeCount : d.edges[m.edgeStart + k] = Remap(kept, edges[o.edgeStart + k])
    BY <1>7, <1>8, <1>10
  <2>4. ASSUME o.kind = "Serial"
        PROVE  /\ m.boundaryStart + (o.edgeCount - 1) <= Len(d.boundaries)
               /\ \A k \in 1..(o.edgeCount - 1) :
                    d.boundaries[m.boundaryStart + k] = boundaries[o.boundaryStart + k]
    <3> DEFINE count == o.edgeCount - 1
    <3>1. count \in Nat /\ Len(bs) = count /\ bs = Window(boundaries, o.boundaryStart, count)
      BY <1>3, <1>4, <2>4
    <3> HIDE DEF count
    <3>2. m.boundaryStart + count <= Len(d.boundaries)
      BY <1>8, <1>11, <3>1
    <3>3. \A k \in 1..count : bs[k] = boundaries[o.boundaryStart + k]
      BY <3>1 DEF Window
    <3>4. \A k \in 1..count : d.boundaries[m.boundaryStart + k] = boundaries[o.boundaryStart + k]
      BY <1>8, <1>11, <3>1, <3>3
    <3> QED BY <3>2, <3>4 DEF count
  <2>5. m.edgeStart \in Nat /\ m.boundaryStart \in Nat
    BY <1>8, <1>10, <1>11
  <2> QED BY <1>8, <2>1, <2>2, <2>3, <2>4, <2>5 DEF CopyOf, o
<1>13. ASSUME NEW j \in kept, j <= n PROVE CopyOf(kept, d, j)
  <2>1. CASE j = n
    BY <1>12, <2>1
  <2>2. CASE j # n
    <3>1. j \in 1..N /\ j <= n - 1 /\ n - 1 \in 0..N /\ j \in 0..N
      BY <1>1, <1>6, <1>13, <2>2 DEF N
    <3>2. Remap(kept, j) \in 1..Remap(kept, N) /\ Remap(kept, j) <= Remap(kept, n - 1)
      BY <1>1, <3>1, RemapStrict, RemapGrows DEF N
    <3>3. Remap(kept, j) \in 1..Len(c.nodes)
      BY <1>2, <1>6, <3>2
    <3>4. CopyOf(kept, c, j)
      BY <1>2, <3>1
    <3> QED BY <1>2, <1>9, <1>10, <1>11, <3>3, <3>4, CopyStays
  <2> QED BY <2>1, <2>2
<1>14. ASSUME NEW k \in 1..Len(d.edges) PROVE d.edges[k] \in 1..Remap(kept, N)
  <2>1. CASE k \in 1..Len(c.edges)
    BY <2>1, <1>2, <1>10 DEF Grows
  <2>2. CASE k \notin 1..Len(c.edges)
    <3> DEFINE i == k - Len(c.edges)
    <3>1. i \in 1..o.edgeCount /\ k = Len(c.edges) + i
      BY <2>2, <1>3, <1>10
    <3> HIDE DEF i
    <3>2. d.edges[k] = ws[i]
      BY <3>1, <1>10
    <3> QED BY <3>1, <3>2, <1>7
  <2> QED BY <2>1, <2>2
<1>15. ASSUME NEW i \in 1..Len(d.nodes) PROVE \E j \in kept : j <= n /\ Remap(kept, j) = i
  <2>1. CASE i = R
    <3>1. n <= n
      BY <1>6
    <3> QED BY <2>1, <3>1, <1>6
  <2>2. CASE i # R
    <3>1. i \in 1..Len(c.nodes)
      BY <2>2, <1>6, <1>9
    <3>2. PICK j \in kept : j <= n - 1 /\ Remap(kept, j) = i
      BY <1>2, <3>1
    <3>3. j <= n
      <4>1. j \in 1..N
        BY DEF N
      <4> QED BY <3>2, <4>1, <1>6, <1>1
    <3> QED BY <3>2, <3>3
  <2> QED BY <2>1, <2>2
<1>16. CopyInv(kept, n, d)
  BY <1>6, <1>9, <1>10, <1>11, <1>13, <1>14, <1>15 DEF CopyInv, N
<1> QED BY <1>16 DEF d

\* A node that is not kept is skipped.
LEMMA CopySkips ==
    ASSUME BuilderInv, NEW kept \in SUBSET (1..Len(nodes)), NEW n \in 1..Len(nodes), n \notin kept,
           NEW c, CopyInv(kept, n - 1, c)
    PROVE  CopyInv(kept, n, c)
<1>1. Len(nodes) \in Nat
  BY TablesAreSequences, SequenceFacts
<1>2. Remap(kept, n) = Remap(kept, n - 1)
  BY <1>1, RemapStep
<1>3. \A j \in kept : j <= n <=> j <= n - 1
  <2>1. \A j \in kept : j \in Int /\ j # n
    OBVIOUS
  <2> QED BY <1>1, <2>1
<1> QED BY <1>2, <1>3 DEF CopyInv

\* All kept nodes are copied.
LEMMA CopyComplete ==
    ASSUME BuilderInv, NEW kept \in SUBSET (1..Len(nodes)),
           \A j \in kept : Range(Children(Builder, j)) \subseteq kept
    PROVE  CopyInv(kept, Len(nodes), Copied(kept))
<1> DEFINE P == PartCopied(kept)
           N == Len(nodes)
           bad == {n \in 0..N : ~CopyInv(kept, n, P[n])}
<1>1. N \in Nat
  BY TablesAreSequences, SequenceFacts
<1>2. /\ Copied(kept) = P[N] /\ P[0] = NothingCopied
      /\ \A n \in 1..N : P[n] = IF n \in kept THEN CopyNode(kept, P[n - 1], n) ELSE P[n - 1]
  BY <1>1, CopyUnfolds
<1> HIDE DEF P
<1>3. CopyInv(kept, 0, P[0])
  <2>1. /\ NothingCopied.nodes = <<>> /\ NothingCopied.edges = <<>> /\ NothingCopied.boundaries = <<>>
    BY DEF NothingCopied
  <2>2. IsSequence(<<>>) /\ Len(<<>>) = 0
    BY DEF IsSequence
  <2>3. Remap(kept, 0) = 0
    BY <1>1, RemapZero
  <2>4. \A j \in kept : ~(j <= 0)
    <3>1. \A j \in kept : j \in 1..N
      OBVIOUS
    <3> QED BY <1>1, <3>1
  <2> QED BY <1>2, <2>1, <2>2, <2>3, <2>4 DEF CopyInv
<1>4. bad = {}
  <2> SUFFICES ASSUME bad # {} PROVE FALSE
    OBVIOUS
  <2>1. PICK x \in bad : \A y \in bad : x <= y
    <3>1. bad \subseteq Nat
      BY <1>1
    <3> HIDE DEF bad
    <3> QED BY <3>1, SmallestNumber
  <2>2. x \in 0..N /\ ~CopyInv(kept, x, P[x])
    BY <2>1
  <2>3. x # 0
    BY <1>3, <2>2
  <2>4. x \in 1..N /\ x - 1 \in 0..N /\ ~(x <= x - 1)
    BY <1>1, <2>2, <2>3
  <2>5. CopyInv(kept, x - 1, P[x - 1])
    <3>1. x - 1 \notin bad
      <4> HIDE DEF bad
      <4> QED BY <2>1, <2>4
    <3> QED BY <2>4, <3>1
  <2> HIDE DEF bad
  <2>6. CASE x \in kept
    BY <1>2, <2>2, <2>4, <2>5, <2>6, CopyNodeKeeps
  <2>7. CASE x \notin kept
    BY <1>2, <2>2, <2>4, <2>5, <2>7, CopySkips
  <2> QED BY <2>6, <2>7
<1>5. N \in 0..N
  BY <1>1
<1> QED BY <1>2, <1>4, <1>5

\* The arena finish builds holds the copy, and the builder's own tables.
LEMMA CompactCopies ==
    ASSUME BuilderInv, NEW id \in 1..Len(nodes)
    PROVE  LET kept == Reachable(id)
               a == Compact(id)
           IN  /\ kept \in SUBSET (1..Len(nodes)) /\ Len(nodes) \in Nat /\ id \in kept
               /\ CopyInv(kept, Len(nodes), a)
               /\ a.root = Remap(kept, id) /\ a.payloads = payloads
               /\ a.valueArguments = valueArguments /\ a.opaqueCalls = opaqueCalls
               /\ a.definitions = definitions /\ a.operations = operations /\ a.channels = channels
               /\ IsSequence(a.templates) /\ Len(a.templates) = Len(templates)
               /\ \A t \in 1..Len(templates) : /\ templates[t] \in kept
                                               /\ a.templates[t] = Remap(kept, templates[t])
<1> DEFINE kept == Reachable(id)
           a == Compact(id)
           c == Copied(kept)
<1>1. /\ kept \in SUBSET (1..Len(nodes)) /\ id \in kept /\ Range(templates) \subseteq kept
      /\ \A j \in kept : Range(Children(Builder, j)) \subseteq kept
  BY ReachableFacts
<1>2. /\ Len(nodes) \in Nat /\ IsSequence(templates) /\ Len(templates) \in Nat
      /\ DOMAIN templates = 1..Len(templates)
  BY TablesAreSequences, SequenceFacts
<1>3. /\ a.root = Remap(kept, id) /\ a.payloads = payloads
      /\ a.valueArguments = valueArguments /\ a.opaqueCalls = opaqueCalls
      /\ a.definitions = definitions /\ a.operations = operations /\ a.channels = channels
      /\ a.templates = RemappedTemplates(kept)
      /\ a.nodes = c.nodes /\ a.edges = c.edges /\ a.boundaries = c.boundaries
  BY DEF Compact
<1> HIDE DEF kept, a
<1>4. CopyInv(kept, Len(nodes), c)
  BY <1>1, CopyComplete
<1> HIDE DEF c
<1>5. CopyInv(kept, Len(nodes), a)
  <2>1. \A j : CopyOf(kept, c, j) => CopyOf(kept, a, j)
    BY <1>3 DEF CopyOf
  <2> QED BY <1>3, <1>4, <2>1 DEF CopyInv
<1>6. /\ IsSequence(a.templates) /\ Len(a.templates) = Len(templates)
      /\ \A t \in 1..Len(templates) : a.templates[t] = Remap(kept, templates[t])
  <2> DEFINE ts == RemappedTemplates(kept)
  <2>1. ts = [t \in 1..Len(templates) |-> ts[t]]
        /\ \A t \in 1..Len(templates) : ts[t] = Remap(kept, templates[t])
    BY <1>2 DEF RemappedTemplates
  <2> HIDE DEF ts
  <2>2. IsSequence(ts) /\ Len(ts) = Len(templates)
    BY <1>2, <2>1, FunctionSequence
  <2> QED BY <1>3, <2>1, <2>2 DEF ts
<1>7. \A t \in 1..Len(templates) : templates[t] \in kept
  BY <1>1, <1>2 DEF Range
<1> QED BY <1>1, <1>2, <1>3, <1>5, <1>6, <1>7 DEF kept, a

\* What the copy of a kept node refers to lies inside.
LEMMA CopyInside ==
    ASSUME BuilderInv, NEW kept \in SUBSET (1..Len(nodes)), NEW a, NEW j \in kept,
           CopyOf(kept, a, j), a.payloads = payloads
    PROVE  NodeInside(a, a.nodes[Remap(kept, j)])
<1> DEFINE m == a.nodes[Remap(kept, j)]
           o == nodes[j]
<1>1. NodeInside(Builder, o) /\ Builder.payloads = payloads
  BY BuilderFields DEF BuilderInv, ArenaInside
<1>2. /\ DOMAIN m = NodeFields
      /\ m.kind = o.kind /\ m.edgeCount = o.edgeCount /\ m.payload = o.payload
      /\ m.edgeStart \in Nat /\ m.boundaryStart \in Nat
      /\ m.edgeStart + o.edgeCount <= Len(a.edges)
      /\ o.kind = "Serial" => m.boundaryStart + (o.edgeCount - 1) <= Len(a.boundaries)
  BY DEF CopyOf
<1> HIDE DEF m, o
<1>3. /\ o.kind \in Kinds /\ o.edgeCount \in Nat
      /\ o.kind \in {"Serial", "Parallel"} => o.edgeCount >= 2 /\ o.payload = 0
      /\ o.kind \notin {"Serial", "Parallel"} =>
            /\ o.edgeCount = IF o.kind = "Loop" THEN 1 ELSE 0
            /\ o.payload \in 1..Len(payloads) /\ payloads[o.payload].kind = o.kind
  BY <1>1 DEF NodeInside
<1>4. NodeInside(a, m)
  BY <1>2, <1>3 DEF NodeInside
<1> QED BY <1>4 DEF m

\* So the arena is one that can be read.
LEMMA CompactInside ==
    ASSUME BuilderInv, NEW id \in 1..Len(nodes)
    PROVE  ArenaInside(Compact(id))
<1> DEFINE kept == Reachable(id)
           a == Compact(id)
<1>1. /\ kept \in SUBSET (1..Len(nodes)) /\ Len(nodes) \in Nat /\ id \in kept
      /\ CopyInv(kept, Len(nodes), a)
      /\ a.root = Remap(kept, id) /\ a.payloads = payloads
      /\ a.valueArguments = valueArguments /\ a.opaqueCalls = opaqueCalls
      /\ a.definitions = definitions /\ a.operations = operations /\ a.channels = channels
      /\ IsSequence(a.templates) /\ Len(a.templates) = Len(templates)
      /\ \A t \in 1..Len(templates) : templates[t] \in kept /\ a.templates[t] = Remap(kept, templates[t])
  BY CompactCopies
<1> HIDE DEF kept, a
<1>2. /\ IsSequence(a.nodes) /\ IsSequence(a.edges) /\ IsSequence(a.boundaries)
      /\ Len(a.nodes) = Remap(kept, Len(nodes))
      /\ \A k \in 1..Len(a.edges) : a.edges[k] \in 1..Remap(kept, Len(nodes))
      /\ \A j \in kept : j <= Len(nodes) => CopyOf(kept, a, j)
      /\ \A i \in 1..Len(a.nodes) : \E j \in kept : j <= Len(nodes) /\ Remap(kept, j) = i
  BY <1>1 DEF CopyInv
<1>3. Sequences(a)
  <2>1. Sequences(Builder)
    BY DEF BuilderInv, ArenaInside
  <2> QED BY <1>1, <1>2, <2>1, BuilderFields DEF Sequences
<1>4. \A t \in 1..Len(a.templates) : a.templates[t] \in 1..Len(a.nodes)
  BY <1>1, <1>2, RemapStrict
<1>5. ASSUME NEW i \in 1..Len(a.payloads) PROVE PayloadInside(a, a.payloads[i])
  <2>1. PayloadInside(Builder, payloads[i])
    BY <1>1, BuilderFields DEF BuilderInv, ArenaInside
  <2> QED BY <1>1, <2>1, BuilderFields DEF PayloadInside
<1>6. ASSUME NEW i \in 1..Len(a.nodes) PROVE NodeInside(a, a.nodes[i])
  <2>1. PICK j \in kept : j <= Len(nodes) /\ Remap(kept, j) = i
    BY <1>2
  <2>2. CopyOf(kept, a, j)
    BY <1>2, <2>1
  <2>3. NodeInside(a, a.nodes[Remap(kept, j)])
    BY <1>1, <2>2, CopyInside
  <2> QED BY <2>1, <2>3
<1>7. ArenaInside(a)
  BY <1>2, <1>3, <1>4, <1>5, <1>6 DEF ArenaInside
<1> QED BY <1>7 DEF a

\* Where a child of a kept node is, in the builder.
LEMMA KeptChildren ==
    ASSUME BuilderInv, NEW kept \in SUBSET (1..Len(nodes)), NEW j \in kept,
           Range(Children(Builder, j)) \subseteq kept
    PROVE  /\ DOMAIN Children(Builder, j) = 1..nodes[j].edgeCount /\ nodes[j].edgeCount \in Nat
           /\ \A k \in 1..nodes[j].edgeCount :
                /\ Children(Builder, j)[k] = edges[nodes[j].edgeStart + k]
                /\ edges[nodes[j].edgeStart + k] \in kept
<1> DEFINE o == nodes[j]
           w == Children(Builder, j)
<1>1. /\ Sequences(Builder) /\ NodeInside(Builder, Builder.nodes[j]) /\ Builder.nodes[j] = o
      /\ Builder.edges = edges
  BY BuilderFields DEF BuilderInv, ArenaInside
<1>2. w = Window(edges, o.edgeStart, o.edgeCount)
  BY <1>1, NodeReads
<1>3. o.edgeCount \in Nat
  BY <1>1 DEF NodeInside
<1> HIDE DEF o
<1>4. DOMAIN w = 1..o.edgeCount /\ \A k \in 1..o.edgeCount : w[k] = edges[o.edgeStart + k]
  BY <1>2 DEF Window
<1>5. \A k \in 1..o.edgeCount : w[k] \in kept
  BY <1>4 DEF Range
<1> QED BY <1>3, <1>4, <1>5 DEF o

\* Operands still precede: renumbering keeps the order of what is kept.
LEMMA CompactPrecedes ==
    ASSUME ArenaInv, BuilderInv, NEW id \in 1..Len(nodes)
    PROVE  LET a == Compact(id)
           IN  Precede(a.nodes, a.edges) /\ TemplatesPrecede(a.nodes, a.payloads, a.templates)
<1> DEFINE kept == Reachable(id)
           a == Compact(id)
           N == Len(nodes)
<1>1. /\ kept \in SUBSET (1..N) /\ N \in Nat
      /\ CopyInv(kept, N, a) /\ a.payloads = payloads
      /\ \A t \in 1..Len(templates) : templates[t] \in kept /\ a.templates[t] = Remap(kept, templates[t])
  BY CompactCopies
<1>2. \A j \in kept : Range(Children(Builder, j)) \subseteq kept
  BY ReachableFacts
<1>3. Precede(nodes, edges) /\ TemplatesPrecede(nodes, payloads, templates)
  BY DEF ArenaInv, ChildrenPrecede
<1> HIDE DEF kept, a
<1>4. ASSUME NEW i \in 1..Len(a.nodes)
      PROVE  \E j \in kept : Remap(kept, j) = i /\ CopyOf(kept, a, j) /\ j \in 1..N
  BY <1>1 DEF CopyInv
<1>5. ASSUME NEW x \in kept, NEW j \in kept, x < j PROVE Remap(kept, x) < Remap(kept, j)
  <2>1. x \in 0..N
    BY <1>1
  <2> HIDE DEF N
  <2> QED BY <1>1, <1>5, <2>1, RemapStrict
<1>6. ASSUME NEW i \in 1..Len(a.nodes), NEW k \in 1..a.nodes[i].edgeCount
      PROVE  a.edges[a.nodes[i].edgeStart + k] < i
  <2>1. PICK j \in kept : Remap(kept, j) = i /\ CopyOf(kept, a, j) /\ j \in 1..N
    BY <1>4
  <2>2. k \in 1..nodes[j].edgeCount
        /\ a.edges[a.nodes[i].edgeStart + k] = Remap(kept, edges[nodes[j].edgeStart + k])
    BY <2>1 DEF CopyOf
  <2> DEFINE x == edges[nodes[j].edgeStart + k]
  <2>3. x \in kept
    BY <1>1, <1>2, <2>2, KeptChildren
  <2>4. x < j
    BY <1>3, <2>1, <2>2 DEF Precede
  <2> HIDE DEF x
  <2>5. Remap(kept, x) < Remap(kept, j)
    BY <1>5, <2>3, <2>4
  <2> QED BY <2>1, <2>2, <2>5 DEF x
<1>7. ASSUME NEW i \in 1..Len(a.nodes), a.nodes[i].kind = "Instantiate"
      PROVE  a.templates[a.payloads[a.nodes[i].payload].template] < i
  <2>1. PICK j \in kept : Remap(kept, j) = i /\ CopyOf(kept, a, j) /\ j \in 1..N
    BY <1>4
  <2>2. nodes[j].kind = "Instantiate" /\ a.nodes[i].payload = nodes[j].payload
    BY <1>7, <2>1 DEF CopyOf
  <2> DEFINE t == payloads[nodes[j].payload].template
  <2>3. t \in 1..Len(templates)
    BY <2>1, <2>2 DEF ArenaInv, TemplatesPublished
  <2>4. templates[t] < j
    BY <1>3, <2>1, <2>2 DEF TemplatesPrecede
  <2> HIDE DEF t
  <2>5. Remap(kept, templates[t]) < Remap(kept, j)
    BY <1>1, <1>5, <2>3, <2>4
  <2> QED BY <1>1, <2>1, <2>2, <2>3, <2>5 DEF t
<1>8. Precede(a.nodes, a.edges) /\ TemplatesPrecede(a.nodes, a.payloads, a.templates)
  BY <1>6, <1>7 DEF Precede, TemplatesPrecede
<1> QED BY <1>8 DEF a

\* The trees of the nodes that were kept, by where they came from.
KeptTrees(a) == [i \in 1..Len(a.nodes) |-> meaning[a.nodes[i].provenance]]

\* What the arena shares with the builder, and what E says of the kept nodes.
SameTables(a) ==
    /\ a.payloads = payloads /\ a.valueArguments = valueArguments /\ a.opaqueCalls = opaqueCalls
    /\ a.definitions = definitions /\ a.operations = operations /\ a.channels = channels
TemplatesKept(kept, a) ==
    \A t \in 1..Len(templates) : templates[t] \in kept /\ a.templates[t] = Remap(kept, templates[t])
DenotesKept(kept, E) == \A j \in kept : E[Remap(kept, j)] = meaning[j]

\* A kept leaf says what it said in the builder.
LEMMA KeptLeaf ==
    ASSUME NEW kept, NEW a, NEW E, SameTables(a), TemplatesKept(kept, a), DenotesKept(kept, E),
           NEW p, PayloadInside(Builder, p), p.kind # "Loop"
    PROVE  LeafTree(a, E, p) = LeafTree(Builder, meaning, p)
<1>1. PayloadArguments(a, p) = PayloadArguments(Builder, p) /\ OpaqueCalls(a, p) = OpaqueCalls(Builder, p)
  BY BuilderFields DEF PayloadArguments, OpaqueCalls, SameTables
<1>2. p.kind \in Leaves
  BY DEF PayloadInside
<1>3. CASE p.kind = "Instantiate"
  <2>1. p.template \in 1..Len(templates)
    BY <1>3, BuilderFields DEF PayloadInside
  <2>2. E[a.templates[p.template]] = meaning[templates[p.template]]
    BY <2>1 DEF TemplatesKept, DenotesKept
  <2> QED BY <1>3, <2>2, BuilderFields DEF LeafTree, SameTables
<1>4. CASE p.kind \in {"Atomic", "DefinitionRef"}
  BY <1>1, <1>4, BuilderFields DEF LeafTree, SameTables
<1>5. CASE p.kind \in {"Opaque", "Wait"}
  BY <1>1, <1>5, BuilderFields DEF LeafTree
<1> QED BY <1>2, <1>3, <1>4, <1>5 DEF Leaves

\* The copy of a kept node stores the same tree.
LEMMA KeptTree ==
    ASSUME BuilderInv, NEW kept \in SUBSET (1..Len(nodes)), NEW a, NEW E, NEW j \in kept,
           Sequences(a), CopyOf(kept, a, j), SameTables(a), TemplatesKept(kept, a),
           DenotesKept(kept, E),
           Range(Children(Builder, j)) \subseteq kept
    PROVE  Tree(a, E, Remap(kept, j)) = Tree(Builder, meaning, j)
<1> DEFINE i == Remap(kept, j)
           m == a.nodes[i]
           o == nodes[j]
<1>1. /\ NodeInside(a, m) /\ Sequences(Builder) /\ NodeInside(Builder, o)
      /\ Builder.nodes = nodes /\ Builder.edges = edges /\ Builder.boundaries = boundaries
      /\ Builder.payloads = payloads /\ a.payloads = payloads
  BY CopyInside, BuilderFields DEF BuilderInv, ArenaInside, SameTables
<1>2. /\ m.kind = o.kind /\ m.edgeCount = o.edgeCount /\ m.payload = o.payload
      /\ \A k \in 1..o.edgeCount : a.edges[m.edgeStart + k] = Remap(kept, edges[o.edgeStart + k])
      /\ o.kind = "Serial" =>
           \A k \in 1..(o.edgeCount - 1) :
                a.boundaries[m.boundaryStart + k] = boundaries[o.boundaryStart + k]
  BY DEF CopyOf
<1>3. Below(a, E, i) = Below(Builder, meaning, j)
  <2> DEFINE v == Children(a, i)
             w == Children(Builder, j)
  <2>1. v = Window(a.edges, m.edgeStart, m.edgeCount)
    BY <1>1, NodeReads
  <2>2. /\ DOMAIN w = 1..o.edgeCount
        /\ \A k \in 1..o.edgeCount : w[k] = edges[o.edgeStart + k] /\ edges[o.edgeStart + k] \in kept
    BY KeptChildren
  <2> HIDE DEF i, m, o, v, w
  <2>3. DOMAIN v = 1..o.edgeCount /\ \A k \in 1..o.edgeCount : v[k] = a.edges[m.edgeStart + k]
    BY <2>1, <1>2 DEF Window
  <2>4. ASSUME NEW k \in 1..o.edgeCount PROVE E[v[k]] = meaning[w[k]]
    <3> DEFINE x == edges[o.edgeStart + k]
    <3>1. w[k] = x /\ x \in kept
      BY <2>2
    <3>2. v[k] = Remap(kept, x)
      BY <1>2, <2>3
    <3> HIDE DEF x
    <3> QED BY <3>1, <3>2 DEF DenotesKept
  <2>5. [k \in DOMAIN v |-> E[v[k]]] = [k \in DOMAIN w |-> meaning[w[k]]]
    BY <2>2, <2>3, <2>4
  <2> QED BY <2>5 DEF Below, v, w
<1>4. Boundaries(a, i) = Boundaries(Builder, j)
  <2>1. CASE o.kind = "Serial"
    <3>1. /\ Boundaries(a, i) = Window(a.boundaries, m.boundaryStart, m.edgeCount - 1)
          /\ Boundaries(Builder, j) = Window(boundaries, o.boundaryStart, o.edgeCount - 1)
      BY <1>1, <1>2, <2>1, NodeReads
    <3> DEFINE count == o.edgeCount - 1
    <3>2. m.edgeCount - 1 = count
      BY <1>2
    <3>3. \A k \in 1..count : a.boundaries[m.boundaryStart + k] = boundaries[o.boundaryStart + k]
      BY <1>2, <2>1
    <3> HIDE DEF count, i, m, o
    <3>4. Window(a.boundaries, m.boundaryStart, count) = Window(boundaries, o.boundaryStart, count)
      BY <3>3 DEF Window
    <3> QED BY <3>1, <3>2, <3>4 DEF count
  <2>2. CASE o.kind # "Serial"
    BY <1>1, <1>2, <2>2, NodeReads
  <2> QED BY <2>1, <2>2
<1>5. ASSUME m.kind \notin {"Serial", "Parallel"}
      PROVE  /\ a.payloads[m.payload] = Builder.payloads[o.payload]
             /\ m.kind # "Loop" =>
                  LeafTree(a, E, a.payloads[m.payload]) =
                  LeafTree(Builder, meaning, Builder.payloads[o.payload])
  <2> DEFINE p == payloads[o.payload]
  <2>1. o.payload \in 1..Len(payloads) /\ p.kind = o.kind
    BY <1>1, <1>2, <1>5 DEF NodeInside
  <2>2. PayloadInside(Builder, p)
    BY <1>1, <2>1 DEF BuilderInv, ArenaInside
  <2>3. a.payloads[m.payload] = p /\ Builder.payloads[o.payload] = p
    BY <1>1, <1>2
  <2>4. ASSUME p.kind # "Loop" PROVE LeafTree(a, E, p) = LeafTree(Builder, meaning, p)
    <3> HIDE DEF p, m, o, i
    <3>1. PayloadInside(Builder, p) /\ p.kind # "Loop"
      BY <2>2, <2>4
    <3> QED BY <3>1, KeptLeaf
  <2> QED BY <1>2, <2>1, <2>3, <2>4
<1>6. Builder.nodes[j] = o /\ a.nodes[i] = m
  BY <1>1
<1> HIDE DEF i, m, o
<1>7. Tree(a, E, i) = Tree(Builder, meaning, j)
  BY <1>2, <1>3, <1>4, <1>5, <1>6, SameTree
<1> QED BY <1>7 DEF i

\* The arena finish returns denotes, under the new id of every kept node, the tree that was
\* asked for under the old one.
LEMMA CompactDenotes ==
    ASSUME ArenaInv, BuilderInv, NEW id \in 1..Len(nodes)
    PROVE  \A j \in Reachable(id) : Denotation(Compact(id))[Remap(Reachable(id), j)] = meaning[j]
<1> DEFINE kept == Reachable(id)
           a == Compact(id)
           E == KeptTrees(a)
<1>1. /\ kept \in SUBSET (1..Len(nodes)) /\ Len(nodes) \in Nat
      /\ CopyInv(kept, Len(nodes), a) /\ a.payloads = payloads
      /\ a.valueArguments = valueArguments /\ a.opaqueCalls = opaqueCalls
      /\ a.definitions = definitions /\ a.operations = operations /\ a.channels = channels
      /\ \A t \in 1..Len(templates) : templates[t] \in kept /\ a.templates[t] = Remap(kept, templates[t])
  BY CompactCopies
<1>2. \A j \in kept : Range(Children(Builder, j)) \subseteq kept
  BY ReachableFacts
<1>3. /\ ArenaInside(a) /\ Sequences(a) /\ SameTables(a) /\ TemplatesKept(kept, a)
      /\ Precede(a.nodes, a.edges) /\ TemplatesPrecede(a.nodes, a.payloads, a.templates)
  BY <1>1, CompactInside, CompactPrecedes DEF ArenaInside, SameTables, TemplatesKept
<1> HIDE DEF kept, a
<1>4. /\ Len(a.nodes) = Remap(kept, Len(nodes))
      /\ \A j \in kept : CopyOf(kept, a, j)
      /\ \A i \in 1..Len(a.nodes) : \E j \in kept : Remap(kept, j) = i
  BY <1>1 DEF CopyInv
<1>5. E = [i \in 1..Len(a.nodes) |-> E[i]]
      /\ \A i \in 1..Len(a.nodes) : E[i] = meaning[a.nodes[i].provenance]
  BY DEF KeptTrees
<1> HIDE DEF E
<1>6. ASSUME NEW j \in kept PROVE E[Remap(kept, j)] = meaning[j]
  <2>1. Remap(kept, j) \in 1..Len(a.nodes)
    BY <1>1, <1>4, RemapStrict
  <2>2. a.nodes[Remap(kept, j)].provenance = nodes[j].provenance
    BY <1>4 DEF CopyOf
  <2>3. nodes[j].provenance = j
    BY <1>1 DEF BuilderInv
  <2> QED BY <1>5, <2>1, <2>2, <2>3
<1>7. ASSUME NEW i \in 1..Len(a.nodes) PROVE E[i] = Tree(a, E, i)
  <2>1. PICK j \in kept : Remap(kept, j) = i
    BY <1>4
  <2>2. DenotesKept(kept, E) /\ CopyOf(kept, a, j) /\ Range(Children(Builder, j)) \subseteq kept
    BY <1>2, <1>4, <1>6 DEF DenotesKept
  <2>3. Tree(a, E, Remap(kept, j)) = Tree(Builder, meaning, j)
    BY <1>1, <1>3, <2>2, KeptTree
  <2>4. meaning[j] = Tree(Builder, meaning, j)
    BY <1>1 DEF BuilderInv
  <2> QED BY <1>6, <2>1, <2>3, <2>4
<1>8. Denotation(a) = E
  BY <1>3, <1>5, <1>7, DenotationIs
<1> QED BY <1>6, <1>8 DEF kept, a

\* Nothing is kept without a reason.
LEMMA KeptForAReason ==
    ASSUME BuilderInv, NEW id \in 1..Len(nodes), NEW i \in DOMAIN Compact(id).nodes
    PROVE  LET a == Compact(id)
           IN  i = a.root \/ i \in Range(a.templates) \cup Range(a.edges)
<1> DEFINE kept == Reachable(id)
           a == Compact(id)
<1>1. /\ kept \in SUBSET (1..Len(nodes)) /\ Len(nodes) \in Nat
      /\ CopyInv(kept, Len(nodes), a) /\ a.root = Remap(kept, id)
      /\ IsSequence(a.templates) /\ Len(a.templates) = Len(templates)
      /\ \A t \in 1..Len(templates) : templates[t] \in kept /\ a.templates[t] = Remap(kept, templates[t])
  BY CompactCopies
<1>2. /\ \A j \in kept : Range(Children(Builder, j)) \subseteq kept
      /\ \A j \in kept : \/ j = id \/ j \in Range(templates)
                         \/ \E p \in kept : j \in Range(Children(Builder, p))
  BY ReachableFacts
<1>3. Sequences(a) /\ i \in DOMAIN a.nodes
  BY CompactInside DEF ArenaInside
<1> SUFFICES i = a.root \/ i \in Range(a.templates) \cup Range(a.edges)
  OBVIOUS
<1> HIDE DEF kept, a
<1>4. /\ DOMAIN a.nodes = 1..Len(a.nodes) /\ DOMAIN a.templates = 1..Len(templates)
      /\ DOMAIN a.edges = 1..Len(a.edges) /\ Len(a.edges) \in Nat /\ DOMAIN templates = 1..Len(templates)
  BY <1>1, <1>3, SequenceFacts, TablesAreSequences DEF Sequences
<1>5. /\ \A j \in kept : CopyOf(kept, a, j)
      /\ \A x \in 1..Len(a.nodes) : \E j \in kept : Remap(kept, j) = x
  BY <1>1 DEF CopyInv
<1>6. PICK j \in kept : Remap(kept, j) = i
  BY <1>3, <1>4, <1>5
<1>7. CASE j = id
  BY <1>1, <1>6, <1>7
<1>8. CASE j \in Range(templates)
  <2>1. PICK t \in 1..Len(templates) : templates[t] = j
    BY <1>4, <1>8 DEF Range
  <2>2. a.templates[t] = i
    BY <1>1, <1>6, <2>1
  <2> QED BY <1>4, <2>2 DEF Range
<1>9. CASE \E p \in kept : j \in Range(Children(Builder, p))
  <2>1. PICK p \in kept : j \in Range(Children(Builder, p))
    BY <1>9
  <2> DEFINE m == a.nodes[Remap(kept, p)]
             o == nodes[p]
  <2>2. /\ DOMAIN Children(Builder, p) = 1..o.edgeCount /\ o.edgeCount \in Nat
        /\ \A k \in 1..o.edgeCount : Children(Builder, p)[k] = edges[o.edgeStart + k]
    BY <1>1, <1>2, KeptChildren
  <2>3. /\ m.edgeStart \in Nat /\ m.edgeStart + o.edgeCount <= Len(a.edges)
        /\ \A k \in 1..o.edgeCount : a.edges[m.edgeStart + k] = Remap(kept, edges[o.edgeStart + k])
    BY <1>5 DEF CopyOf
  <2> HIDE DEF m, o
  <2>4. PICK k \in 1..o.edgeCount : edges[o.edgeStart + k] = j
    BY <2>1, <2>2 DEF Range
  <2>5. a.edges[m.edgeStart + k] = i /\ m.edgeStart + k \in 1..Len(a.edges)
    BY <1>4, <1>6, <2>2, <2>3, <2>4, OffsetInside
  <2>6. i \in Range(a.edges)
    BY <1>4, <2>5 DEF Range
  <2> QED BY <2>6
<1> QED BY <1>2, <1>7, <1>8, <1>9

\* An arena that can be read passes validate unless an opaque block calls no board, or one
\* without a name.
NamesBoards(a, p) == OpaqueCalls(a, p) # <<>> /\ "" \notin Range(OpaqueCalls(a, p))

\* The check of the payload, given what the builder guarantees.
LEMMA PayloadValid ==
    ASSUME NEW a, ArenaInside(a), NEW n, NodeInside(a, n),
           n.kind = "Opaque" => NamesBoards(a, a.payloads[n.payload])
    PROVE  PayloadOK(a, n)
<1> DEFINE p == a.payloads[n.payload]
<1>1. CASE n.kind \in {"Serial", "Parallel"}
  BY <1>1 DEF NodeInside, PayloadOK
<1>2. CASE n.kind \notin {"Serial", "Parallel"}
  <2>1. n.payload \in 1..Len(a.payloads) /\ p.kind = n.kind
    BY <1>2 DEF NodeInside
  <2>2. PayloadInside(a, p)
    BY <2>1 DEF ArenaInside
  <2>3. /\ Len(a.operations) \in Nat /\ Len(a.definitions) \in Nat
        /\ Len(a.templates) \in Nat /\ Len(a.channels) \in Nat /\ IsSequence(a.opaqueCalls)
    BY SequenceFacts DEF ArenaInside, Sequences
  <2>4. p.kind = "Opaque" => NamesBoards(a, p)
    BY <2>1
  <2> HIDE DEF p
  <2>5. p.kind \in {"Atomic", "DefinitionRef"} => InRange(a.valueArguments, p.argumentStart, p.argumentCount)
    BY <2>2 DEF PayloadInside, InRange
  <2>6. p.kind = "Atomic" => p.operation <= Len(a.operations)
    BY <2>2, <2>3 DEF PayloadInside
  <2>7. p.kind = "Instantiate" => p.template <= Len(a.templates) /\ p.channel <= Len(a.channels)
    BY <2>2, <2>3 DEF PayloadInside
  <2>8. p.kind = "DefinitionRef" => p.definition <= Len(a.definitions)
    BY <2>2, <2>3 DEF PayloadInside
  <2>9. ASSUME p.kind = "Opaque"
        PROVE  /\ InRange(a.opaqueCalls, p.callStart, p.callCount) /\ p.callCount > 0
               /\ "" \notin Range(OpaqueCalls(a, p))
    <3>1. p.callStart \in Nat /\ p.callCount \in Nat /\ p.callStart + p.callCount <= Len(a.opaqueCalls)
      BY <2>2, <2>9 DEF PayloadInside
    <3> DEFINE calls == Slice(a.opaqueCalls, p.callStart, p.callCount)
    <3>2. OpaqueCalls(a, p) = calls
      BY <2>9 DEF OpaqueCalls
    <3>3. IsSequence(calls) /\ Len(calls) = p.callCount
      BY <2>3, <3>1, SliceFacts
    <3> HIDE DEF calls
    <3>4. p.callCount # 0
      <4> SUFFICES ASSUME p.callCount = 0 PROVE FALSE
        OBVIOUS
      <4>1. calls = [i \in 1..0 |-> calls[i]]
        BY <3>3, SequenceFacts
      <4>2. calls = <<>>
        BY <4>1
      <4> QED BY <2>4, <2>9, <3>2, <4>2 DEF NamesBoards
    <3>5. p.callCount > 0
      BY <3>1, <3>4
    <3> QED BY <2>4, <2>9, <3>1, <3>5 DEF NamesBoards, InRange
  <2>10. CASE p.kind = "Opaque"
    BY <1>2, <2>1, <2>9, <2>10 DEF PayloadOK, p
  <2>11. CASE p.kind \in {"Atomic", "DefinitionRef"}
    BY <1>2, <2>1, <2>5, <2>6, <2>8, <2>11 DEF PayloadOK, p
  <2>12. CASE p.kind = "Instantiate"
    BY <1>2, <2>1, <2>7, <2>12 DEF PayloadOK, p
  <2>13. CASE p.kind \in {"Wait", "Loop"}
    BY <1>2, <2>1, <2>13 DEF PayloadOK, p
  <2> QED BY <2>2, <2>10, <2>11, <2>12, <2>13 DEF PayloadInside, Leaves
<1> QED BY <1>1, <1>2

\* All of validate, given what the builder guarantees.
LEMMA ReadableIsValid ==
    ASSUME NEW a, ArenaInside(a), a.root \in 1..Len(a.nodes),
           \A i \in 1..Len(a.nodes) :
             a.nodes[i].kind = "Opaque" => NamesBoards(a, a.payloads[a.nodes[i].payload])
    PROVE  Validate(a)
<1>1. /\ Sequences(a) /\ DOMAIN a.nodes = 1..Len(a.nodes) /\ DOMAIN a.templates = 1..Len(a.templates)
      /\ Len(a.edges) \in Nat
  BY SequenceFacts DEF ArenaInside, Sequences
<1>2. \A t \in 1..Len(a.templates) : a.templates[t] \in 1..Len(a.nodes)
  BY DEF ArenaInside
<1>3. ASSUME NEW i \in 1..Len(a.nodes)
      PROVE  /\ InRange(a.edges, a.nodes[i].edgeStart, a.nodes[i].edgeCount)
             /\ \A c \in Range(Children(a, i)) : c \in 1..Len(a.nodes)
             /\ ArityOK(a.nodes[i])
             /\ a.nodes[i].kind = "Serial" =>
                  InRange(a.boundaries, a.nodes[i].boundaryStart, BoundaryCount(a.nodes[i]))
             /\ PayloadOK(a, a.nodes[i])
  <2> DEFINE n == a.nodes[i]
             w == Children(a, i)
  <2>1. NodeInside(a, n)
    BY DEF ArenaInside
  <2>2. w = Window(a.edges, n.edgeStart, n.edgeCount)
    BY <1>1, <2>1, NodeReads
  <2>3. PayloadOK(a, n)
    BY <2>1, PayloadValid
  <2> HIDE DEF n, w
  <2>4. /\ n.edgeStart \in Nat /\ n.edgeCount \in Nat /\ n.edgeStart + n.edgeCount <= Len(a.edges)
        /\ n.kind \in {"Serial", "Parallel"} => n.edgeCount >= 2
        /\ n.kind = "Serial" => n.boundaryStart + (n.edgeCount - 1) <= Len(a.boundaries)
        /\ n.kind \notin {"Serial", "Parallel"} => n.edgeCount = IF n.kind = "Loop" THEN 1 ELSE 0
    BY <2>1 DEF NodeInside
  <2>5. ASSUME NEW k \in DOMAIN w PROVE w[k] \in 1..Len(a.nodes)
    <3>1. k \in 1..n.edgeCount /\ w[k] = a.edges[n.edgeStart + k]
      BY <2>2 DEF Window
    <3>2. n.edgeStart + k \in 1..Len(a.edges)
      BY <1>1, <2>4, <3>1, OffsetInside
    <3> QED BY <3>1, <3>2 DEF ArenaInside
  <2>6. \A c \in Range(w) : c \in 1..Len(a.nodes)
    BY <2>5 DEF Range
  <2>7. ArityOK(n)
    BY <2>4 DEF ArityOK
  <2>8. n.kind = "Serial" => InRange(a.boundaries, n.boundaryStart, BoundaryCount(n))
    BY <2>4 DEF InRange, BoundaryCount
  <2>9. InRange(a.edges, n.edgeStart, n.edgeCount)
    BY <2>4 DEF InRange
  <2> QED BY <2>3, <2>6, <2>7, <2>8, <2>9 DEF n, w
<1> QED BY <1>1, <1>2, <1>3 DEF Validate

\* So finish fails only where an opaque block that is kept names no boards.
LEMMA FailsForAReason ==
    ASSUME BuilderInv, NEW id \in 1..Len(nodes), ~Validate(Compact(id))
    PROVE  \E j \in Reachable(id) :
             nodes[j].kind = "Opaque" /\ ~NamesBoards(Builder, payloads[nodes[j].payload])
<1> DEFINE kept == Reachable(id)
           a == Compact(id)
<1> SUFFICES ASSUME \A j \in kept :
                      nodes[j].kind = "Opaque" => NamesBoards(Builder, payloads[nodes[j].payload])
             PROVE  Validate(a)
  OBVIOUS
<1>1. /\ kept \in SUBSET (1..Len(nodes)) /\ Len(nodes) \in Nat /\ id \in kept
      /\ CopyInv(kept, Len(nodes), a) /\ a.root = Remap(kept, id)
      /\ a.payloads = payloads /\ a.opaqueCalls = opaqueCalls
  BY CompactCopies
<1>2. ArenaInside(a)
  BY CompactInside
<1> HIDE DEF kept, a
<1>3. /\ Len(a.nodes) = Remap(kept, Len(nodes))
      /\ \A j \in kept : CopyOf(kept, a, j)
      /\ \A i \in 1..Len(a.nodes) : \E j \in kept : Remap(kept, j) = i
  BY <1>1 DEF CopyInv
<1>4. a.root \in 1..Len(a.nodes)
  BY <1>1, <1>3, RemapStrict
<1>5. \A p : NamesBoards(Builder, p) => NamesBoards(a, p)
  BY <1>1, BuilderFields DEF NamesBoards, OpaqueCalls
<1>6. ASSUME NEW i \in 1..Len(a.nodes), a.nodes[i].kind = "Opaque"
      PROVE  NamesBoards(a, a.payloads[a.nodes[i].payload])
  <2>1. PICK j \in kept : Remap(kept, j) = i
    BY <1>3
  <2>2. nodes[j].kind = "Opaque" /\ a.nodes[i].payload = nodes[j].payload
    BY <1>3, <1>6, <2>1 DEF CopyOf
  <2> QED BY <1>1, <1>5, <2>2
<1> QED BY <1>2, <1>4, <1>6, ReadableIsValid

\* Nothing is built once finish has answered, so what it answered stays true of the builder.
FinishInv == (finished # NotFinished => work = NoWork) /\ FinishPreserves /\ FinishErrorsJustified

\* finish has not been called.
LEMMA InitFinish == Init => FinishInv
BY DEF Init, FinishInv, FinishPreserves, FinishErrorsJustified, NotFinished

\* Nothing to show until finish is called.
LEMMA NotYetFinished ==
    ASSUME finished = NotFinished, finished' = finished
    PROVE  FinishInv'
BY DEF FinishInv, FinishPreserves, FinishErrorsJustified, NotFinished

\* What a root reaches and calls depends on the builder alone.
LEMMA SameErrors ==
    ASSUME UNCHANGED <<nodes, edges, payloads, opaqueCalls, templates>>
    PROVE  /\ \A id : Reachable(id)' = Reachable(id)
           /\ \A p : OpaqueCalls(Builder, p)' = OpaqueCalls(Builder, p)
<1>1. \A j : Children(Builder, j)' = Children(Builder, j)
  BY DEF Children, Builder, Slice
<1>2. \A id, marked : Closed(id, marked)' <=> Closed(id, marked)
  BY <1>1 DEF Closed
<1>3. \A id : Reachable(id)' = Reachable(id)
  BY <1>2 DEF Reachable
<1> QED BY <1>3 DEF OpaqueCalls, Builder, Slice

\* finish itself.
LEMMA FinishAnswers ==
    ASSUME ArenaInv, BuilderInv, NEW id, Finish(id)
    PROVE  FinishInv'
<1>1. /\ work' = NoWork
      /\ UNCHANGED <<nodes, edges, payloads, opaqueCalls, templates, meaning>>
      /\ finished' = IF id \notin DOMAIN nodes THEN [status |-> "foreign", root |-> id]
                     ELSE IF ~Validate(Compact(id)) THEN [status |-> "invalid", root |-> id]
                     ELSE [status |-> "arena", root |-> id, arena |-> Compact(id)]
  BY DEF Finish, Building, tables
<1>2. DOMAIN nodes = 1..Len(nodes) /\ DOMAIN templates = 1..Len(templates)
  BY TablesAreSequences, SequenceFacts
<1> DEFINE a == Compact(id)
<1>3. CASE id \notin DOMAIN nodes
  <2>1. finished'.status = "foreign"
    BY <1>1, <1>3
  <2> QED BY <1>1, <2>1 DEF FinishInv, FinishPreserves, FinishErrorsJustified
<1>4. CASE id \in DOMAIN nodes /\ ~Validate(a)
  <2>1. finished'.status = "invalid" /\ finished'.root = id
    BY <1>1, <1>4
  <2>2. PICK j \in Reachable(id) :
          nodes[j].kind = "Opaque" /\ ~NamesBoards(Builder, payloads[nodes[j].payload])
    BY <1>2, <1>4, FailsForAReason
  <2> DEFINE calls == OpaqueCalls(Builder, payloads[nodes[j].payload])
  <2>3. calls = <<>> \/ "" \in Range(calls)
    BY <2>2 DEF NamesBoards
  <2>4. j \in Reachable(id)' /\ OpaqueCalls(Builder, payloads[nodes[j].payload])' = calls
        /\ nodes'[j].kind = "Opaque"
    BY <1>1, <2>2, SameErrors
  <2> HIDE DEF calls
  <2>5. FinishErrorsJustified'
    BY <2>1, <2>3, <2>4 DEF FinishErrorsJustified
  <2> QED BY <1>1, <2>1, <2>5 DEF FinishInv, FinishPreserves
<1>5. CASE id \in DOMAIN nodes /\ Validate(a)
  <2>1. finished'.status = "arena" /\ finished'.root = id /\ finished'.arena = a
    BY <1>1, <1>5
  <2> DEFINE kept == Reachable(id)
             D == Denotation(a)
  <2>2. /\ id \in kept /\ a.root = Remap(kept, id) /\ Len(a.templates) = Len(templates)
        /\ \A t \in 1..Len(templates) : templates[t] \in kept /\ a.templates[t] = Remap(kept, templates[t])
    BY <1>2, <1>5, CompactCopies
  <2>3. \A j \in kept : D[Remap(kept, j)] = meaning[j]
    BY <1>2, <1>5, CompactDenotes
  <2>4. Precede(a.nodes, a.edges) /\ TemplatesPrecede(a.nodes, a.payloads, a.templates)
    BY <1>2, <1>5, CompactPrecedes
  <2>5. \A i \in DOMAIN a.nodes : i = a.root \/ i \in Range(a.templates) \cup Range(a.edges)
    BY <1>2, <1>5, KeptForAReason
  <2> HIDE DEF kept, a
  <2>6. D[a.root] = meaning[id] /\ \A t \in DOMAIN templates : D[a.templates[t]] = meaning[templates[t]]
    BY <1>2, <2>2, <2>3
  <2>7. FinishPreserves'
    BY <1>1, <2>1, <2>2, <2>4, <2>5, <2>6 DEF FinishPreserves
  <2> QED BY <1>1, <2>1, <2>7 DEF FinishInv, FinishErrorsJustified
<1> QED BY <1>3, <1>4, <1>5

\* No method changes the builder once finish has answered.
LEMMA StepFinish == ArenaInv /\ DenotesInv /\ FinishInv /\ [Next]_vars => FinishInv'
<1> SUFFICES ASSUME ArenaInv, DenotesInv, FinishInv, [Next]_vars PROVE FinishInv'
  OBVIOUS
<1>1. ASSUME NEW id, Finish(id) PROVE FinishInv'
  BY <1>1, FinishAnswers DEF DenotesInv
<1>2. ASSUME Building, finished' = finished PROVE FinishInv'
  BY <1>2, NotYetFinished DEF Building
<1>3. ASSUME NEW d, NEW args, DefinitionRef(d, args) PROVE FinishInv'
  BY <1>2, <1>3 DEF DefinitionRef, PushLeaf
<1>4. ASSUME NEW o, NEW args, Atomic(o, args) PROVE FinishInv'
  BY <1>2, <1>4 DEF Atomic, PushLeaf
<1>5. ASSUME NEW d, NEW calls, Opaque(d, calls) PROVE FinishInv'
  BY <1>2, <1>5 DEF Opaque, PushLeaf
<1>6. ASSUME NEW d, NEW s, TimeDisplacement(d, s) PROVE FinishInv'
  BY <1>2, <1>6 DEF TimeDisplacement, PushLeaf
<1>7. ASSUME NEW id, PublishTemplate(id) PROVE FinishInv'
  BY <1>2, <1>7 DEF PublishTemplate
<1>8. ASSUME NEW t, NEW c, Instantiate(t, c) PROVE FinishInv'
  BY <1>2, <1>8 DEF Instantiate, PushLeaf
<1>9. ASSUME NEW id, NEW c, LoopRegion(id, c) PROVE FinishInv'
  BY <1>2, <1>9 DEF LoopRegion
<1>10. ASSUME NEW kind, NEW children, NEW between, BeginComposition(kind, children, between)
       PROVE  FinishInv'
  BY <1>2, <1>10 DEF BeginComposition
<1>11. CASE FlattenChild \/ PushComposition
  <2>1. work # NoWork /\ finished' = finished
    BY <1>11 DEF FlattenChild, PushComposition
  <2>2. finished = NotFinished
    BY <2>1 DEF FinishInv
  <2> QED BY <2>1, <2>2, NotYetFinished
<1>12. CASE UNCHANGED vars
  <2>1. UNCHANGED <<nodes, edges, payloads, opaqueCalls, templates, finished, work, meaning>>
    BY <1>12 DEF vars
  <2>2. FinishErrorsJustified'
    BY <2>1, SameErrors DEF FinishInv, FinishErrorsJustified
  <2> QED BY <2>1, <2>2 DEF FinishInv, FinishPreserves
<1> QED BY <1>1, <1>3, <1>4, <1>5, <1>6, <1>7, <1>8, <1>9, <1>10, <1>11, <1>12 DEF Next, Compositions

\* So what finish answered is right in every behaviour.
LEMMA FinishInvariant == Spec => []FinishInv
BY DenotesInvariant, InitFinish, StepFinish, PTL DEF Spec

\* finish renumbers and drops nodes, and the arena it returns denotes the tree of the root and
\* of every published template, keeps nothing they do not reach, and is still ordered
\* (MorphismArenaBuilder::finish), for any number of nodes, templates and children.
THEOREM FinishFaithful == Spec => []FinishPreserves
<1>1. FinishInv => FinishPreserves
  BY DEF FinishInv
<1> QED BY <1>1, FinishInvariant, PTL

\* finish rejects a root of this builder only for an opaque block that is kept and calls no
\* board, or one without a name: every other check of validate always passes.
THEOREM FinishErrorsTrue == Spec => []FinishErrorsJustified
<1>1. FinishInv => FinishErrorsJustified
  BY DEF FinishInv
<1> QED BY <1>1, FinishInvariant, PTL
=============================================================================
