--------------------------- MODULE MorphismArena ---------------------------
(***************************************************************************)
(* The Morphism DAG of catseq-core/src/morphism_arena.rs: the builder the  *)
(* frontend appends to, and finish(), which drops what the root does not   *)
(* reach and renumbers the rest.                                           *)
(*                                                                         *)
(* The storage is flat, as in the code: a node holds offsets into shared   *)
(* vectors of edges, boundaries, arguments and board calls.  Ids are       *)
(* 1-based and 0 stands for None.  The loop that flattens the children of  *)
(* a composition takes one iteration per step; finish is one step.         *)
(* Provenance is pushed with every node, so a node's provenance id is the  *)
(* position it was built at.                                               *)
(***************************************************************************)
EXTENDS Integers, Sequences, FiniteSets, SequencesExt

CONSTANTS
    Definitions, Operations, Channels,   \* the names that are interned
    Durations, Counts,                   \* ValueExprIds of waits and loops
    Arguments,                           \* argument lists, Seq(ValueExprId)
    BoardCalls,                          \* call lists of an opaque block
    MaxNodes, MaxLeaves, MaxTemplates, MaxChildren  \* bounds of the exploration

ASSUME ArenaAssumption ==
    /\ MaxNodes \in Nat /\ MaxLeaves \in Nat /\ MaxTemplates \in Nat /\ MaxChildren \in Nat
    /\ \A args \in Arguments \cup BoardCalls : args \in Seq(STRING)

BoundaryPolicy == {"Auto", "Strict"}
WaitSemantics == {"LogicalDisplacement", "PhysicalInterval"}
Leaves == {"Atomic", "Opaque", "Wait", "Instantiate", "DefinitionRef"}
Kinds == Leaves \cup {"Serial", "Parallel", "Loop"}

VARIABLES
    nodes, edges, boundaries, payloads, valueArguments, opaqueCalls,
    templates, definitions, operations, channels,   \* MorphismArenaBuilder
    work,       \* the composition being flattened
    finished,   \* what finish returned, and the root it was given
    meaning     \* history: the tree each call of the builder asked for

vars == <<nodes, edges, boundaries, payloads, valueArguments, opaqueCalls, templates,
          definitions, operations, channels, work, finished, meaning>>
tables == <<valueArguments, opaqueCalls, templates, definitions, operations, channels>>

NoWork == [kind |-> "none"]
NotFinished == [status |-> "building", root |-> 0]

-----------------------------------------------------------------------------
(* Reading an arena.                                                       *)

Builder == [nodes |-> nodes, edges |-> edges, boundaries |-> boundaries,
            payloads |-> payloads, valueArguments |-> valueArguments,
            opaqueCalls |-> opaqueCalls, templates |-> templates,
            definitions |-> definitions, operations |-> operations, channels |-> channels]

Slice(s, start, count) == SubSeq(s, start + 1, start + count)
InRange(s, start, count) == start + count <= Len(s)

Children(a, id) == Slice(a.edges, a.nodes[id].edgeStart, a.nodes[id].edgeCount)

\* saturating_sub: a Serial node with no child has no boundary.
BoundaryCount(n) == IF n.edgeCount = 0 THEN 0 ELSE n.edgeCount - 1

Boundaries(a, id) ==
    IF a.nodes[id].kind # "Serial" THEN <<>>
    ELSE Slice(a.boundaries, a.nodes[id].boundaryStart, BoundaryCount(a.nodes[id]))

PayloadArguments(a, p) ==
    IF p.kind \in {"Atomic", "DefinitionRef"}
    THEN Slice(a.valueArguments, p.argumentStart, p.argumentCount) ELSE <<>>

OpaqueCalls(a, p) ==
    IF p.kind = "Opaque" THEN Slice(a.opaqueCalls, p.callStart, p.callCount) ELSE <<>>

\* validate(): every check in the order of the code, node by node.
ArityOK(n) ==
    CASE n.kind \in {"Serial", "Parallel"} -> n.edgeCount >= 2
      [] n.kind = "Loop" -> n.edgeCount = 1
      [] OTHER -> n.edgeCount = 0

PayloadOK(a, n) ==
    IF n.kind \in {"Serial", "Parallel"} THEN n.payload = 0
    ELSE /\ n.payload \in 1..Len(a.payloads)
         /\ LET p == a.payloads[n.payload]
            IN /\ p.kind = n.kind
               /\ CASE p.kind = "Atomic" -> p.operation <= Len(a.operations)
                    [] p.kind = "Instantiate" -> /\ p.template <= Len(a.templates)
                                                 /\ p.channel <= Len(a.channels)
                    [] p.kind = "DefinitionRef" -> p.definition <= Len(a.definitions)
                    [] p.kind = "Opaque" -> /\ InRange(a.opaqueCalls, p.callStart, p.callCount)
                                            /\ p.callCount > 0
                                            /\ "" \notin Range(OpaqueCalls(a, p))
                    [] OTHER -> TRUE
               /\ p.kind \in {"Atomic", "DefinitionRef"} =>
                    InRange(a.valueArguments, p.argumentStart, p.argumentCount)

Validate(a) ==
    /\ a.root \in DOMAIN a.nodes
    /\ \A t \in DOMAIN a.templates : a.templates[t] \in DOMAIN a.nodes
    /\ \A id \in DOMAIN a.nodes :
         LET n == a.nodes[id]
         IN /\ InRange(a.edges, n.edgeStart, n.edgeCount)
            /\ \A c \in Range(Children(a, id)) : c \in DOMAIN a.nodes
            /\ ArityOK(n)
            /\ n.kind = "Serial" => InRange(a.boundaries, n.boundaryStart, BoundaryCount(n))
            /\ PayloadOK(a, n)

-----------------------------------------------------------------------------
(* Appending.  Intern returns the table with the name in it; IdOf the id   *)
(* the HashMap next to the vector gives it.                                *)

Intern(table, name) == IF name \in Range(table) THEN table ELSE Append(table, name)
IdOf(table, name) == CHOOSE i \in DOMAIN table : table[i] = name

PushNode(kind, edgeCount, payload) ==
    nodes' = Append(nodes, [kind |-> kind, edgeStart |-> Len(edges), edgeCount |-> edgeCount,
                            boundaryStart |-> Len(boundaries), payload |-> payload,
                            provenance |-> Len(nodes) + 1])

PushLeaf(payload, tree) ==
    /\ payloads' = Append(payloads, payload)
    /\ PushNode(payload.kind, 0, Len(payloads) + 1)
    /\ meaning' = Append(meaning, tree)
    /\ UNCHANGED <<edges, boundaries, work, finished>>

Building ==
    /\ finished = NotFinished
    /\ work = NoWork
Room == Len(nodes) < MaxNodes
LeafRoom == Room /\ Cardinality({id \in DOMAIN nodes : nodes[id].kind \in Leaves}) < MaxLeaves

DefinitionRef(definition, arguments) ==
    /\ Building /\ LeafRoom
    /\ definitions' = Intern(definitions, definition)
    /\ valueArguments' = valueArguments \o arguments
    /\ PushLeaf([kind |-> "DefinitionRef", definition |-> IdOf(definitions', definition),
                 argumentStart |-> Len(valueArguments), argumentCount |-> Len(arguments)],
                <<"DefinitionRef", definition, arguments>>)
    /\ UNCHANGED <<opaqueCalls, templates, operations, channels>>

Atomic(operation, arguments) ==
    /\ Building /\ LeafRoom
    /\ operations' = Intern(operations, operation)
    /\ valueArguments' = valueArguments \o arguments
    /\ PushLeaf([kind |-> "Atomic", operation |-> IdOf(operations', operation),
                 argumentStart |-> Len(valueArguments), argumentCount |-> Len(arguments)],
                <<"Atomic", operation, arguments>>)
    /\ UNCHANGED <<opaqueCalls, templates, definitions, channels>>

Opaque(duration, calls) ==
    /\ Building /\ LeafRoom
    /\ opaqueCalls' = opaqueCalls \o calls
    /\ PushLeaf([kind |-> "Opaque", duration |-> duration,
                 callStart |-> Len(opaqueCalls), callCount |-> Len(calls)],
                <<"Opaque", duration, calls>>)
    /\ UNCHANGED <<valueArguments, templates, definitions, operations, channels>>

\* logical_shift and physical_wait.
TimeDisplacement(duration, semantics) ==
    /\ Building /\ LeafRoom
    /\ PushLeaf([kind |-> "Wait", duration |-> duration, semantics |-> semantics],
                <<"Wait", duration, semantics>>)
    /\ UNCHANGED tables

PublishTemplate(body) ==
    /\ Building
    /\ Len(templates) < MaxTemplates
    /\ templates' = Append(templates, body)
    /\ UNCHANGED <<nodes, edges, boundaries, payloads, valueArguments, opaqueCalls,
                   definitions, operations, channels, work, finished, meaning>>

Instantiate(template, channel) ==
    /\ Building /\ LeafRoom
    /\ channels' = Intern(channels, channel)
    /\ PushLeaf([kind |-> "Instantiate", template |-> template,
                 channel |-> IdOf(channels', channel)],
                <<"Instantiate", meaning[templates[template]], channel>>)
    /\ UNCHANGED <<valueArguments, opaqueCalls, templates, definitions, operations>>

\* Mutant: the loop takes the id it is about to get for its body's.
LoopRegionOfItself(body, count) ==
    /\ Building /\ Room
    /\ edges' = Append(edges, Len(nodes) + 1)
    /\ payloads' = Append(payloads, [kind |-> "Loop", count |-> count])
    /\ PushNode("Loop", 1, Len(payloads) + 1)
    /\ meaning' = Append(meaning, <<"Loop", meaning[body], count>>)
    /\ UNCHANGED <<boundaries, tables, work, finished>>

LoopRegion(body, count) ==
    /\ Building /\ Room
    /\ edges' = Append(edges, body)
    /\ payloads' = Append(payloads, [kind |-> "Loop", count |-> count])
    /\ PushNode("Loop", 1, Len(payloads) + 1)
    /\ meaning' = Append(meaning, <<"Loop", meaning[body], count>>)
    /\ UNCHANGED <<boundaries, tables, work, finished>>

-----------------------------------------------------------------------------
(* serial and parallel.  A child of the same kind is replaced by its own   *)
(* children, and for Serial by its own boundaries.                         *)

\* The assertions at the head of serial and parallel.
BeginComposition(kind, children, between) ==
    /\ Building /\ Room
    /\ Len(children) >= 2
    /\ Len(between) = IF kind = "Serial" THEN Len(children) - 1 ELSE 0
    /\ work' = [kind |-> kind, asked |-> children, between |-> between, next |-> 1,
                children |-> <<>>, boundaries |-> <<>>]
    /\ UNCHANGED <<nodes, edges, boundaries, payloads, tables, finished, meaning>>

\* Mutant: the boundary before a flattened child goes behind its own.
FlattenChildJointBehind ==
    /\ work # NoWork
    /\ work.next <= Len(work.asked)
    /\ LET child == work.asked[work.next]
           same == nodes[child].kind = work.kind
           joint == IF work.kind = "Serial" /\ work.next > 1
                    THEN <<work.between[work.next - 1]>> ELSE <<>>
       IN work' = [work EXCEPT
             !.next = @ + 1,
             !.children = @ \o IF same THEN Children(Builder, child) ELSE <<child>>,
             !.boundaries = @ \o (IF same THEN Boundaries(Builder, child) ELSE <<>>) \o joint]
    /\ UNCHANGED <<nodes, edges, boundaries, payloads, tables, finished, meaning>>

FlattenChild ==
    /\ work # NoWork
    /\ work.next <= Len(work.asked)
    /\ LET child == work.asked[work.next]
           same == nodes[child].kind = work.kind
           joint == IF work.kind = "Serial" /\ work.next > 1
                    THEN <<work.between[work.next - 1]>> ELSE <<>>
       IN work' = [work EXCEPT
             !.next = @ + 1,
             !.children = @ \o IF same THEN Children(Builder, child) ELSE <<child>>,
             !.boundaries = @ \o joint \o IF same THEN Boundaries(Builder, child) ELSE <<>>]
    /\ UNCHANGED <<nodes, edges, boundaries, payloads, tables, finished, meaning>>

\* Reference: composition is associative, so the tree asked for is the pairwise
\* composition of the trees of the children.
Elems(kind, tree) == IF tree[1] = kind THEN tree[2] ELSE <<tree>>
Joints(kind, tree) == IF tree[1] = kind THEN tree[3] ELSE <<>>
Compose(kind, t, joint, u) ==
    <<kind, Elems(kind, t) \o Elems(kind, u), Joints(kind, t) \o joint \o Joints(kind, u)>>
Composed(kind, trees, between) ==
    LET T[n \in 1..Len(trees)] ==
          IF n = 1 THEN trees[1]
          ELSE Compose(kind, T[n - 1], IF kind = "Serial" THEN <<between[n - 1]>> ELSE <<>>,
                       trees[n])
    IN T[Len(trees)]

PushComposition ==
    /\ work # NoWork
    /\ work.next > Len(work.asked)
    /\ edges' = edges \o work.children
    /\ boundaries' = boundaries \o work.boundaries
    /\ PushNode(work.kind, Len(work.children), 0)
    /\ meaning' = Append(meaning, Composed(work.kind,
                     [i \in DOMAIN work.asked |-> meaning[work.asked[i]]], work.between))
    /\ work' = NoWork
    /\ UNCHANGED <<payloads, tables, finished>>

-----------------------------------------------------------------------------
(* finish(root).                                                           *)

\* The nodes marked from the root and from every template: they and the children
\* of every marked node.
Closed(id, marked) ==
    /\ {id} \cup Range(templates) \subseteq marked
    /\ \A j \in marked : Range(Children(Builder, j)) \subseteq marked
Reachable(id) ==
    {j \in DOMAIN nodes : \A marked \in SUBSET DOMAIN nodes : Closed(id, marked) => j \in marked}

\* Mutant: ids counted without the node itself.
RemapFromZero(kept, id) == Cardinality({j \in kept : j < id})

\* The new id of a reachable node: the nodes kept up to it.
Remap(kept, id) == Cardinality({j \in kept : j <= id})

\* A node that is kept keeps its kind, payload and provenance; its slices are
\* copied behind those of the nodes before it.
CopyNode(kept, copy, old) ==
    [nodes |-> Append(copy.nodes, [nodes[old] EXCEPT !.edgeStart = Len(copy.edges),
                                              !.boundaryStart = Len(copy.boundaries)]),
     edges |-> copy.edges \o [k \in DOMAIN Children(Builder, old) |->
                                Remap(kept, Children(Builder, old)[k])],
     boundaries |-> copy.boundaries \o Boundaries(Builder, old)]

Copied(kept) ==
    LET Upto[n \in 0..Len(nodes)] ==
          IF n = 0 THEN [nodes |-> <<>>, edges |-> <<>>, boundaries |-> <<>>]
          ELSE IF n \in kept THEN CopyNode(kept, Upto[n - 1], n) ELSE Upto[n - 1]
    IN Upto[Len(nodes)]

\* Mutant: the templates keep the ids of the builder.
StaleTemplates(kept) == templates

RemappedTemplates(kept) == [t \in DOMAIN templates |-> Remap(kept, templates[t])]

Compact(id) ==
    LET kept == Reachable(id)
        copied == Copied(kept)
    IN [root |-> Remap(kept, id), nodes |-> copied.nodes, edges |-> copied.edges,
        boundaries |-> copied.boundaries, payloads |-> payloads,
        valueArguments |-> valueArguments, opaqueCalls |-> opaqueCalls,
        templates |-> RemappedTemplates(kept),
        definitions |-> definitions, operations |-> operations, channels |-> channels]

\* The root handed over may be an id of another builder.
Finish(id) ==
    /\ Building
    /\ finished' = IF id \notin DOMAIN nodes THEN [status |-> "foreign", root |-> id]
                   ELSE IF ~Validate(Compact(id)) THEN [status |-> "invalid", root |-> id]
                   ELSE [status |-> "arena", root |-> id, arena |-> Compact(id)]
    /\ UNCHANGED <<nodes, edges, boundaries, payloads, tables, work, meaning>>

-----------------------------------------------------------------------------
Init ==
    /\ nodes = <<>> /\ edges = <<>> /\ boundaries = <<>> /\ payloads = <<>>
    /\ valueArguments = <<>> /\ opaqueCalls = <<>> /\ templates = <<>>
    /\ definitions = <<>> /\ operations = <<>> /\ channels = <<>>
    /\ work = NoWork
    /\ finished = NotFinished /\ meaning = <<>>

Ids == 1..Len(nodes)
ChildLists == UNION {[1..n -> Ids] : n \in 2..MaxChildren}

Compositions ==
    \E children \in ChildLists :
        \/ \E between \in [1..(Len(children) - 1) -> BoundaryPolicy] :
             BeginComposition("Serial", children, between)
        \/ BeginComposition("Parallel", children, <<>>)

Next ==
    \/ \E args \in Arguments :
         \/ \E d \in Definitions : DefinitionRef(d, args)
         \/ \E o \in Operations : Atomic(o, args)
    \/ \E d \in Durations :
         \/ \E calls \in BoardCalls : Opaque(d, calls)
         \/ \E s \in WaitSemantics : TimeDisplacement(d, s)
    \/ \E id \in Ids : id = Len(nodes) /\ PublishTemplate(id)  \* the body lowered last
    \/ \E t \in DOMAIN templates, c \in Channels : Instantiate(t, c)
    \/ \E id \in Ids, c \in Counts : LoopRegion(id, c)
    \/ Compositions
    \/ FlattenChild
    \/ PushComposition
    \/ \E id \in 1..(Len(nodes) + 1) : Finish(id)

Spec == Init /\ [][Next]_vars

-----------------------------------------------------------------------------
(* What the passes over an arena rely on.                                  *)

Precede(ns, es) ==
    \A id \in 1..Len(ns) : \A k \in 1..ns[id].edgeCount : es[ns[id].edgeStart + k] < id
TemplatesPrecede(ns, ps, ts) ==
    \A id \in 1..Len(ns) : ns[id].kind = "Instantiate" => ts[ps[ns[id].payload].template] < id

\* The children of a node and the body of the template it instantiates precede
\* it, whatever the builder has flattened and appended: the DAG is acyclic, and one
\* forward pass sees every operand first, as analyze_timing and analyze_epochs
\* assume.
ChildrenPrecede == Precede(nodes, edges) /\ TemplatesPrecede(nodes, payloads, templates)

\* The tree an arena stores under an id, given those of the ids before it in D.
LeafTree(a, D, p) ==
    CASE p.kind = "Atomic" -> <<"Atomic", a.operations[p.operation], PayloadArguments(a, p)>>
      [] p.kind = "DefinitionRef" ->
           <<"DefinitionRef", a.definitions[p.definition], PayloadArguments(a, p)>>
      [] p.kind = "Opaque" -> <<"Opaque", p.duration, OpaqueCalls(a, p)>>
      [] p.kind = "Wait" -> <<"Wait", p.duration, p.semantics>>
      [] p.kind = "Instantiate" ->
           <<"Instantiate", D[a.templates[p.template]], a.channels[p.channel]>>
Below(a, D, id) == [k \in DOMAIN Children(a, id) |-> D[Children(a, id)[k]]]
Tree(a, D, id) ==
    LET n == a.nodes[id]
    IN CASE n.kind \in {"Serial", "Parallel"} -> <<n.kind, Below(a, D, id), Boundaries(a, id)>>
         [] n.kind = "Loop" -> <<"Loop", Below(a, D, id)[1], a.payloads[n.payload].count>>
         [] OTHER -> LeafTree(a, D, a.payloads[n.payload])
Denotation(a) ==
    LET D[id \in DOMAIN a.nodes] == Tree(a, D, id)
    IN D

\* Every id handed out keeps denoting what was asked for when it was built:
\* no later append shifts its slices or its interned names, and flattening
\* neither loses a child nor misaligns a boundary.
BuilderDenotes == Denotation(Builder) = meaning

\* finish renumbers and drops nodes and still denotes the tree of the root and
\* of every published template, and keeps nothing else: every node kept is the
\* root, a template root or the child of a kept node.  Operands still precede.
FinishPreserves ==
    finished.status = "arena" =>
      LET a == finished.arena
          D == Denotation(a)
      IN /\ D[a.root] = meaning[finished.root]
         /\ Len(a.templates) = Len(templates)
         /\ \A t \in DOMAIN templates : D[a.templates[t]] = meaning[templates[t]]
         /\ \A id \in DOMAIN a.nodes : id = a.root \/ id \in Range(a.templates) \cup Range(a.edges)
         /\ Precede(a.nodes, a.edges) /\ TemplatesPrecede(a.nodes, a.payloads, a.templates)

\* finish fails only for a root of another builder or an opaque block that is
\* kept and calls no board, or one without a name: an unused one does not stop the
\* program.
FinishErrorsJustified ==
    finished.status = "invalid" =>
      \E id \in Reachable(finished.root) :
        /\ nodes[id].kind = "Opaque"
        /\ LET calls == OpaqueCalls(Builder, payloads[nodes[id].payload])
           IN calls = <<>> \/ "" \in Range(calls)
=============================================================================
