----------------------------- MODULE ScanLayout -----------------------------
(***************************************************************************)
(* The repeat and scan nodes of a DescartesGenerator                       *)
(* (catseq/experiment/descartes.py) and the points they span.              *)
(*                                                                         *)
(* A node is [param, values]: the parameter it sets, or NoParam for a      *)
(* repeat without idx_param, and one value per iteration; a repeat's       *)
(* values are its indexes.  Coordinates are the iteration of every node,   *)
(* counted from zero, outermost first.                                     *)
(***************************************************************************)
EXTENDS Naturals, Sequences, FiniteSets

NoParam == "no param"
EmptyParams == [p \in {} |-> 0]

Size(nodes, i) == Len(nodes[i].values)

\* ExpParams.with_value at one node; nothing where the node has no parameter.
WithValue(params, node, index) ==
    IF node.param = NoParam THEN params
    ELSE [p \in DOMAIN params \cup {node.param} |->
            IF p = node.param THEN node.values[index + 1] ELSE params[p]]

\* The nodes that set a parameter, and the one that sets p: no two nodes set
\* the same parameter (_register_param).
Setters(nodes) == {i \in DOMAIN nodes : nodes[i].param # NoParam}
Setter(nodes, p) == CHOOSE i \in Setters(nodes) : nodes[i].param = p

\* The ExpParams of a point from its coordinates.
ParamsAt(nodes, coords) ==
    [p \in {nodes[i].param : i \in Setters(nodes)} |->
        nodes[Setter(nodes, p)].values[coords[Setter(nodes, p)] + 1]]

\* The search of _next_scan_point: the innermost node with an iteration left.
IsPosition(nodes, coords, position) ==
    /\ coords[position] + 1 < Size(nodes, position)
    /\ \A i \in DOMAIN nodes : i > position => coords[i] + 1 >= Size(nodes, i)

\* Mutant of NextCoordinates: the deeper nodes keep their iteration.
NextWithoutReset(nodes, coords, position) == [coords EXCEPT ![position] = @ + 1]

\* The coordinates _next_scan_point gives the next point: that node goes on
\* and the deeper ones restart.
NextCoordinates(nodes, coords, position) ==
    [i \in DOMAIN nodes |->
        IF i < position THEN coords[i] ELSE IF i = position THEN coords[i] + 1 ELSE 0]

-----------------------------------------------------------------------------
(* The reference: the points of a layout in lexicographic order. *)

Points(nodes) ==
    {c \in [DOMAIN nodes -> UNION {0..Size(nodes, i) : i \in DOMAIN nodes}] :
        \A i \in DOMAIN nodes : c[i] < Size(nodes, i)}

Before(c, d) ==
    \E i \in DOMAIN c : c[i] < d[i] /\ \A j \in DOMAIN c : j < i => c[j] = d[j]

\* How many points precede c.
PointRank(nodes, c) == Cardinality({d \in Points(nodes) : Before(d, c)})
=============================================================================
