--------------------------- MODULE MCThreeWayMerge ---------------------------
(* Documents of two nodes for TLC: a's name and one parameter vary, b is   *)
(* there or not, and two lanes may join them.  A few documents of one node *)
(* differ in their settings, or in a parameter whose key "p.k" has a dot.  *)
EXTENDS ThreeWayMerge

CONSTANTS a, b, va, vb, x, y

Values == {None, va, [k |-> None], [k |-> va], [k |-> vb]}
Node(n, v, dotted) == [name |-> n, parameters |-> [q \in {"p", "p.k"} |-> IF q = "p" THEN v ELSE dotted]]
NodesA == {Node(n, v, None) : n \in {x, y}, v \in Values}
NodeB == Node(x, None, None)
Splits == [q \in {"p.k"} |-> <<"p", "k">>]

Two(n, edges) == [nodes |-> [i \in {a, b} |-> IF i = a THEN n ELSE NodeB], edges |-> edges, settings |-> None]
One(i, n) == [nodes |-> [j \in {i} |-> n], edges |-> {}, settings |-> None]

DottedDocs == {One(a, Node(x, v, dotted)) : v \in {None, va}, dotted \in {va, vb}}
SettledDocs == {[One(b, NodeB) EXCEPT !.settings = v] : v \in {None, va, vb}}

SmallDocs ==
  {Two(n, edges) : n \in NodesA, edges \in SUBSET {<<a, b, "main">>, <<a, b, "error">>}}
  \cup {One(a, n) : n \in NodesA} \cup {One(b, NodeB)}
  \cup {[nodes |-> [i \in {} |-> NodeB], edges |-> {}, settings |-> None]}
  \cup DottedDocs \cup SettledDocs

ByHand == {vb, NodeB}
=============================================================================
