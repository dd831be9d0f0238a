-------------------------- MODULE MCPlanInterpreter --------------------------
(***************************************************************************)
(* A plan for TLC with every kind of node: a fork, and a step after it.    *)
(* One of its branches has a step with an error lane, and one after that;  *)
(* beside them a branch into a loop or past it, with a join of the two,    *)
(* whose router may throw while the step runs.  The other branch tolerates *)
(* a failure and goes on into a loop.  A fork of no branches ends the      *)
(* error lane, and the loop's step has an error lane of no nodes.          *)
(***************************************************************************)
EXTENDS PlanInterpreter

PlanNodes ==
  [root |-> <<"fork", "report">>,
   left |-> <<"guess", "if", "poll", "join", "thank">>,
   leftHandler |-> <<"retract", "all">>,
   right |-> <<"try", "each">>,
   pollBody |-> <<"ask">>,
   eachBody |-> <<"item">>,
   itemHandler |-> <<>>]

Levels == DOMAIN PlanNodes
Nodes == UNION {Range(PlanNodes[p]) : p \in Levels}

Kinds ==
  [n \in Nodes |-> CASE n = "if" -> "router" [] n \in {"fork", "all"} -> "parallel" [] n = "poll" -> "while"
                     [] n = "each" -> "forEach" [] OTHER -> "leaf"]

NestedIn ==
  [n \in Nodes |-> CASE n = "fork" -> <<"left", "right">>
                     [] n = "guess" -> <<"leftHandler">> [] n = "poll" -> <<"pollBody">>
                     [] n = "each" -> <<"eachBody">> [] n = "item" -> <<"itemHandler">> [] OTHER -> <<>>]

From(source, p) == [source |-> source, port |-> p]

\* "each" is also wired from a node of the other branch, which never reaches it.
Wires ==
  [n \in Nodes |-> CASE n = "poll" -> {From("if", 0)}
                     [] n = "each" -> {From("try", 0), From("if", 0)}
                     [] n = "join" -> {From("if", 1), From("poll", 0)}
                     [] n = "thank" -> {From("guess", 0)}
                     [] n = "report" -> {From("fork", 0)}
                     [] n = "all" -> {From("retract", 0)}
                     [] OTHER -> {}]
=============================================================================
