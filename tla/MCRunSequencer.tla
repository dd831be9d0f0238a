---------------------------- MODULE MCRunSequencer ----------------------------
(***************************************************************************)
(* A run with two branches for TLC: one waits for an event, one only runs  *)
(* steps, and what the run does next depends on which ends first.  Where   *)
(* its own step fails a router throws on what that came to, and the first  *)
(* lane ends whatever the branches are at.                                 *)
(***************************************************************************)
EXTENDS RunSequencer

Lanes == {"root", "a", "b"}
Keys == {"after a", "after b", "approve", "approved", "late", "look up"}

Step(key) == [do |-> "step", key |-> key]
End == [do |-> "end"]

RootCode(seen) ==
  CASE Len(seen) = 0 -> [do |-> "spawn", lane |-> "a"]
    [] Len(seen) = 1 -> [do |-> "spawn", lane |-> "b"]
    [] Len(seen) = 2 -> [do |-> "joinAny", on |-> {"a", "b"}]
    [] Len(seen) = 3 -> Step(IF seen[3] = "a" THEN "after a" ELSE "after b")
    [] Len(seen) = 4 /\ seen[4] = "ok" -> [do |-> "joinAll", on |-> {"a", "b"}]
    [] OTHER -> End

ACode(seen) ==
  CASE Len(seen) = 0 -> [do |-> "wait", key |-> "approve"]
    [] Len(seen) = 1 -> Step(IF seen[1] = "answered" THEN "approved" ELSE "late")
    [] OTHER -> End

BCode(seen) ==
  CASE Len(seen) = 0 -> Step("look up")
    [] OTHER -> End

TwoBranches(l, seen) ==
  CASE l = "a" -> ACode(seen)
    [] l = "b" -> BCode(seen)
    [] OTHER -> RootCode(seen)
=============================================================================
