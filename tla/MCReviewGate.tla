----------------------------- MODULE MCReviewGate -----------------------------
(***************************************************************************)
(* A small instance of ReviewGate for TLC.                                 *)
(***************************************************************************)
EXTENDS ReviewGate, TLC

UpTo4 == 1..4

\* Values, reviews, reviewers and testers are only compared for equality.
GateSymmetry ==
  Permutations(Value) \cup Permutations(ReviewId) \cup Permutations(Tester)

\* Bound: once a test has run there are three versions and one decision at
\* most; without tests there are four and two.
Tested == tests # {} \/ \E x \in Tester : testing[x] # None
SmallWhileTested == Tested => Cardinality(Minted) <= 3 /\ Cardinality(approvals) <= 1
=============================================================================
