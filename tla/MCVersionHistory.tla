-------------------------- MODULE MCVersionHistory --------------------------
(***************************************************************************)
(* Small instances of VersionHistory for TLC.                              *)
(***************************************************************************)
EXTENDS VersionHistory, TLC

UpTo5 == 1..5

\* Values are only compared for equality, and so are the ids of branches
\* other than the default one.
ValueSymmetry == Permutations(Value)
FullSymmetry == Permutations(Value) \cup Permutations(BranchId \ {Main})

\* Bound: three versions with everything happening to them; a fourth and a
\* fifth only where two branches merge back and forth, without rollbacks,
\* protection or a recreated branch.
SmallUnlessPlain ==
  Cardinality(Minted) > 3 =>
    /\ Cardinality(used) <= 2
    /\ \A s \in Session : restoring[s] = None
    /\ \A v \in Minted : ver[v].restored = None
    /\ \A b \in Live : ~branches[b].isProtected
=============================================================================
