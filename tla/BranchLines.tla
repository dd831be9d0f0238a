----------------------------- MODULE BranchLines -----------------------------
(***************************************************************************)
(* What the version store promises of a branch: it is a line, starting at  *)
(* the version it was forked from and growing one new version at a time at *)
(* its end, where `latest` stands.  How versions are numbered, linked and  *)
(* merged is left to VersionHistory, which implements this.                *)
(***************************************************************************)
EXTENDS Sequences, Naturals, Functions

CONSTANTS VersionId, BranchId, None

VARIABLES
  fork,    \* live branch -> the version it was forked from, or None
  line,    \* live branch -> the versions it minted, oldest first
  latest   \* live branch that stands at a version -> that version

vars == <<fork, line, latest>>

Live == DOMAIN line

StandsAt(f, l) == IF l = <<>> THEN f ELSE l[Len(l)]

\* What `latest` must be on these lines.
LatestOf(forks, lines) ==
  [b \in {c \in DOMAIN lines : StandsAt(forks[c], lines[c]) # None} |->
     StandsAt(forks[b], lines[b])]

OnLines(v) == \E b \in Live : v \in Range(line[b]) \cup {fork[b]}

Init ==
  \E b \in BranchId, first \in {<<>>} \cup {<<v>> : v \in VersionId} :
    /\ fork = [c \in {b} |-> None]
    /\ line = [c \in {b} |-> first]
    /\ latest = LatestOf(fork, line)

\* A new version at the end of t's line, and the branches `gone` dropped.
Grow(t, v, gone) ==
  /\ ~OnLines(v)
  /\ t \notin gone
  /\ line' = Restrict([line EXCEPT ![t] = Append(@, v)], Live \ gone)
  /\ fork' = Restrict(fork, Live \ gone)
  /\ latest' = LatestOf(fork', line')

Fork(b, from) ==
  /\ b \notin Live
  /\ line' = [c \in Live \cup {b} |-> IF c = b THEN <<>> ELSE line[c]]
  /\ fork' = [c \in Live \cup {b} |-> IF c = b THEN from ELSE fork[c]]
  /\ latest' = LatestOf(fork', line')

Drop(b) ==
  /\ line' = Restrict(line, Live \ {b})
  /\ fork' = Restrict(fork, Live \ {b})
  /\ latest' = LatestOf(fork', line')

Next ==
  \/ \E t \in Live, v \in VersionId, gone \in SUBSET Live : Grow(t, v, gone)
  \/ \E b \in BranchId, from \in VersionId \cup {None} : Fork(b, from)
  \/ \E b \in Live : Drop(b)

Spec == Init /\ [][Next]_vars
=============================================================================
