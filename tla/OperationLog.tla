----------------------------- MODULE OperationLog -----------------------------
(***************************************************************************)
(* What a durable run promises of its operations: they form one history,   *)
(* which every execution of the run walks from its beginning.  DBOS knows  *)
(* an operation by its function id, its place in the execution, so what an *)
(* execution issues there must be what the history holds there, and only   *)
(* an execution that has walked all of it may add to it.                   *)
(***************************************************************************)
EXTENDS Naturals, Sequences

VARIABLES
  history,   \* the operations ever issued, by function id
  issued     \* those this execution has issued

Init == history = <<>> /\ issued = <<>>

Reissue ==
  /\ Len(issued) < Len(history)
  /\ issued' = SubSeq(history, 1, Len(issued) + 1)
  /\ UNCHANGED history

Extend ==
  /\ issued = history
  /\ Len(issued') = Len(issued) + 1
  /\ SubSeq(issued', 1, Len(issued)) = issued
  /\ history' = issued'

Replay == issued' = <<>> /\ UNCHANGED history

Next == Reissue \/ Extend \/ Replay

Spec == Init /\ [][Next]_<<history, issued>>
=============================================================================
