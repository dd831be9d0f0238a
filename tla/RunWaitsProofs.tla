---------------------------- MODULE RunWaitsProofs ----------------------------
(***************************************************************************)
(* Proofs about RunWaits, for every number of waits, deciders, crashes,    *)
(* lost writes and failed sends.                                           *)
(***************************************************************************)
EXTENDS RunWaits, TLAPS

(* The end that a cancel or a limit is about to record is the run's first. *)
EndingRunGoesOn == ending # None => ~isTerminal

(* A run that completed has left its lanes, and no recovery re-enters it.  *)
CompletedRunIsOver == run.status = "completed" => engine # "running"

(* A step waits only once it is on record.                                 *)
WaitsStarted(rows) == \A w \in Wait : rows[w].waitingOn => rows[w].started

RowsOK(rows) == rows \in [Wait -> StepRow] /\ WaitsStarted(rows)

IInv ==
  /\ TypeOK
  /\ WaitsStarted(steps)
  /\ ParkedRunWaits
  /\ EndingRunGoesOn
  /\ CompletedRunIsOver

\* What EndIsFinal asks of one step.
EndKept == run.status \in {"cancelled", "completed"} \/ limitEnded => run' = run

\* Where a step may leave the history: consistent, and a recorded end kept.
HistoryKept ==
  /\ run' \in RunRow
  /\ run'.reason # "none" => run'.status = "error"
  /\ RowsOK(steps')
  /\ ParkedRunWaits'
  /\ EndKept

\* The run neither ends nor comes back.
EndUntouched == IF isTerminal THEN run' = run ELSE ~isTerminal'

-----------------------------------------------------------------------------
(* A run whose wait is derived from all of its steps' rows reads `waiting` *)
(* if one of them is parked, and one that has ended is left alone.         *)
LEMMA DerivedWait ==
  ASSUME IInv, NEW rows, RowsOK(rows), WriteWaits(rows)
  PROVE  HistoryKept /\ EndUntouched
<1>1. CASE isTerminal
  <2>1. run' = run /\ steps' = rows
    BY <1>1 DEF WriteWaits, deriveRunWait, isTerminal
  <2> QED BY <1>1, <2>1
       DEF IInv, TypeOK, HistoryKept, EndKept, EndUntouched, ParkedRunWaits, Parked, isTerminal
<1>2. CASE ~isTerminal
  <2>1. run \in RunRow /\ run.status \in {"running", "waiting"} /\ run.reason = "none"
    BY <1>2 DEF IInv, TypeOK, RunRow, isTerminal
  <2>2. steps' = rows /\ run' = [run EXCEPT !.status =
          IF \E w \in Wait : IsParked(rows[w]) THEN "waiting" ELSE "running"]
    BY <2>1 DEF WriteWaits, deriveRunWait
  <2>3. run' \in RunRow /\ run'.reason = "none" /\ run'.status \in {"running", "waiting"}
    BY <2>1, <2>2 DEF RunRow
  <2>4. Parked' # {} => run'.status = "waiting"
    BY <2>1, <2>2 DEF Parked, RunRow
  <2> QED BY <1>2, <2>1, <2>2, <2>3, <2>4
       DEF HistoryKept, EndKept, EndUntouched, ParkedRunWaits, isTerminal, limitEnded
<1> QED BY <1>1, <1>2

(* Steps whose waits only end leave a run's reading right.                 *)
LEMMA WaitsOnlyEnd ==
  ASSUME IInv, RowsOK(steps'), UNCHANGED run,
         \A w \in Wait : IsParked(steps[w])' => IsParked(steps[w])
  PROVE  HistoryKept /\ EndUntouched
<1>1. Parked' \subseteq Parked
  BY DEF Parked
<1> QED BY <1>1
     DEF IInv, TypeOK, HistoryKept, EndKept, EndUntouched, ParkedRunWaits, isTerminal

LEMMA HistoryUnchanged ==
  ASSUME IInv, UNCHANGED history
  PROVE  HistoryKept /\ EndUntouched
<1>1. RowsOK(steps') /\ run' = run /\ steps' = steps
  BY DEF IInv, TypeOK, RowsOK, WaitsStarted, history
<1> QED BY <1>1, WaitsOnlyEnd DEF IsParked

\* Rewriting a run's end as the run itself, a cancel or a pass does.
LEMMA RunEnded ==
  ASSUME IInv, RowsOK(steps'),
         isTerminal', run' \in RunRow, run'.reason # "none" => run'.status = "error",
         EndKept
  PROVE  HistoryKept
BY DEF HistoryKept, ParkedRunWaits
-----------------------------------------------------------------------------
(* One write to a step's row.                                              *)
LEMMA StepStartedOK ==
  ASSUME IInv, NEW w \in Wait, stepStarted(w)
  PROVE  RowsOK(steps') /\ \A x \in Wait : IsParked(steps[x])' => IsParked(steps[x])
<1> DEFINE new == [steps[w] EXCEPT !.started = TRUE]
<1>1. \A x \in Wait : steps[x] \in StepRow
  BY DEF IInv, TypeOK
<1>2. /\ new \in StepRow /\ new.started
      /\ new.waitingOn = steps[w].waitingOn /\ new.finished = steps[w].finished
  BY <1>1 DEF StepRow
<1>3. steps' = [steps EXCEPT ![w] = new]
  BY DEF stepStarted
<1> HIDE DEF new
<1> QED BY <1>1, <1>2, <1>3 DEF IInv, TypeOK, RowsOK, WaitsStarted, IsParked

LEMMA StepWaitingOK ==
  ASSUME IInv, NEW w \in Wait, stepWaiting(w)
  PROVE  HistoryKept /\ EndUntouched
<1> DEFINE row == steps[w]
           waits == row.waitingOn \/ (row.started /\ ~row.finished /\ ~row.resumed)
           rows == [steps EXCEPT ![w] = [row EXCEPT !.waitingOn = waits]]
<1>1. \A x \in Wait : steps[x] \in StepRow
  BY DEF IInv, TypeOK
<1>2. waits \in BOOLEAN
  OBVIOUS
<1>3. [row EXCEPT !.waitingOn = waits] \in StepRow
  BY <1>1, <1>2 DEF StepRow
<1>4. waits => row.started
  BY DEF IInv, WaitsStarted
<1>5. RowsOK(rows)
  BY <1>1, <1>3, <1>4 DEF IInv, TypeOK, RowsOK, WaitsStarted, StepRow
<1>6. WriteWaits(rows)
  BY DEF stepWaiting
<1> HIDE DEF rows
<1> QED BY <1>5, <1>6, DerivedWait

LEMMA StepResumedOK ==
  ASSUME IInv, NEW w \in Wait, NEW answered, stepResumed(w, answered)
  PROVE  HistoryKept /\ EndUntouched
<1> DEFINE row == steps[w]
           credit == IF answered /\ row.claim # None THEN row.claim ELSE row.decidedBy
           resumed == [clearWait(row) EXCEPT !.resumed = TRUE, !.decidedBy = credit]
           new == IF row.started THEN resumed ELSE row
           rows == [steps EXCEPT ![w] = new]
<1>1. \A x \in Wait : steps[x] \in StepRow
  BY DEF IInv, TypeOK
<1>2. credit \in Decider \cup {None}
  BY <1>1 DEF StepRow
<1>3. resumed \in StepRow /\ ~resumed.waitingOn
  BY <1>1, <1>2 DEF StepRow, clearWait
<1>4. new \in StepRow /\ (new.waitingOn => new.started)
  BY <1>1, <1>3 DEF IInv, WaitsStarted
<1>5. RowsOK(rows)
  <2> HIDE DEF new
  <2> QED BY <1>1, <1>4 DEF IInv, TypeOK, RowsOK, WaitsStarted
<1>6. WriteWaits(rows)
  BY DEF stepResumed
<1> HIDE DEF rows
<1> QED BY <1>5, <1>6, DerivedWait
-----------------------------------------------------------------------------
(* The parts of a step beside the history.                                 *)
ControlOK ==
  /\ due \in [Wait -> {"open", "margin", "past"}]
  /\ inbox \in [Wait -> Decider \cup {None}]
  /\ taken \in [Wait -> Decider \cup {None, Timeout}]
  /\ workflow \in {"pending", "ended", "cancelled"}
  /\ engine \in {"down", "recovering", "running", "recorded", "cleared", "over"}
  /\ lane \in [Wait -> {"idle", "gated", "parked", "got", "resumed", "settling", "done",
                        "failing", "settlingFailed", "failed"}]
  /\ ending \in {"cancelled", "limit", None}
  /\ request \in [Decider -> Request]
  /\ resending \subseteq Wait \X Decider
  /\ crashes \in 0..MaxCrashes /\ lost \in 0..MaxLost /\ failedSends \in 0..MaxFailedSends

Kept == IInv' /\ EndKept

LEMMA KeptByParts ==
  ASSUME IInv, HistoryKept, ControlOK', EndingRunGoesOn', CompletedRunIsOver'
  PROVE  Kept
BY DEF Kept, IInv, HistoryKept, RowsOK, TypeOK, ControlOK

\* A step that neither ends the run nor starts an end or a lane.
LEMMA KeptBySteps ==
  ASSUME IInv, HistoryKept, EndUntouched, ControlOK',
         ending' = ending \/ ending' = None,
         engine' = engine \/ engine' # "running" \/ ~isTerminal
  PROVE  Kept
<1>1. EndingRunGoesOn'
  BY DEF IInv, EndUntouched, EndingRunGoesOn, isTerminal
<1>2. CompletedRunIsOver'
  BY DEF IInv, EndUntouched, CompletedRunIsOver, isTerminal
<1> QED BY <1>1, <1>2, KeptByParts

LEMMA LoseWriteType ==
  ASSUME IInv, LoseWrite \/ UNCHANGED lost
  PROVE  lost' \in 0..MaxLost
BY BoundAssumption DEF IInv, TypeOK, LoseWrite
-----------------------------------------------------------------------------
(* The lanes.                                                              *)

\* A lane's step that leaves the run, or derives whether it waits.
LEMMA LaneKept ==
  ASSUME IInv, NEW w \in Wait,
         HistoryKept, EndUntouched, LoseWrite \/ UNCHANGED lost,
         NEW at \in {"idle", "gated", "parked", "got", "resumed", "settling", "done",
                     "failing", "settlingFailed", "failed"},
         Go(w, at), UNCHANGED <<dbos, engine, Others>>
  PROVE  Kept
<1>1. lost' \in 0..MaxLost
  BY LoseWriteType
<1>2. ControlOK'
  BY <1>1 DEF IInv, TypeOK, ControlOK, Go, dbos, Others
<1> QED BY <1>2, KeptBySteps DEF Others

LEMMA BeginKept == ASSUME IInv, NEW w \in Wait, begin(w) PROVE Kept
<1>1. HistoryKept /\ EndUntouched
  <2>1. CASE stepStarted(w)
    BY <2>1, StepStartedOK, WaitsOnlyEnd DEF begin
  <2>2. CASE UNCHANGED steps
    BY <2>2, HistoryUnchanged DEF begin, history
  <2> QED BY <2>1, <2>2 DEF begin
<1>2. PICK at \in {"gated", "failing"} : Go(w, at)
  BY DEF begin
<1>3. LoseWrite \/ UNCHANGED lost
  BY DEF begin
<1>4. UNCHANGED <<dbos, engine, Others>>
  BY DEF begin
<1> QED BY <1>1, <1>2, <1>3, <1>4, LaneKept

LEMMA ParkKept == ASSUME IInv, NEW w \in Wait, park(w) PROVE Kept
<1>1. HistoryKept /\ EndUntouched
  BY StepWaitingOK, HistoryUnchanged DEF park
<1>2. (LoseWrite \/ UNCHANGED lost) /\ Go(w, "parked") /\ UNCHANGED <<dbos, engine, Others>>
  BY DEF park
<1> QED BY <1>1, <1>2, LaneKept

LEMMA ReceiveKept == ASSUME IInv, NEW w \in Wait, receive(w) PROVE Kept
<1>1. HistoryKept /\ EndUntouched
  BY HistoryUnchanged DEF receive
<1>2. taken' \in [Wait -> Decider \cup {None, Timeout}]
  BY DEF receive, IInv, TypeOK
<1>3. ControlOK'
  BY <1>2 DEF receive, IInv, TypeOK, ControlOK, Go, Others
<1> QED BY <1>1, <1>3, KeptBySteps DEF receive, Others

LEMMA InterruptKept == ASSUME IInv, NEW w \in Wait, interrupt(w) PROVE Kept
<1>1. HistoryKept /\ EndUntouched
  BY HistoryUnchanged DEF interrupt
<1>2. UNCHANGED lost /\ Go(w, "failing") /\ UNCHANGED <<dbos, engine, Others>>
  BY DEF interrupt
<1> QED BY <1>1, <1>2, LaneKept

LEMMA ResumeKept == ASSUME IInv, NEW w \in Wait, resume(w) PROVE Kept
<1>1. HistoryKept /\ EndUntouched
  BY StepResumedOK, HistoryUnchanged DEF resume
<1>2. (LoseWrite \/ UNCHANGED lost) /\ Go(w, "resumed") /\ UNCHANGED <<dbos, engine, Others>>
  BY DEF resume
<1> QED BY <1>1, <1>2, LaneKept

\* Marking a step finished ends its wait at most: one that waits has started.
LEMMA StepFinishedOK ==
  ASSUME IInv, NEW w \in Wait, steps' = [steps EXCEPT ![w].finished = steps[w].started]
  PROVE  RowsOK(steps') /\ \A x \in Wait : IsParked(steps[x])' => IsParked(steps[x])
<1> DEFINE new == [steps[w] EXCEPT !.finished = steps[w].started]
<1>1. \A x \in Wait : steps[x] \in StepRow
  BY DEF IInv, TypeOK
<1>2. /\ new \in StepRow /\ new.finished = steps[w].started
      /\ new.waitingOn = steps[w].waitingOn /\ new.started = steps[w].started
  BY <1>1 DEF StepRow
<1>3. steps' = [steps EXCEPT ![w] = new]
  OBVIOUS
<1> HIDE DEF new
<1> QED BY <1>1, <1>2, <1>3 DEF IInv, TypeOK, RowsOK, WaitsStarted, IsParked

LEMMA FinishStepKept == ASSUME IInv, NEW w \in Wait, stepFinished(w) PROVE Kept
<1>1. HistoryKept /\ EndUntouched
  <2>1. CASE steps' = [steps EXCEPT ![w].finished = steps[w].started]
    BY <2>1, StepFinishedOK, WaitsOnlyEnd DEF stepFinished
  <2>2. CASE UNCHANGED steps
    BY <2>2, HistoryUnchanged DEF stepFinished, history
  <2> QED BY <2>1, <2>2 DEF stepFinished
<1>2. PICK at \in {"done", "failed", "settling", "settlingFailed"} : Go(w, at)
  BY DEF stepFinished
<1>3. LoseWrite \/ UNCHANGED lost
  BY DEF stepFinished
<1>4. UNCHANGED <<dbos, engine, Others>>
  BY DEF stepFinished
<1> QED BY <1>1, <1>2, <1>3, <1>4, LaneKept

LEMMA SettleKept == ASSUME IInv, NEW w \in Wait, settle(w) PROVE Kept
<1>1. HistoryKept /\ EndUntouched
  BY StepResumedOK, HistoryUnchanged DEF settle
<1>2. PICK at \in {"done", "failed"} : Go(w, at)
  BY DEF settle
<1>3. (LoseWrite \/ UNCHANGED lost) /\ UNCHANGED <<dbos, engine, Others>>
  BY DEF settle
<1> QED BY <1>1, <1>2, <1>3, LaneKept
-----------------------------------------------------------------------------
(* The interpreter's end.  A completed run has no engine left to end it    *)
(* again, and a cancel written over a cancel writes what is there.         *)
LEMMA FinishRunKept == ASSUME IInv, finishRun PROVE Kept
<1>1. engine = "running" /\ engine' = "recorded" /\ ending' = ending /\ ending = None
  BY DEF finishRun, Live, Unlocked, Others
<1>2. run \in RunRow /\ (run.reason # "none" => run.status = "error") /\ run.status # "completed"
  BY <1>1 DEF IInv, TypeOK, CompletedRunIsOver
<1>3. RowsOK(steps') /\ steps' = steps
  BY DEF finishRun, IInv, TypeOK, RowsOK, WaitsStarted
<1>4. HistoryKept
  <2>1. CASE UNCHANGED run
    BY <2>1, <1>3, HistoryUnchanged DEF history
  <2>2. CASE runUnwoundByCancel
    <3>1. CASE limitEnded
      BY <3>1, <2>2, <1>3, HistoryUnchanged DEF runUnwoundByCancel, history
    <3>2. CASE ~limitEnded
      <4>1. run' = [status |-> "cancelled", reason |-> "none"]
        BY <3>2, <2>2, <1>2 DEF runUnwoundByCancel
      <4>2. run.status = "cancelled" => run.reason = "none"
        BY <1>2 DEF RunRow
      <4>3. run.status = "cancelled" => run' = run
        BY <4>1, <4>2, <1>2 DEF RunRow
      <4>4. EndKept
        BY <4>3, <3>2, <1>2 DEF EndKept
      <4>5. isTerminal' /\ run' \in RunRow /\ run'.reason = "none"
        BY <4>1 DEF isTerminal, RunRow
      <4> QED BY <4>4, <4>5, <1>3, RunEnded
    <3> QED BY <3>1, <3>2
  <2>3. ASSUME NEW status \in {"completed", "error"}, NEW reason \in {"none", "failed"},
               reason # "none" => status = "error", runFinished(status, reason)
        PROVE  HistoryKept
    <3>1. CASE run.status = "cancelled" \/ limitEnded
      BY <3>1, <2>3, <1>3, HistoryUnchanged DEF runFinished, history
    <3>2. CASE ~(run.status = "cancelled" \/ limitEnded)
      <4>1. run' = [status |-> status, reason |-> reason]
        BY <3>2, <2>3 DEF runFinished
      <4>2. isTerminal' /\ run' \in RunRow /\ (run'.reason # "none" => run'.status = "error")
        BY <4>1, <2>3 DEF isTerminal, RunRow
      <4>3. EndKept
        BY <3>2, <1>2 DEF EndKept
      <4> QED BY <4>2, <4>3, <1>3, RunEnded
    <3> QED BY <3>1, <3>2
  <2>4. UNCHANGED run \/ runUnwoundByCancel \/ runFinished("completed", "none") \/ runFinished("error", "failed")
    BY DEF finishRun
  <2> QED BY <2>1, <2>2, <2>3, <2>4
<1>5. LoseWrite \/ UNCHANGED lost
  BY DEF finishRun
<1>6. lost' \in 0..MaxLost
  BY <1>5, LoseWriteType
<1>7. ControlOK'
  BY <1>6 DEF finishRun, IInv, TypeOK, ControlOK, dbos, Others
<1>8. EndingRunGoesOn' /\ CompletedRunIsOver'
  BY <1>1 DEF EndingRunGoesOn, CompletedRunIsOver
<1> QED BY <1>4, <1>7, <1>8, KeptByParts

LEMMA RowFields ==
  ASSUME IInv, NEW w \in Wait
  PROVE  steps[w] \in StepRow /\ (steps[w].waitingOn => steps[w].started)
BY DEF IInv, TypeOK, WaitsStarted

LEMMA ClearWaitRow ==
  ASSUME NEW row \in StepRow
  PROVE  clearWait(row) \in StepRow /\ ~clearWait(row).waitingOn
BY DEF clearWait, StepRow

LEMMA ClearWaitsKept == ASSUME IInv, clearWaits PROVE Kept
<1>1. HistoryKept /\ EndUntouched
  <2>1. CASE clearStepWaits
    <3> DEFINE new(w) == IF steps[w].waitingOn THEN clearWait(steps[w]) ELSE steps[w]
    <3>1. steps' = [w \in Wait |-> new(w)]
      BY <2>1 DEF clearStepWaits
    <3>2. \A w \in Wait : /\ new(w) \in StepRow
                          /\ new(w).waitingOn => new(w).started
                          /\ IsParked(new(w)) => IsParked(steps[w])
      BY RowFields, ClearWaitRow DEF IsParked
    <3> HIDE DEF new
    <3>3. RowsOK(steps') /\ \A w \in Wait : IsParked(steps[w])' => IsParked(steps[w])
      BY <3>1, <3>2 DEF RowsOK, WaitsStarted, IsParked
    <3> QED BY <3>3, WaitsOnlyEnd DEF clearWaits
  <2>2. CASE UNCHANGED steps
    BY <2>2, HistoryUnchanged DEF clearWaits, history
  <2> QED BY <2>1, <2>2 DEF clearWaits
<1>2. LoseWrite \/ UNCHANGED lost
  BY DEF clearWaits
<1>3. lost' \in 0..MaxLost
  BY <1>2, LoseWriteType
<1>4. ControlOK'
  BY <1>3 DEF clearWaits, IInv, TypeOK, ControlOK, dbos, Others
<1> QED BY <1>1, <1>4, KeptBySteps DEF clearWaits, Others

LEMMA RecordEndKept == ASSUME IInv, recordEnd PROVE Kept
<1>1. HistoryKept /\ EndUntouched
  BY HistoryUnchanged DEF recordEnd
<1>2. ControlOK'
  BY DEF recordEnd, EndWorkflow, IInv, TypeOK, ControlOK, Others
<1> QED BY <1>1, <1>2, KeptBySteps DEF recordEnd, Others

LEMMA RecoverKept == ASSUME IInv, recover PROVE Kept
<1>1. HistoryKept /\ EndUntouched
  BY HistoryUnchanged DEF recover
<1>2. ControlOK'
  BY DEF recover, EndWorkflow, IInv, TypeOK, ControlOK, Others
<1>3. engine' # "running" \/ ~isTerminal
  BY DEF recover
<1> QED BY <1>1, <1>2, <1>3, KeptBySteps DEF recover, Others
-----------------------------------------------------------------------------
(* A decision.  Claims are no part of what a run waits for: a parked wait  *)
(* stays parked whoever claims it.                                         *)
LEMMA ClaimedOK ==
  ASSUME IInv, NEW w \in Wait, NEW c \in Decider \cup {None}, steps' = [steps EXCEPT ![w].claim = c]
  PROVE  RowsOK(steps') /\ \A x \in Wait : IsParked(steps[x])' => IsParked(steps[x])
<1> DEFINE new == [steps[w] EXCEPT !.claim = c]
<1>1. \A x \in Wait : steps[x] \in StepRow
  BY DEF IInv, TypeOK
<1>2. /\ new \in StepRow /\ new.finished = steps[w].finished
      /\ new.waitingOn = steps[w].waitingOn /\ new.started = steps[w].started
  BY <1>1 DEF StepRow
<1>3. steps' = [steps EXCEPT ![w] = new]
  OBVIOUS
<1> HIDE DEF new
<1> QED BY <1>1, <1>2, <1>3 DEF IInv, TypeOK, RowsOK, WaitsStarted, IsParked

LEMMA AskKept == ASSUME IInv, NEW d \in Decider, NEW w \in Wait, ask(d, w) PROVE Kept
<1>1. HistoryKept /\ EndUntouched
  BY HistoryUnchanged DEF ask
<1>2. request' \in [Decider -> Request]
  BY DEF ask, IInv, TypeOK, Request
<1>3. ControlOK'
  BY <1>2 DEF ask, IInv, TypeOK, ControlOK, dbos, faults
<1> QED BY <1>1, <1>3, KeptBySteps DEF ask

LEMMA RequestAt ==
  ASSUME IInv, NEW d \in Decider,
         NEW at \in {"idle", "asked", "sending", "failed", "accepted", "refused", "gone"}, At(d, at)
  PROVE  request' \in [Decider -> Request]
<1> DEFINE new == [request[d] EXCEPT !.at = at]
<1>1. new \in Request
  BY DEF IInv, TypeOK, Request
<1>2. request' = [request EXCEPT ![d] = new]
  BY DEF At
<1> HIDE DEF new
<1> QED BY <1>1, <1>2 DEF IInv, TypeOK

\* A claim that is sent again is someone's: the wait it is on has one.
LEMMA ClaimsNameDeciders ==
  ASSUME IInv, NEW w \in Claimed
  PROVE  w \in Wait /\ steps[w].claim \in Decider
BY DEF IInv, TypeOK, Claimed, Parked, StepRow

LEMMA TakeWaitsKept == ASSUME IInv, NEW d \in Decider, takeWaits(d) PROVE Kept
<1> DEFINE w == request[d].wait
<1>1. CASE Takes(w) /\ steps' = [steps EXCEPT ![w].claim = d] /\ At(d, "sending") /\ UNCHANGED resending
  <2>1. w \in Wait
    BY <1>1 DEF Takes, Parked
  <2>2. HistoryKept /\ EndUntouched
    BY <1>1, <2>1, ClaimedOK, WaitsOnlyEnd DEF takeWaits
  <2>3. request' \in [Decider -> Request]
    BY <1>1, RequestAt
  <2>4. ControlOK'
    BY <1>1, <2>3 DEF takeWaits, IInv, TypeOK, ControlOK, dbos, faults
  <2> QED BY <2>2, <2>4, KeptBySteps DEF takeWaits
<1>2. CASE /\ At(d, "refused") /\ UNCHANGED steps
           /\ resending' = resending \cup
                (IF ~Refused(d) /\ Decided(w) THEN {<<w, steps[w].claim>>} ELSE {})
  <2>1. HistoryKept /\ EndUntouched
    BY <1>2, HistoryUnchanged DEF takeWaits, history
  <2>2. request' \in [Decider -> Request]
    BY <1>2, RequestAt
  <2>3. Decided(w) => <<w, steps[w].claim>> \in Wait \X Decider
    BY ClaimsNameDeciders DEF Decided
  <2>4. resending' \subseteq Wait \X Decider
    BY <1>2, <2>3 DEF IInv, TypeOK
  <2>5. ControlOK'
    BY <2>2, <2>4 DEF takeWaits, IInv, TypeOK, ControlOK, dbos, faults
  <2> QED BY <2>1, <2>5, KeptBySteps DEF takeWaits
<1> QED BY <1>1, <1>2 DEF takeWaits

LEMMA SendType ==
  ASSUME IInv, NEW w, NEW d \in Decider, sendEvent(w, d)
  PROVE  inbox' \in [Wait -> Decider \cup {None}]
BY DEF sendEvent, IInv, TypeOK

LEMMA DeliverKept == ASSUME IInv, NEW d \in Decider, deliver(d) PROVE Kept
<1>1. HistoryKept /\ EndUntouched
  BY HistoryUnchanged DEF deliver
<1>2. request' \in [Decider -> Request] /\ inbox' \in [Wait -> Decider \cup {None}]
  BY RequestAt, SendType DEF deliver
<1>3. ControlOK'
  BY <1>2 DEF deliver, IInv, TypeOK, ControlOK, faults
<1> QED BY <1>1, <1>3, KeptBySteps DEF deliver

LEMMA SendFailsKept == ASSUME IInv, NEW d \in Decider, sendFails(d) PROVE Kept
<1>1. HistoryKept /\ EndUntouched
  BY HistoryUnchanged DEF sendFails
<1>2. request' \in [Decider -> Request]
  BY RequestAt DEF sendFails
<1>3. failedSends' \in 0..MaxFailedSends
  BY BoundAssumption DEF sendFails, IInv, TypeOK
<1>4. ControlOK'
  BY <1>2, <1>3 DEF sendFails, IInv, TypeOK, ControlOK, dbos
<1> QED BY <1>1, <1>4, KeptBySteps DEF sendFails

LEMMA UnclaimKept == ASSUME IInv, NEW d \in Decider, unclaimWaits(d) PROVE Kept
<1> DEFINE w == request[d].wait
           c == IF steps[w].claim = d THEN None ELSE steps[w].claim
<1>1. steps' = [steps EXCEPT ![w].claim = c]
  BY DEF unclaimWaits
<1>2. HistoryKept /\ EndUntouched
  <2>1. CASE w \in Wait
    <3>1. c \in Decider \cup {None}
      BY <2>1 DEF IInv, TypeOK, StepRow
    <3> HIDE DEF c
    <3> QED BY <2>1, <3>1, <1>1, ClaimedOK, WaitsOnlyEnd DEF unclaimWaits
  <2>2. CASE w \notin Wait
    <3>1. steps' = steps
      BY <2>2, <1>1 DEF IInv, TypeOK
    <3> QED BY <3>1, HistoryUnchanged DEF unclaimWaits, history
  <2> QED BY <2>1, <2>2
<1>3. request' \in [Decider -> Request]
  BY RequestAt DEF unclaimWaits
<1>4. ControlOK'
  BY <1>3 DEF unclaimWaits, IInv, TypeOK, ControlOK, dbos, faults
<1> QED BY <1>2, <1>4, KeptBySteps DEF unclaimWaits

LEMMA ResendClaimsKept == ASSUME IInv, resendClaims PROVE Kept
<1>1. HistoryKept /\ EndUntouched
  BY HistoryUnchanged DEF resendClaims
<1>2. resending' \subseteq Wait \X Decider
  BY ClaimsNameDeciders DEF resendClaims, IInv, TypeOK
<1>3. ControlOK'
  BY <1>2 DEF resendClaims, IInv, TypeOK, ControlOK, dbos, faults
<1> QED BY <1>1, <1>3, KeptBySteps DEF resendClaims

LEMMA ResendKept == ASSUME IInv, NEW copy \in resending, resend(copy) PROVE Kept
<1>1. HistoryKept /\ EndUntouched
  BY HistoryUnchanged DEF resend
<1>2. copy[1] \in Wait /\ copy[2] \in Decider
  BY DEF IInv, TypeOK
<1>3. inbox' \in [Wait -> Decider \cup {None}]
  <2>1. UNCHANGED inbox => inbox' \in [Wait -> Decider \cup {None}]
    BY DEF IInv, TypeOK
  <2> QED BY <1>2, <2>1, SendType DEF resend
<1>4. failedSends' \in 0..MaxFailedSends
  BY BoundAssumption DEF resend, IInv, TypeOK
<1>5. resending' \subseteq Wait \X Decider
  BY DEF resend, IInv, TypeOK
<1>6. ControlOK'
  BY <1>3, <1>4, <1>5 DEF resend, IInv, TypeOK, ControlOK
<1> QED BY <1>1, <1>6, KeptBySteps DEF resend
-----------------------------------------------------------------------------
(* A cancel or a limit's stop: nobody else may end the run between the     *)
(* two writes, because every one of them needs the run's lock.             *)
LEMMA CancelKept ==
  ASSUME IInv, NEW end \in {"cancelled", "limit"}, cancelWorkflow(end) PROVE Kept
<1>1. HistoryKept /\ EndUntouched
  BY HistoryUnchanged DEF cancelWorkflow
<1>2. ControlOK'
  BY DEF cancelWorkflow, IInv, TypeOK, ControlOK, faults
<1>3. EndingRunGoesOn' /\ CompletedRunIsOver'
  BY <1>1 DEF cancelWorkflow, EndingRunGoesOn, CompletedRunIsOver, IInv, EndUntouched, isTerminal, history
<1> QED BY <1>1, <1>2, <1>3, KeptByParts

LEMMA EndRunKept == ASSUME IInv, endRun PROVE Kept
<1>1. ~isTerminal /\ ending' = None
  BY DEF endRun, IInv, EndingRunGoesOn, Unlocked
<1>2. LoseWrite \/ UNCHANGED lost
  BY DEF endRun
<1>3. lost' \in 0..MaxLost
  BY <1>2, LoseWriteType
<1>4. ControlOK'
  BY <1>1, <1>3 DEF endRun, IInv, TypeOK, ControlOK, dbos
<1>5. EndingRunGoesOn'
  BY <1>1 DEF EndingRunGoesOn
<1>6. CASE UNCHANGED history
  BY <1>1, <1>4, <1>6, HistoryUnchanged, KeptBySteps DEF endRun
<1>7. CASE /\ run' = IF ending = "limit" THEN [status |-> "error", reason |-> "limit"]
                     ELSE [status |-> "cancelled", reason |-> "none"]
           /\ steps' = [w \in Wait |-> endWait(steps[w])]
  <2>1. /\ isTerminal' /\ run' \in RunRow /\ run'.status # "completed"
        /\ run'.reason # "none" => run'.status = "error"
    BY <1>7 DEF isTerminal, RunRow
  <2>2. \A w \in Wait : endWait(steps[w]) \in StepRow /\ ~endWait(steps[w]).waitingOn
    BY RowFields DEF endWait, StepRow
  <2>3. RowsOK(steps')
    BY <1>7, <2>2 DEF RowsOK, WaitsStarted
  <2>4. EndKept
    BY <1>1 DEF EndKept, isTerminal, limitEnded, IInv, TypeOK
  <2>5. CompletedRunIsOver'
    BY <2>1 DEF CompletedRunIsOver
  <2> QED BY <2>1, <2>3, <2>4, <2>5, <1>4, <1>5, RunEnded, KeptByParts
<1> QED BY <1>6, <1>7 DEF endRun
-----------------------------------------------------------------------------
(* The reaper.  A pass ends a run that had not ended, or tidies the steps  *)
(* of one that had.                                                        *)
LEMMA ReapedControl ==
  ASSUME IInv, Reap
  PROVE  ControlOK' /\ EndingRunGoesOn'
BY DEF Reap, Unlocked, IInv, TypeOK, ControlOK, EndingRunGoesOn, dbos, faults

LEMMA ReapKept ==
  ASSUME IInv, Reap, ~isTerminal, RowsOK(steps'),
         NEW reason \in {"crashed", "lapsed", "stranded"}, EndInError(reason)
  PROVE  Kept
<1>1. /\ isTerminal' /\ run' \in RunRow /\ run'.status # "completed"
      /\ run'.reason # "none" => run'.status = "error"
  BY DEF EndInError, isTerminal, RunRow
<1>2. EndKept
  BY DEF EndKept, isTerminal, limitEnded, IInv, TypeOK
<1>3. CompletedRunIsOver'
  BY <1>1 DEF CompletedRunIsOver
<1> QED BY <1>1, <1>2, <1>3, ReapedControl, RunEnded, KeptByParts

LEMMA TidyKept ==
  ASSUME IInv, Reap, UNCHANGED run, RowsOK(steps'),
         \A w \in Wait : IsParked(steps[w])' => IsParked(steps[w])
  PROVE  Kept
<1>1. HistoryKept /\ EndUntouched
  BY WaitsOnlyEnd
<1> QED BY <1>1, ReapedControl, KeptBySteps DEF Reap

LEMMA ReapCrashedKept == ASSUME IInv, reapCrashedRun PROVE Kept
<1>1. ~isTerminal
  BY DEF reapCrashedRun, isTerminal
<1>2. RowsOK(steps')
  BY DEF reapCrashedRun, IInv, TypeOK, RowsOK, WaitsStarted
<1> QED BY <1>1, <1>2, ReapKept DEF reapCrashedRun

LEMMA EndedStepsOK ==
  ASSUME IInv, NEW credited, endParkedSteps(credited)
  PROVE  RowsOK(steps')
<1> DEFINE by(w) == IF w \in credited THEN steps[w].claim ELSE None
           ended(w) == [clearWait(steps[w]) EXCEPT !.finished = TRUE, !.decidedBy = by(w)]
           new(w) == IF w \notin Parked THEN steps[w] ELSE ended(w)
<1>1. steps' = [w \in Wait |-> new(w)]
  BY DEF endParkedSteps
<1>2. \A w \in Wait : new(w) \in StepRow /\ (new(w).waitingOn => new(w).started)
  <2> TAKE w \in Wait
  <2>1. by(w) \in Decider \cup {None}
    BY RowFields DEF StepRow
  <2>2. ended(w) \in StepRow /\ ~ended(w).waitingOn
    <3> DEFINE row == clearWait(steps[w])
    <3>1. row \in StepRow /\ ~row.waitingOn
      BY RowFields, ClearWaitRow
    <3> HIDE DEF by, row
    <3>2. [row EXCEPT !.finished = TRUE, !.decidedBy = by(w)] \in StepRow
      BY <2>1, <3>1 DEF StepRow
    <3>3. [row EXCEPT !.finished = TRUE, !.decidedBy = by(w)].waitingOn = row.waitingOn
      BY <3>1 DEF StepRow
    <3> QED BY <3>1, <3>2, <3>3 DEF row
  <2> HIDE DEF ended
  <2> QED BY <2>2, RowFields
<1> HIDE DEF new
<1> QED BY <1>1, <1>2 DEF RowsOK, WaitsStarted

LEMMA ReapLapsedKept == ASSUME IInv, reapLapsedRun PROVE Kept
<1>1. ~isTerminal
  BY DEF reapLapsedRun, isTerminal
<1>2. RowsOK(steps')
  BY EndedStepsOK DEF reapLapsedRun
<1> QED BY <1>1, <1>2, ReapKept DEF reapLapsedRun

LEMMA ReapStrandedKept == ASSUME IInv, reapStrandedRun PROVE Kept
<1>1. ~isTerminal
  BY DEF reapStrandedRun, isTerminal
<1>2. RowsOK(steps')
  BY EndedStepsOK DEF reapStrandedRun
<1> QED BY <1>1, <1>2, ReapKept DEF reapStrandedRun

LEMMA ReapOrphansKept == ASSUME IInv, reapOrphanSteps PROVE Kept
<1> DEFINE over(w) == steps[w].finished \/ steps[w].started
           new(w) == [steps[w] EXCEPT !.finished = over(w)]
<1>1. steps' = [w \in Wait |-> new(w)]
  BY DEF reapOrphanSteps
<1>2. \A w \in Wait : /\ new(w) \in StepRow
                      /\ new(w).waitingOn => new(w).started
                      /\ IsParked(new(w)) => IsParked(steps[w])
  <2> TAKE w \in Wait
  <2>1. over(w) \in BOOLEAN /\ (steps[w].finished => over(w))
    OBVIOUS
  <2> HIDE DEF over
  <2> QED BY <2>1, RowFields DEF StepRow, IsParked
<1> HIDE DEF new
<1>3. RowsOK(steps') /\ \A w \in Wait : IsParked(steps[w])' => IsParked(steps[w])
  BY <1>1, <1>2 DEF RowsOK, WaitsStarted, IsParked
<1> QED BY <1>3, TidyKept DEF reapOrphanSteps

LEMMA ReapClaimsKept == ASSUME IInv, reapOldClaims PROVE Kept
<1> DEFINE new(w) == [steps[w] EXCEPT !.claim = None]
<1>1. steps' = [w \in Wait |-> new(w)]
  BY DEF reapOldClaims
<1>2. \A w \in Wait : /\ new(w) \in StepRow
                      /\ new(w).waitingOn => new(w).started
                      /\ IsParked(new(w)) => IsParked(steps[w])
  BY RowFields DEF StepRow, IsParked
<1> HIDE DEF new
<1>3. RowsOK(steps') /\ \A w \in Wait : IsParked(steps[w])' => IsParked(steps[w])
  BY <1>1, <1>2 DEF RowsOK, WaitsStarted, IsParked
<1> QED BY <1>3, TidyKept DEF reapOldClaims
-----------------------------------------------------------------------------
(* The environment.                                                        *)
LEMMA PassKept == ASSUME IInv, NEW w \in Wait, pass(w) PROVE Kept
<1>1. HistoryKept /\ EndUntouched
  BY HistoryUnchanged DEF pass
<1>2. due' \in [Wait -> {"open", "margin", "past"}]
  BY DEF pass, IInv, TypeOK
<1>3. ControlOK'
  BY <1>2 DEF pass, IInv, TypeOK, ControlOK, dbos, faults
<1> QED BY <1>1, <1>3, KeptBySteps DEF pass

LEMMA CrashKept == ASSUME IInv, crash PROVE Kept
<1>1. HistoryKept /\ EndUntouched
  BY HistoryUnchanged DEF crash
<1>2. crashes' \in 0..MaxCrashes
  BY BoundAssumption DEF crash, IInv, TypeOK
<1>3. request' \in [Decider -> Request]
  <2> DEFINE new(d) == IF InFlight(d) THEN [request[d] EXCEPT !.at = "gone"] ELSE request[d]
  <2>1. request' = [d \in Decider |-> new(d)]
    BY DEF crash
  <2>2. \A d \in Decider : new(d) \in Request
    BY DEF IInv, TypeOK, Request
  <2> HIDE DEF new
  <2> QED BY <2>1, <2>2
<1>4. lane' \in [Wait -> {"idle", "gated", "parked", "got", "resumed", "settling", "done",
                          "failing", "settlingFailed", "failed"}]
  BY DEF crash
<1>5. ControlOK'
  BY <1>2, <1>3, <1>4 DEF crash, IInv, TypeOK, ControlOK, dbos
<1> QED BY <1>1, <1>5, KeptBySteps DEF crash

LEMMA RestartKept == ASSUME IInv, restart PROVE Kept
<1>1. HistoryKept /\ EndUntouched
  BY HistoryUnchanged DEF restart
<1>2. ControlOK'
  BY DEF restart, IInv, TypeOK, ControlOK, dbos, faults
<1> QED BY <1>1, <1>2, KeptBySteps DEF restart

LEMMA StutterKept == ASSUME IInv, UNCHANGED vars PROVE Kept
<1>1. HistoryKept /\ EndUntouched
  BY HistoryUnchanged DEF vars, history
<1>2. ControlOK'
  BY DEF vars, IInv, TypeOK, ControlOK
<1> QED BY <1>1, <1>2, KeptBySteps DEF vars
-----------------------------------------------------------------------------
LEMMA InitIInv == Init => IInv
<1> SUFFICES ASSUME Init PROVE IInv
  OBVIOUS
<1>1. steps \in [Wait -> StepRow] /\ \A w \in Wait : ~steps[w].waitingOn
  BY DEF Init, StepRow
<1>2. request \in [Decider -> Request] /\ run \in RunRow /\ run.status = "running" /\ run.reason = "none"
  BY DEF Init, Request, RunRow
<1>3. crashes \in 0..MaxCrashes /\ lost \in 0..MaxLost /\ failedSends \in 0..MaxFailedSends
  BY BoundAssumption DEF Init
<1>4. TypeOK
  BY <1>1, <1>2, <1>3 DEF Init, TypeOK
<1>5. WaitsStarted(steps) /\ ParkedRunWaits
  BY <1>1 DEF WaitsStarted, ParkedRunWaits, Parked, IsParked
<1>6. EndingRunGoesOn /\ CompletedRunIsOver
  BY <1>2 DEF EndingRunGoesOn, CompletedRunIsOver, isTerminal
<1> QED BY <1>4, <1>5, <1>6 DEF IInv

LEMMA NextKept == ASSUME IInv, [Next]_vars PROVE Kept
<1>1. ASSUME NEW w \in Wait, Lane(w) PROVE Kept
  BY <1>1, BeginKept, ParkKept, ReceiveKept, InterruptKept, ResumeKept, FinishStepKept, SettleKept
     DEF Lane
<1>2. ASSUME finishRun \/ clearWaits \/ recordEnd \/ recover PROVE Kept
  BY <1>2, FinishRunKept, ClearWaitsKept, RecordEndKept, RecoverKept
<1>3. ASSUME NEW d \in Decider, NEW w \in Wait, ask(d, w) PROVE Kept
  BY <1>3, AskKept
<1>4. ASSUME NEW d \in Decider, takeWaits(d) \/ deliver(d) \/ sendFails(d) \/ unclaimWaits(d) PROVE Kept
  BY <1>4, TakeWaitsKept, DeliverKept, SendFailsKept, UnclaimKept
<1>5. ASSUME resendClaims PROVE Kept
  BY <1>5, ResendClaimsKept
<1>6. ASSUME NEW copy \in resending, resend(copy) PROVE Kept
  BY <1>6, ResendKept
<1>7. ASSUME NEW end \in {"cancelled", "limit"}, cancelWorkflow(end) PROVE Kept
  BY <1>7, CancelKept
<1>8. ASSUME endRun PROVE Kept
  BY <1>8, EndRunKept
<1>9. ASSUME reapCrashedRun \/ reapLapsedRun \/ reapStrandedRun \/ reapOrphanSteps \/ reapOldClaims
      PROVE  Kept
  BY <1>9, ReapCrashedKept, ReapLapsedKept, ReapStrandedKept, ReapOrphansKept, ReapClaimsKept
<1>10. ASSUME NEW w \in Wait, pass(w) PROVE Kept
  BY <1>10, PassKept
<1>11. ASSUME crash \/ restart PROVE Kept
  BY <1>11, CrashKept, RestartKept
<1>12. ASSUME UNCHANGED vars PROVE Kept
  BY <1>12, StutterKept
<1> QED
  BY <1>1, <1>2, <1>3, <1>4, <1>5, <1>6, <1>7, <1>8, <1>9, <1>10, <1>11, <1>12 DEF Next

(* The invariant the theorems below are read off from.                     *)
THEOREM InvariantHolds == Spec => []IInv
<1>1. Init => IInv
  BY InitIInv
<1>2. IInv /\ [Next]_vars => IInv'
  BY NextKept DEF Kept
<1> QED BY <1>1, <1>2, PTL DEF Spec

(* Rows, lanes and requests are well formed.                               *)
THEOREM TypeCorrect == Spec => []TypeOK
<1>1. IInv => TypeOK
  BY DEF IInv
<1> QED BY <1>1, InvariantHolds, PTL

(* A run with a parked wait reads `waiting` until it ends: for any number  *)
(* of approvals at once, whatever is lost and however often it is replayed.*)
THEOREM ParkedRunsWait == Spec => []ParkedRunWaits
<1>1. IInv => ParkedRunWaits
  BY DEF IInv
<1> QED BY <1>1, InvariantHolds, PTL

(* A cancel, a limit's stop and a completion are final: no lane, replay,   *)
(* pass or late request writes over them.                                  *)
THEOREM EndsAreFinal == Spec => EndIsFinal
<1>1. IInv /\ [Next]_vars =>
        [run.status \in {"cancelled", "completed"} \/ limitEnded => run' = run]_vars
  BY NextKept DEF Kept, EndKept
<1> QED BY <1>1, InvariantHolds, PTL DEF Spec, EndIsFinal

-----------------------------------------------------------------------------
(* Decisions: nobody takes a wait that is someone else's, and whoever      *)
(* decided it is credited, for every number of waits, deciders and         *)
(* crashes.                                                                *)
(*                                                                         *)
(* The argument: everything that names a decision of a wait (its claim, a  *)
(* send on its way, a claim read to be sent again, the message) names the  *)
(* same decider, and that decider holds the claim until nobody can claim   *)
(* the wait any more.                                                      *)


(* The run's lanes have stopped for good: it is over, or its next recovery *)
(* will find that it is.                                                   *)
NoLaneAgain == engine # "running" /\ (workflow # "pending" \/ isTerminal)

FailingLane(w) == lane[w] \in {"failing", "settlingFailed", "failed"}

(* A wait that resumed waits no more, and only a step on record is claimed,*)
(* finished or credited.                                                   *)
RowSound(row) ==
  /\ row.resumed => ~row.waitingOn
  /\ row.claim # None \/ row.finished => row.started
  /\ row.decidedBy # None => row.resumed \/ row.finished

RowsSound == \A w \in Wait : RowSound(steps[w])

(* A lane past its receive took something, and a decision from the inbox.  *)
LanesTook == \A w \in Wait :
  /\ lane[w] \in {"got", "resumed", "settling", "done"} => taken[w] # None
  /\ taken[w] \in Decider => inbox[w] = taken[w]

(* A lane fails only in a run that a cancel or an end has reached.         *)
FailingRunIsOver == \A w \in Wait : FailingLane(w) => workflow # "pending" \/ isTerminal

(* A run reaped as stranded had no live lane, and gets none.              *)
StrandedIsOver == run.reason = "stranded" => engine # "running"

(* A step still waiting behind its lane's back has cost a write each time  *)
(* its lane would have ended it.                                           *)
WaitsLost == \A w \in Wait : steps[w].waitingOn =>
  /\ lane[w] = "resumed" => lost >= 1
  /\ lane[w] = "settling" => steps[w].finished
  /\ lane[w] = "done" => lost >= 2 \/ steps[w].finished

(* A run whose end was not written has all its lanes done, and three lost  *)
(* writes behind any wait still open.                                      *)
RecordedLanes == engine = "recorded" =>
  \/ NoLaneAgain
  \/ \A w \in Wait : lane[w] = "done" /\ (steps[w].waitingOn => lost >= 3 \/ steps[w].finished)

(* A send that failed counts.                                              *)
FailuresCounted == \A d \in Decider : request[d].at = "failed" => failedSends >= 1

StructureOK ==
  /\ RowsSound /\ LanesTook /\ FailingRunIsOver /\ StrandedIsOver
  /\ WaitsLost /\ RecordedLanes /\ FailuresCounted

(* Everything that names d as the decider of w.                            *)
Names(w, d) ==
  \/ steps[w].claim = d
  \/ inbox[w] = d
  \/ request[d].at = "sending" /\ request[d].wait = w
  \/ <<w, d>> \in resending

(* Nobody can claim w any more.                                            *)
Closed(w) ==
  \/ steps[w].finished \/ steps[w].resumed \/ isTerminal
  \/ ~steps[w].waitingOn /\ NoLaneAgain

OneNamed == \A w \in Wait, d, e \in Decider : Names(w, d) /\ Names(w, e) => d = e

NamedHolds == \A w \in Wait, d \in Decider : Names(w, d) => steps[w].claim = d \/ Closed(w)

(* Who was told the decision was accepted has sent it.                     *)
RequestsTold == \A d \in Decider, w \in Wait :
  request[d].at = "accepted" /\ request[d].wait = w => inbox[w] = d

DecisionOK ==
  failedSends = 0 /\ lost <= 2 =>
    OneNamed /\ NamedHolds /\ RequestsTold /\ CreditedDecisionWasTaken

(* A decision its wait may still take, or has taken, is credited, or still *)
(* claimed, unless no lane is left to credit it.                           *)
ClaimWaits == \A w \in Wait, d \in Decider :
  Names(w, d) /\ taken[w] # Timeout =>
    steps[w].decidedBy = d \/ steps[w].claim = d \/ NoLaneAgain \/ FailingLane(w)

(* A resume that credits nobody was lost, and its settling after it.       *)
CreditLost == \A w \in Wait : taken[w] \in Decider /\ steps[w].decidedBy # taken[w] =>
  /\ lane[w] \in {"resumed", "settling"} => lost >= 1
  /\ lane[w] = "done" => lost >= 2

CreditOK == failedSends = 0 /\ lost <= 1 => ClaimWaits /\ CreditLost

DInv == StructureOK /\ DecisionOK /\ CreditOK
-----------------------------------------------------------------------------
(* What each history write leaves in a step's row, field by field.         *)
RowIs(row, started, waitingOn, resumed, finished, claim, decidedBy) ==
  /\ row.started = started /\ row.waitingOn = waitingOn
  /\ row.resumed = resumed /\ row.finished = finished
  /\ row.claim = claim /\ row.decidedBy = decidedBy

LEMMA StartedRow ==
  ASSUME IInv, NEW w \in Wait, stepStarted(w), NEW x \in Wait
  PROVE  LET s == steps[x]
         IN  RowIs(steps'[x], s.started \/ x = w, s.waitingOn, s.resumed, s.finished, s.claim, s.decidedBy)
BY RowFields DEF stepStarted, RowIs, IInv, TypeOK, StepRow

LEMMA WaitingRow ==
  ASSUME IInv, NEW w \in Wait, stepWaiting(w), NEW x \in Wait
  PROVE  LET s == steps[x]
         IN  RowIs(steps'[x], s.started,
                   s.waitingOn \/ (x = w /\ s.started /\ ~s.finished /\ ~s.resumed),
                   s.resumed, s.finished, s.claim, s.decidedBy)
BY RowFields DEF stepWaiting, WriteWaits, RowIs, IInv, TypeOK, StepRow

LEMMA ResumedRow ==
  ASSUME IInv, NEW w \in Wait, NEW answered, stepResumed(w, answered), NEW x \in Wait
  PROVE  LET s == steps[x]
         IN  IF x = w /\ s.started
             THEN RowIs(steps'[x], TRUE, FALSE, TRUE, s.finished, None,
                        IF answered /\ s.claim # None THEN s.claim ELSE s.decidedBy)
             ELSE steps'[x] = s
<1> DEFINE s == steps[w]
           credit == IF answered /\ s.claim # None THEN s.claim ELSE s.decidedBy
           row == clearWait(s)
<1>1. steps' = [steps EXCEPT ![w] =
                  IF s.started THEN [row EXCEPT !.resumed = TRUE, !.decidedBy = credit] ELSE s]
  BY DEF stepResumed, WriteWaits
<1>2. row \in StepRow /\ RowIs(row, s.started, FALSE, s.resumed, s.finished, None, s.decidedBy)
  BY RowFields DEF clearWait, StepRow, RowIs
<1> HIDE DEF row, credit
<1>3. RowIs([row EXCEPT !.resumed = TRUE, !.decidedBy = credit],
            row.started, row.waitingOn, TRUE, row.finished, row.claim, credit)
  BY <1>2 DEF StepRow, RowIs
<1> QED BY <1>1, <1>2, <1>3 DEF IInv, TypeOK, RowIs, credit

LEMMA FinishedRow ==
  ASSUME IInv, NEW w \in Wait, steps' = [steps EXCEPT ![w].finished = steps[w].started], NEW x \in Wait
  PROVE  LET s == steps[x]
         IN  RowIs(steps'[x], s.started, s.waitingOn, s.resumed,
                   IF x = w THEN s.started ELSE s.finished, s.claim, s.decidedBy)
BY RowFields DEF RowIs, IInv, TypeOK, StepRow

LEMMA ClearedRow ==
  ASSUME IInv, clearStepWaits, NEW x \in Wait
  PROVE  LET s == steps[x]
         IN  RowIs(steps'[x], s.started, FALSE, s.resumed, s.finished,
                   IF s.waitingOn THEN None ELSE s.claim, s.decidedBy)
BY RowFields DEF clearStepWaits, clearWait, RowIs, StepRow

LEMMA ClaimedRow ==
  ASSUME IInv, NEW w \in Wait, NEW c, steps' = [steps EXCEPT ![w].claim = c], NEW x \in Wait
  PROVE  LET s == steps[x]
         IN  RowIs(steps'[x], s.started, s.waitingOn, s.resumed, s.finished,
                   IF x = w THEN c ELSE s.claim, s.decidedBy)
BY RowFields DEF RowIs, IInv, TypeOK, StepRow

LEMMA EndedRow ==
  ASSUME IInv, steps' = [w \in Wait |-> endWait(steps[w])], NEW x \in Wait
  PROVE  LET s == steps[x]
         IN  RowIs(steps'[x], s.started, FALSE, s.resumed, s.finished, s.claim, s.decidedBy)
BY RowFields DEF endWait, RowIs, StepRow

LEMMA ReapedRow ==
  ASSUME IInv, NEW credited, endParkedSteps(credited), NEW x \in Wait
  PROVE  LET s == steps[x]
         IN  IF IsParked(s)
             THEN RowIs(steps'[x], s.started, FALSE, s.resumed, TRUE, None,
                        IF x \in credited THEN s.claim ELSE None)
             ELSE steps'[x] = s
<1> DEFINE s == steps[x]
           by == IF x \in credited THEN s.claim ELSE None
           row == clearWait(s)
<1>1. steps'[x] = IF IsParked(s) THEN [row EXCEPT !.finished = TRUE, !.decidedBy = by] ELSE s
  BY DEF endParkedSteps, Parked
<1>2. row \in StepRow /\ RowIs(row, s.started, FALSE, s.resumed, s.finished, None, s.decidedBy)
  BY RowFields DEF clearWait, StepRow, RowIs
<1> HIDE DEF row, by
<1>3. RowIs([row EXCEPT !.finished = TRUE, !.decidedBy = by],
            row.started, row.waitingOn, row.resumed, TRUE, row.claim, by)
  BY <1>2 DEF StepRow, RowIs
<1> QED BY <1>1, <1>2, <1>3 DEF RowIs, by

LEMMA OrphanRow ==
  ASSUME IInv, reapOrphanSteps, NEW x \in Wait
  PROVE  LET s == steps[x]
         IN  RowIs(steps'[x], s.started, s.waitingOn, s.resumed, s.finished \/ s.started,
                   s.claim, s.decidedBy)
BY RowFields DEF reapOrphanSteps, RowIs, StepRow

LEMMA UnclaimedRow ==
  ASSUME IInv, reapOldClaims, NEW x \in Wait
  PROVE  LET s == steps[x]
         IN  RowIs(steps'[x], s.started, s.waitingOn, s.resumed, s.finished, None, s.decidedBy)
BY RowFields DEF reapOldClaims, RowIs, StepRow

LEMMA SentOnce ==
  ASSUME IInv, NEW w \in Wait, NEW d, sendEvent(w, d), NEW x \in Wait
  PROVE  inbox'[x] = IF x = w /\ inbox[x] = None THEN d ELSE inbox[x]
BY DEF sendEvent, IInv, TypeOK
-----------------------------------------------------------------------------
(* What no step takes back: an end, lanes that have stopped, a step that   *)
(* resumed or finished, a fault.  A step waits anew only for a live lane.  *)
Onward ==
  /\ isTerminal => isTerminal'
  /\ NoLaneAgain => NoLaneAgain'
  /\ lost <= lost' /\ failedSends <= failedSends'
  /\ \A x \in Wait : LET s == steps[x] IN LET t == steps'[x] IN
       /\ s.finished => t.finished
       /\ s.resumed => t.resumed
       /\ t.waitingOn => s.waitingOn \/ engine = "running"

LEMMA OnwardByParts ==
  ASSUME IInv, DInv,
         UNCHANGED run \/ isTerminal' \/ EndUntouched,
         engine' # "running" \/ UNCHANGED engine \/ (workflow = "pending" /\ ~isTerminal),
         workflow = "pending" \/ UNCHANGED workflow \/ workflow' # "pending",
         LoseWrite \/ UNCHANGED lost,
         UNCHANGED failedSends \/ failedSends' = failedSends + 1,
         \A x \in Wait : LET s == steps[x] IN LET t == steps'[x] IN
           /\ s.finished => t.finished
           /\ s.resumed => t.resumed
           /\ t.waitingOn => s.waitingOn \/ engine = "running"
  PROVE  Onward
<1>1. lost <= lost' /\ failedSends <= failedSends'
  BY BoundAssumption DEF IInv, TypeOK, LoseWrite
<1>2. isTerminal => isTerminal'
  BY DEF EndUntouched, isTerminal
<1>3. NoLaneAgain => NoLaneAgain'
  BY <1>2 DEF NoLaneAgain
<1> QED BY <1>1, <1>2, <1>3 DEF Onward

LEMMA LaneOnward == ASSUME IInv, DInv, NEW w \in Wait, Lane(w) PROVE Onward
<1>1. UNCHANGED engine /\ UNCHANGED workflow /\ UNCHANGED failedSends /\ (LoseWrite \/ UNCHANGED lost)
  BY DEF Lane, begin, park, receive, interrupt, resume, stepFinished, settle, dbos, Others
<1>2. engine = "running"
  BY DEF Lane, Live, begin, park, receive, interrupt, resume, stepFinished, settle
<1>3. UNCHANGED run \/ EndUntouched
  BY StepWaitingOK, StepResumedOK
     DEF Lane, begin, park, receive, interrupt, resume, stepFinished, settle, history
<1>4. \A x \in Wait : /\ steps[x].finished => steps'[x].finished
                      /\ steps[x].resumed => steps'[x].resumed
  <2> SUFFICES ASSUME NEW x \in Wait
               PROVE  /\ steps[x].finished => steps'[x].finished
                      /\ steps[x].resumed => steps'[x].resumed
    OBVIOUS
  <2>1. CASE UNCHANGED steps
    BY <2>1
  <2>2. CASE stepStarted(w)
    BY <2>2, StartedRow DEF RowIs
  <2>3. CASE stepWaiting(w)
    BY <2>3, WaitingRow DEF RowIs
  <2>4. ASSUME NEW answered, stepResumed(w, answered)
        PROVE  /\ steps[x].finished => steps'[x].finished
               /\ steps[x].resumed => steps'[x].resumed
    BY <2>4, ResumedRow DEF RowIs
  <2>5. CASE steps' = [steps EXCEPT ![w].finished = steps[w].started]
    BY <2>5, FinishedRow DEF RowIs, DInv, StructureOK, RowsSound, RowSound
  <2> QED BY <2>1, <2>2, <2>3, <2>4, <2>5
          DEF Lane, begin, park, receive, interrupt, resume, stepFinished, settle, history
<1> QED BY <1>1, <1>2, <1>3, <1>4, OnwardByParts

LEMMA EndOnward == ASSUME IInv, DInv, finishRun \/ clearWaits \/ recordEnd \/ recover PROVE Onward
<1>1. /\ UNCHANGED failedSends /\ (LoseWrite \/ UNCHANGED lost)
      /\ UNCHANGED workflow \/ workflow' # "pending"
  BY DEF finishRun, clearWaits, recordEnd, recover, EndWorkflow, dbos, Others
<1>2. UNCHANGED run \/ isTerminal'
  BY DEF finishRun, clearWaits, recordEnd, recover, runUnwoundByCancel, runFinished, limitEnded,
         isTerminal, history, IInv, TypeOK
<1>3. engine' # "running" \/ (workflow = "pending" /\ ~isTerminal)
  BY DEF finishRun, clearWaits, recordEnd, recover, canResume
<1>4. UNCHANGED steps \/ clearStepWaits
  BY DEF finishRun, clearWaits, recordEnd, recover, history
<1> QED BY <1>1, <1>2, <1>3, <1>4, ClearedRow, OnwardByParts DEF RowIs

LEMMA RequestOnward ==
  ASSUME IInv, DInv, NEW d \in Decider,
         (\E w \in Wait : ask(d, w)) \/ takeWaits(d) \/ deliver(d) \/ sendFails(d) \/ unclaimWaits(d)
  PROVE  Onward
<1>1. UNCHANGED run /\ UNCHANGED engine /\ UNCHANGED workflow /\ UNCHANGED lost
  BY DEF ask, takeWaits, deliver, sendFails, unclaimWaits, history, dbos, faults
<1>2. UNCHANGED failedSends \/ failedSends' = failedSends + 1
  BY DEF ask, takeWaits, deliver, sendFails, unclaimWaits, faults
<1>3. \/ UNCHANGED steps
      \/ \E w \in Wait, c \in Decider \cup {None} : steps' = [steps EXCEPT ![w].claim = c]
  <2>1. CASE unclaimWaits(d)
    <3>1. CASE request[d].wait \in Wait
      <4>1. steps[request[d].wait].claim \in Decider \cup {None}
        BY <3>1, RowFields DEF StepRow
      <4> QED BY <2>1, <3>1, <4>1 DEF unclaimWaits
    <3>2. CASE request[d].wait \notin Wait
      BY <2>1, <3>2 DEF unclaimWaits, IInv, TypeOK
    <3> QED BY <3>1, <3>2
  <2> QED BY <2>1 DEF ask, takeWaits, Takes, Parked, deliver, sendFails, history
<1> QED BY <1>1, <1>2, <1>3, ClaimedRow, OnwardByParts DEF RowIs

LEMMA ResendOnward ==
  ASSUME IInv, DInv, resendClaims \/ \E copy \in resending : resend(copy) PROVE Onward
BY OnwardByParts DEF resendClaims, resend, history, dbos, faults

LEMMA StopOnward ==
  ASSUME IInv, DInv, endRun \/ \E end \in {"cancelled", "limit"} : cancelWorkflow(end) PROVE Onward
<1>1. UNCHANGED engine /\ UNCHANGED failedSends /\ (LoseWrite \/ UNCHANGED lost)
  BY DEF endRun, cancelWorkflow, dbos, faults
<1>2. (UNCHANGED run \/ isTerminal') /\ (UNCHANGED workflow \/ workflow' # "pending")
  BY DEF endRun, cancelWorkflow, history, dbos, isTerminal
<1>3. UNCHANGED steps \/ steps' = [w \in Wait |-> endWait(steps[w])]
  BY DEF endRun, cancelWorkflow, history
<1> QED BY <1>1, <1>2, <1>3, EndedRow, OnwardByParts DEF RowIs

LEMMA ReapOnward ==
  ASSUME IInv, DInv,
         reapCrashedRun \/ reapLapsedRun \/ reapStrandedRun \/ reapOrphanSteps \/ reapOldClaims
  PROVE  Onward
<1>1. UNCHANGED <<engine, workflow, lost, failedSends>> /\ (UNCHANGED run \/ isTerminal')
  BY DEF reapCrashedRun, reapLapsedRun, reapStrandedRun, reapOrphanSteps, reapOldClaims, Reap,
         EndInError, isTerminal, dbos, faults
<1>2. UNCHANGED steps \/ (\E c : endParkedSteps(c)) \/ reapOrphanSteps \/ reapOldClaims
  BY DEF reapCrashedRun, reapLapsedRun, reapStrandedRun
<1> QED BY <1>1, <1>2, ReapedRow, OrphanRow, UnclaimedRow, OnwardByParts DEF RowIs

LEMMA EnvironmentOnward ==
  ASSUME IInv, DInv, (\E w \in Wait : pass(w)) \/ crash \/ restart \/ UNCHANGED vars
  PROVE  Onward
BY OnwardByParts DEF pass, crash, restart, vars, history, dbos, faults

LEMMA NextOnward == ASSUME IInv, DInv, [Next]_vars PROVE Onward
BY LaneOnward, EndOnward, RequestOnward, ResendOnward, StopOnward, ReapOnward, EnvironmentOnward DEF Next
-----------------------------------------------------------------------------
(* How a step keeps the invariant.                                         *)

\* While few writes are lost, nothing new names a decider, and the claims stand.
LEMMA DecisionsKept ==
  ASSUME IInv, IInv', DInv, Onward, StructureOK',
         ASSUME failedSends' = 0, lost' <= 2, failedSends = 0, lost <= 2, DecisionOK
         PROVE  /\ \A x \in Wait, e \in Decider : Names(x, e)' => Names(x, e)
                /\ \A x \in Wait : steps'[x].claim = steps[x].claim \/ Closed(x)'
                /\ RequestsTold' /\ CreditedDecisionWasTaken'
                /\ lost <= 1 /\ lost' <= 1 => ClaimWaits' /\ CreditLost'
  PROVE  DInv'
<1>1. \A x \in Wait : Closed(x) => Closed(x)'
  BY DEF Onward, Closed, NoLaneAgain
<1>2. failedSends' = 0 => failedSends = 0
  BY BoundAssumption DEF Onward, IInv, TypeOK
<1>3. (lost' <= 2 => lost <= 2) /\ (lost' <= 1 => lost <= 1 /\ lost' <= 2)
  BY BoundAssumption DEF Onward, IInv, TypeOK
<1>4. ASSUME failedSends' = 0, lost' <= 2
      PROVE  OneNamed' /\ NamedHolds' /\ RequestsTold' /\ CreditedDecisionWasTaken'
  <2>1. failedSends = 0 /\ lost <= 2 /\ DecisionOK
    BY <1>2, <1>3, <1>4 DEF DInv
  <2>2. \A x \in Wait, e \in Decider : Names(x, e)' => Names(x, e)
    BY <1>4, <2>1
  <2>3. \A x \in Wait : steps'[x].claim = steps[x].claim \/ Closed(x)'
    BY <1>4, <2>1
  <2>4. OneNamed /\ NamedHolds
    BY <2>1 DEF DecisionOK
  <2>5. OneNamed'
    BY <2>2, <2>4 DEF OneNamed
  <2>6. NamedHolds'
    BY <1>1, <2>2, <2>3, <2>4 DEF NamedHolds
  <2> QED BY <1>4, <2>1, <2>5, <2>6
<1>5. ASSUME failedSends' = 0, lost' <= 1 PROVE ClaimWaits' /\ CreditLost'
  BY <1>2, <1>3, <1>5 DEF DInv
<1> QED BY <1>4, <1>5 DEF DInv, DecisionOK, CreditOK

\* A step of a request, a timer or the process: the history and the messages stand.
LEMMA QuietKept ==
  ASSUME IInv, IInv', DInv, Onward, UNCHANGED <<history, inbox, taken, lost>>,
         workflow' = workflow \/ workflow' # "pending",
         engine' = "recorded" => engine = "recorded" /\ UNCHANGED lane,
         \A x \in Wait : \/ lane'[x] = lane[x]
                         \/ lane'[x] = "idle" /\ engine' # "running"
                         \/ lane'[x] = "failing" /\ workflow' # "pending",
         \A e \in Decider :
           \/ request'[e] = request[e] \/ request'[e].at \notin {"sending", "accepted", "failed"}
           \/ request'[e].at = "failed" /\ failedSends' >= 1,
         \A x \in Wait, e \in Decider :
           <<x, e>> \in resending' => <<x, e>> \in resending \/ steps[x].claim = e
  PROVE  DInv'
<1>1. StructureOK'
  <2>1. RowsSound' /\ LanesTook'
    BY DEF DInv, StructureOK, RowsSound, LanesTook, history
  <2>2. FailingRunIsOver' /\ StrandedIsOver'
    BY DEF DInv, StructureOK, FailingRunIsOver, FailingLane, StrandedIsOver, Onward, NoLaneAgain,
           isTerminal, IInv, TypeOK, history
  <2>3. WaitsLost' /\ RecordedLanes'
    BY DEF DInv, StructureOK, WaitsLost, RecordedLanes, Onward, history
  <2>4. FailuresCounted'
    BY BoundAssumption DEF DInv, StructureOK, FailuresCounted, Onward, IInv, TypeOK
  <2> QED BY <2>1, <2>2, <2>3, <2>4 DEF StructureOK
<1>2. ASSUME failedSends' = 0, lost' <= 2, failedSends = 0, lost <= 2, DecisionOK
      PROVE  /\ \A x \in Wait, e \in Decider : Names(x, e)' => Names(x, e)
             /\ \A x \in Wait : steps'[x].claim = steps[x].claim \/ Closed(x)'
             /\ RequestsTold' /\ CreditedDecisionWasTaken'
             /\ lost <= 1 /\ lost' <= 1 => ClaimWaits' /\ CreditLost'
  <2>1. \A x \in Wait, e \in Decider : Names(x, e)' => Names(x, e)
    BY <1>2 DEF Names, history
  <2>2. \A x \in Wait : FailingLane(x) => FailingLane(x)' \/ NoLaneAgain'
    BY <1>1 DEF FailingLane, NoLaneAgain, DInv, StructureOK, FailingRunIsOver, isTerminal, history
  <2>3. lost <= 1 => ClaimWaits' /\ CreditLost'
    BY <1>2, <2>1, <2>2 DEF DInv, CreditOK, ClaimWaits, CreditLost, Onward, history
  <2>4. RequestsTold' /\ CreditedDecisionWasTaken'
    BY <1>2 DEF DecisionOK, RequestsTold, CreditedDecisionWasTaken, history
  <2> QED BY <2>1, <2>3, <2>4 DEF history
<1> QED BY <1>1, <1>2, DecisionsKept

\* A write that ends waits or claims: of a step whose claim it drops, the decision is
\* credited, is the reaper's to credit, or was not there.
LEMMA WaitsEndKept ==
  ASSUME IInv, IInv', DInv, Onward, RowsSound',
         UNCHANGED <<lane, inbox, taken, workflow, request, resending>>,
         engine' = engine \/ engine' \notin {"running", "recorded"},
         run' = run \/ run.reason # "stranded",
         run'.reason = "stranded" => engine' # "running",
         \A x \in Wait : LET s == steps[x] IN LET t == steps'[x] IN
           /\ t.waitingOn => s.waitingOn
           /\ t.claim = s.claim \/ Closed(x)' \/ lost' > 2
           /\ \/ t.claim = s.claim /\ t.decidedBy = s.decidedBy
              \/ t.claim = None /\ t.decidedBy = s.decidedBy /\ (NoLaneAgain' \/ lane[x] = "done")
              \/ t.claim = None /\ t.decidedBy = None /\ IsParked(s) /\ s.claim = None
              \/ /\ t.claim = None /\ t.decidedBy = s.claim /\ IsParked(s)
                 /\ run'.reason = "stranded" /\ NoLaneAgain'
  PROVE  DInv'
<1>1. StructureOK'
  <2>1. LanesTook' /\ FailingRunIsOver' /\ StrandedIsOver'
    BY DEF DInv, StructureOK, LanesTook, FailingRunIsOver, FailingLane, StrandedIsOver, Onward
  <2>2. WaitsLost' /\ RecordedLanes'
    BY BoundAssumption DEF DInv, StructureOK, WaitsLost, RecordedLanes, Onward, IInv, TypeOK
  <2>3. FailuresCounted'
    BY BoundAssumption DEF DInv, StructureOK, FailuresCounted, Onward, IInv, TypeOK
  <2> QED BY <2>1, <2>2, <2>3 DEF StructureOK
<1>2. ASSUME failedSends' = 0, lost' <= 2, failedSends = 0, lost <= 2, DecisionOK
      PROVE  /\ \A x \in Wait, e \in Decider : Names(x, e)' => Names(x, e)
             /\ \A x \in Wait : steps'[x].claim = steps[x].claim \/ Closed(x)'
             /\ RequestsTold' /\ CreditedDecisionWasTaken'
             /\ lost <= 1 /\ lost' <= 1 => ClaimWaits' /\ CreditLost'
  <2>1. \A x \in Wait, e \in Decider : Names(x, e)' => Names(x, e)
    BY NullAssumption DEF Names
  <2>2. \A x \in Wait : steps'[x].claim = steps[x].claim \/ Closed(x)'
    BY <1>2 DEF IInv, TypeOK
  <2>3. \A x \in Wait : IsParked(steps[x]) => steps[x].decidedBy = None
    BY DEF DInv, StructureOK, RowsSound, RowSound, IsParked
  <2>4. \A x \in Wait, e \in Decider : taken[x] \in Decider /\ Names(x, e) => e = taken[x]
    BY <1>2 DEF DInv, StructureOK, LanesTook, DecisionOK, OneNamed, Names
  <2>5. RequestsTold'
    BY <1>2 DEF DecisionOK, RequestsTold
  <2>6. CreditedDecisionWasTaken'
    <3> SUFFICES ASSUME NEW x \in Wait, steps'[x].decidedBy # None
                 PROVE  \/ taken[x] = steps'[x].decidedBy
                        \/ run'.reason = "stranded" /\ taken[x] \in {None, Timeout}
      BY DEF CreditedDecisionWasTaken
    <3>1. CASE steps'[x].decidedBy = steps[x].decidedBy
      BY <1>2, <3>1 DEF DecisionOK, CreditedDecisionWasTaken
    <3>2. CASE steps'[x].decidedBy = steps[x].claim /\ run'.reason = "stranded"
      <4>1. steps[x].claim \in Decider
        BY <3>2, RowFields DEF StepRow
      <4>2. Names(x, steps[x].claim)
        BY DEF Names
      <4> QED BY <2>4, <3>2, <4>1, <4>2 DEF IInv, TypeOK
    <3> QED BY <3>1, <3>2
  <2>7. ASSUME lost <= 1, lost' <= 1 PROVE ClaimWaits' /\ CreditLost'
    <3>1. ClaimWaits /\ CreditLost
      BY <1>2, <2>7 DEF DInv, CreditOK
    <3>2. \A x \in Wait : lane[x] = "done" /\ taken[x] \in Decider => steps[x].decidedBy = taken[x]
      BY <2>7, <3>1 DEF CreditLost, IInv, TypeOK
    <3>3. \A x \in Wait : lane[x] = "done" /\ taken[x] # Timeout => taken[x] \in Decider
      BY DEF DInv, StructureOK, LanesTook, IInv, TypeOK
    <3>4. ClaimWaits'
      BY <2>1, <2>3, <2>4, <3>1, <3>2, <3>3, NullAssumption DEF ClaimWaits, FailingLane, Onward
    <3>5. CreditLost'
      BY <2>3, <3>1, NullAssumption, BoundAssumption DEF CreditLost, Onward, IInv, TypeOK
    <3> QED BY <3>4, <3>5
  <2> QED BY <2>1, <2>2, <2>5, <2>6, <2>7
<1> QED BY <1>1, <1>2, DecisionsKept
-----------------------------------------------------------------------------
(* Requests, resends, timers and the process.                              *)
LEMMA InterruptDecides == ASSUME IInv, IInv', DInv, Onward, NEW w \in Wait, interrupt(w) PROVE DInv'
<1>1. \A x \in Wait : lane'[x] = lane[x] \/ lane'[x] = "failing"
  BY DEF interrupt, Go, IInv, TypeOK
<1> QED BY <1>1, QuietKept DEF interrupt, Live, history, dbos, Others

LEMMA RecordEndDecides == ASSUME IInv, IInv', DInv, Onward, recordEnd \/ recover PROVE DInv'
BY QuietKept DEF recordEnd, recover, EndWorkflow, Others

LEMMA RequestsWritten ==
  ASSUME IInv, NEW d \in Decider,
         NEW at \in {"idle", "asked", "sending", "failed", "accepted", "refused", "gone"}, At(d, at)
  PROVE  \A e \in Decider : /\ e # d => request'[e] = request[e]
                            /\ request'[e].wait = request[e].wait
                            /\ e = d => request'[e].at = at
<1> DEFINE new == [request[d] EXCEPT !.at = at]
<1>1. new.at = at /\ new.wait = request[d].wait
  BY DEF IInv, TypeOK, Request
<1>2. request' = [request EXCEPT ![d] = new]
  BY DEF At
<1> HIDE DEF new
<1> QED BY <1>1, <1>2 DEF IInv, TypeOK

LEMMA AskDecides ==
  ASSUME IInv, IInv', DInv, Onward, NEW d \in Decider, NEW w \in Wait, ask(d, w) PROVE DInv'
<1>1. \A e \in Decider : request'[e] = request[e] \/ request'[e].at = "asked"
  BY DEF ask, IInv, TypeOK
<1> QED BY <1>1, QuietKept DEF ask, dbos, faults

LEMMA SendFailsDecides ==
  ASSUME IInv, IInv', DInv, Onward, NEW d \in Decider, sendFails(d) PROVE DInv'
<1>1. failedSends' >= 1
  BY BoundAssumption DEF sendFails, IInv, TypeOK
<1>2. \A e \in Decider : request'[e] = request[e] \/ request'[e].at = "failed"
  BY DEF sendFails, At, IInv, TypeOK, Request
<1> QED BY <1>1, <1>2, QuietKept DEF sendFails, dbos

LEMMA ResendClaimsDecides == ASSUME IInv, IInv', DInv, Onward, resendClaims PROVE DInv'
BY QuietKept DEF resendClaims, dbos, faults

LEMMA CancelDecides ==
  ASSUME IInv, IInv', DInv, Onward, NEW end \in {"cancelled", "limit"}, cancelWorkflow(end) PROVE DInv'
BY QuietKept DEF cancelWorkflow, faults

LEMMA PassDecides == ASSUME IInv, IInv', DInv, Onward, NEW w \in Wait, pass(w) PROVE DInv'
BY QuietKept DEF pass, dbos, faults

LEMMA CrashDecides == ASSUME IInv, IInv', DInv, Onward, crash \/ restart \/ UNCHANGED vars PROVE DInv'
<1>1. CASE crash
  <2>1. \A e \in Decider : request'[e] = request[e] \/ request'[e].at = "gone"
    BY <1>1 DEF crash, IInv, TypeOK, Request
  <2> QED BY <1>1, <2>1, QuietKept DEF crash, dbos
<1>2. CASE restart \/ UNCHANGED vars
  BY <1>2, QuietKept DEF restart, vars, history, dbos, faults
<1> QED BY <1>1, <1>2

\* While every send arrives, no request gives its claim up.
LEMMA UnclaimDecides ==
  ASSUME IInv, IInv', DInv, Onward, NEW d \in Decider, unclaimWaits(d) PROVE DInv'
<1> DEFINE w == request[d].wait
<1>1. failedSends' >= 1 /\ failedSends' = failedSends
  BY DEF unclaimWaits, DInv, StructureOK, FailuresCounted, faults
<1>2. RowsSound' /\ \A x \in Wait : steps'[x].waitingOn = steps[x].waitingOn
                                 /\ steps'[x].finished = steps[x].finished
  <2>1. CASE w \in Wait
    <3>1. PICK c : steps' = [steps EXCEPT ![w].claim = c] /\ c \in {None, steps[w].claim}
      BY DEF unclaimWaits
    <3>2. \A x \in Wait : RowIs(steps'[x], steps[x].started, steps[x].waitingOn, steps[x].resumed,
                              steps[x].finished, IF x = w THEN c ELSE steps[x].claim, steps[x].decidedBy)
      BY <2>1, <3>1, ClaimedRow
    <3>3. ASSUME NEW x \in Wait PROVE RowSound(steps[x])
      BY DEF DInv, StructureOK, RowsSound
    <3>4. ASSUME NEW x \in Wait PROVE RowSound(steps'[x])
      <4>1. RowIs(steps'[x], steps[x].started, steps[x].waitingOn, steps[x].resumed, steps[x].finished,
                  IF x = w THEN c ELSE steps[x].claim, steps[x].decidedBy)
        BY <3>2
      <4>2. (IF x = w THEN c ELSE steps[x].claim) \in {None, steps[x].claim}
        BY <3>1
      <4>3. steps'[x].claim \in {None, steps[x].claim}
        BY <4>1, <4>2 DEF RowIs
      <4> QED BY <3>3, <4>1, <4>3 DEF RowIs, RowSound
    <3>5. ASSUME NEW x \in Wait PROVE steps'[x].waitingOn = steps[x].waitingOn /\ steps'[x].finished = steps[x].finished
      BY <3>2 DEF RowIs
    <3>6. RowsSound'
      BY <3>4 DEF RowsSound
    <3> QED BY <3>5, <3>6
  <2>2. CASE w \notin Wait
    BY <2>2 DEF unclaimWaits, IInv, TypeOK, DInv, StructureOK, RowsSound
  <2> QED BY <2>1, <2>2
<1>3. \A e \in Decider : request'[e].at = request[e].at \/ request'[e].at = "refused"
  BY RequestsWritten DEF unclaimWaits
<1>4. LanesTook' /\ FailingRunIsOver' /\ StrandedIsOver' /\ FailuresCounted'
  BY <1>1, <1>3 DEF unclaimWaits, DInv, StructureOK, LanesTook, FailingRunIsOver, FailingLane,
                    StrandedIsOver, FailuresCounted, isTerminal, dbos, faults
<1>5. WaitsLost' /\ RecordedLanes'
  BY <1>2 DEF unclaimWaits, DInv, StructureOK, WaitsLost, RecordedLanes, NoLaneAgain, isTerminal,
              dbos, faults
<1> QED BY <1>1, <1>2, <1>4, <1>5 DEF DInv, StructureOK, DecisionOK, CreditOK, IInv, TypeOK
-----------------------------------------------------------------------------
(* What ends a run, and the reaper.                                        *)
LEMMA ClearWaitsDecides == ASSUME IInv, IInv', DInv, Onward, clearWaits PROVE DInv'
<1>1. UNCHANGED <<run, lane, inbox, taken, workflow, request, resending>> /\ engine' = "cleared"
  BY DEF clearWaits, dbos, Others
<1>2. run.reason = "stranded" => engine # "recorded" \/ NoLaneAgain
  BY DEF NoLaneAgain, isTerminal, IInv, TypeOK
<1>3. CASE UNCHANGED steps
  <2>1. RowsSound'
    BY <1>3 DEF DInv, StructureOK, RowsSound
  <2> QED BY <1>1, <1>3, <2>1, WaitsEndKept
<1>4. CASE clearStepWaits
  <2>1. RowsSound'
    BY <1>4, ClearedRow DEF RowIs, DInv, StructureOK, RowsSound, RowSound
  <2>2. engine = "recorded" /\ (NoLaneAgain => NoLaneAgain')
    BY DEF clearWaits, Onward
  <2>3. \A x \in Wait : LET s == steps[x] IN LET t == steps'[x] IN
          /\ ~t.waitingOn /\ t.decidedBy = s.decidedBy /\ t.finished = s.finished
          /\ t.claim = s.claim \/ (s.waitingOn /\ t.claim = None)
    BY <1>4, ClearedRow DEF RowIs
  <2>4. \/ NoLaneAgain'
        \/ \A x \in Wait : lane[x] = "done" /\ (steps[x].waitingOn => lost' >= 3 \/ steps'[x].finished)
    BY <2>2, <2>3, BoundAssumption DEF DInv, StructureOK, RecordedLanes, Onward, IInv, TypeOK
  <2>5. \A x \in Wait : steps'[x].claim = steps[x].claim \/ Closed(x)' \/ lost' > 2
    BY <2>3, <2>4, BoundAssumption DEF Closed, IInv, TypeOK
  <2> HIDE DEF Closed
  <2> QED BY <1>1, <2>1, <2>3, <2>4, <2>5, WaitsEndKept
<1> QED BY <1>3, <1>4 DEF clearWaits

LEMMA EndRunDecides == ASSUME IInv, IInv', DInv, Onward, endRun PROVE DInv'
<1>1. /\ UNCHANGED <<engine, lane, inbox, taken, workflow, request, resending>>
      /\ run.reason # "stranded"
      /\ run'.reason = "stranded" => run' = run
  BY DEF endRun, Unlocked, dbos, IInv, TypeOK, EndingRunGoesOn, isTerminal, history
<1>2. CASE UNCHANGED steps
  <2>1. RowsSound'
    BY <1>2 DEF DInv, StructureOK, RowsSound
  <2> QED BY <1>1, <1>2, <2>1, WaitsEndKept
<1>3. CASE steps' = [w \in Wait |-> endWait(steps[w])]
  <2>1. RowsSound'
    BY <1>3, EndedRow DEF RowIs, DInv, StructureOK, RowsSound, RowSound
  <2> QED BY <1>1, <1>3, <2>1, EndedRow, WaitsEndKept DEF RowIs
<1> QED BY <1>2, <1>3 DEF endRun, history

LEMMA ReapCrashedDecides == ASSUME IInv, IInv', DInv, Onward, reapCrashedRun PROVE DInv'
<1>1. RowsSound'
  BY DEF reapCrashedRun, DInv, StructureOK, RowsSound
<1>2. run.reason # "stranded" /\ run'.reason = "crashed"
  BY DEF reapCrashedRun, EndInError, IInv, TypeOK
<1> QED BY <1>1, <1>2, WaitsEndKept DEF reapCrashedRun, Reap, dbos

\* A reap ends the run it reaps the waits of.
LEMMA ReapedRowsSound ==
  ASSUME IInv, DInv, NEW credited, endParkedSteps(credited) PROVE RowsSound'
BY ReapedRow, RowFields DEF RowIs, IsParked, DInv, StructureOK, RowsSound, RowSound

LEMMA ReapLapsedDecides == ASSUME IInv, IInv', DInv, Onward, reapLapsedRun PROVE DInv'
<1>1. RowsSound'
  BY ReapedRowsSound DEF reapLapsedRun
<1>2. run.reason # "stranded" /\ run'.reason = "lapsed" /\ isTerminal'
  BY DEF reapLapsedRun, EndInError, isTerminal, IInv, TypeOK
<1>3. \A x \in Wait : LET s == steps[x] IN LET t == steps'[x] IN
        IF IsParked(s) THEN s.claim = None /\ ~t.waitingOn /\ t.claim = None /\ t.decidedBy = None
        ELSE t = s
  BY ReapedRow DEF RowIs, reapLapsedRun, Claimed, Parked
<1> QED BY <1>1, <1>2, <1>3, WaitsEndKept DEF reapLapsedRun, Reap, dbos

LEMMA ReapStrandedDecides == ASSUME IInv, IInv', DInv, Onward, reapStrandedRun PROVE DInv'
<1>1. RowsSound'
  BY ReapedRowsSound DEF reapStrandedRun
<1>2. run.reason # "stranded" /\ run'.reason = "stranded" /\ isTerminal'
  BY DEF reapStrandedRun, EndInError, isTerminal, IInv, TypeOK
<1>3. UNCHANGED <<engine, lane, inbox, taken, workflow, request, resending>>
  BY DEF reapStrandedRun, Reap, dbos
<1>4. engine # "running" /\ NoLaneAgain'
  BY <1>2, <1>3 DEF reapStrandedRun, NoLaneLive, NoLaneAgain
<1>5. \A x \in Wait : LET s == steps[x] IN LET t == steps'[x] IN
        IF IsParked(s) THEN ~t.waitingOn /\ t.claim = None /\ t.decidedBy = s.claim /\ t.finished
        ELSE t = s
  BY ReapedRow DEF RowIs, reapStrandedRun, Claimed, Parked
<1>6. \A x \in Wait : steps'[x].claim = steps[x].claim \/ Closed(x)'
  BY <1>5 DEF Closed
<1> HIDE DEF Closed
<1> QED BY <1>1, <1>2, <1>3, <1>4, <1>5, <1>6, WaitsEndKept

LEMMA ReapOrphansDecides == ASSUME IInv, IInv', DInv, Onward, reapOrphanSteps PROVE DInv'
<1>1. RowsSound'
  BY OrphanRow, RowFields DEF RowIs, DInv, StructureOK, RowsSound, RowSound, WaitsStarted
<1>2. run.reason = "stranded" => engine # "running"
  BY DEF DInv, StructureOK, StrandedIsOver
<1> QED BY <1>1, <1>2, OrphanRow, WaitsEndKept DEF RowIs, reapOrphanSteps, Reap, dbos

LEMMA ReapClaimsDecides == ASSUME IInv, IInv', DInv, Onward, reapOldClaims PROVE DInv'
<1>1. RowsSound'
  BY UnclaimedRow DEF RowIs, DInv, StructureOK, RowsSound, RowSound
<1>2. run.reason = "stranded" => engine # "running"
  BY DEF DInv, StructureOK, StrandedIsOver
<1>3. NoLaneAgain' /\ \A x \in Wait : Closed(x)'
  BY DEF reapOldClaims, Reap, NoLaneLive, NoLaneAgain, Closed, isTerminal
<1> QED BY <1>1, <1>2, <1>3, UnclaimedRow, WaitsEndKept DEF RowIs, reapOldClaims, Reap, dbos
-----------------------------------------------------------------------------
(* A decision on its way: claimed, sent, sent again, received.             *)

\* Only a wait nobody has been named for can be claimed.
LEMMA TakeWaitsDecides ==
  ASSUME IInv, IInv', DInv, Onward, NEW d \in Decider, takeWaits(d) PROVE DInv'
<1> DEFINE w == request[d].wait
<1>1. CASE At(d, "refused") /\ UNCHANGED steps
  <2>1. \A e \in Decider : request'[e] = request[e] \/ request'[e].at = "refused"
    BY <1>1 DEF At, IInv, TypeOK, Request
  <2>2. \A x \in Wait, e \in Decider :
          <<x, e>> \in resending' => <<x, e>> \in resending \/ steps[x].claim = e
    BY <1>1, RequestsWritten DEF takeWaits
  <2> QED BY <1>1, <2>1, <2>2, QuietKept DEF takeWaits, history, dbos, faults
<1>2. CASE Takes(w) /\ steps' = [steps EXCEPT ![w].claim = d] /\ At(d, "sending") /\ UNCHANGED resending
  <2>1. /\ w \in Wait /\ steps[w].waitingOn /\ ~steps[w].finished /\ steps[w].claim = None
        /\ run.status = "waiting"
    BY <1>2 DEF Takes, Parked, Claimed, IsParked
  <2>2. ~Closed(w) /\ steps[w].started
    BY <2>1 DEF Closed, isTerminal, DInv, StructureOK, RowsSound, RowSound, IInv, WaitsStarted
  <2>3. UNCHANGED <<run, inbox, taken, workflow, engine, lane, resending, lost, failedSends>>
    BY <1>2 DEF takeWaits, dbos, faults
  <2>4. \A x \in Wait : LET s == steps[x] IN LET t == steps'[x] IN
          RowIs(t, s.started, s.waitingOn, s.resumed, s.finished, IF x = w THEN d ELSE s.claim, s.decidedBy)
    BY <1>2, <2>1, ClaimedRow
  <2>5. \A e \in Decider : IF e = d THEN request'[e].at = "sending" /\ request'[e].wait = w
                           ELSE request'[e] = request[e]
    BY <1>2, RequestsWritten
  <2>6. StructureOK'
    <3>1. RowsSound' /\ WaitsLost' /\ RecordedLanes'
      BY <2>2, <2>3, <2>4 DEF RowIs, DInv, StructureOK, RowsSound, RowSound, WaitsLost, RecordedLanes,
                              NoLaneAgain, isTerminal
    <3>2. LanesTook' /\ FailingRunIsOver' /\ StrandedIsOver' /\ FailuresCounted'
      BY <2>3, <2>5 DEF DInv, StructureOK, LanesTook, FailingRunIsOver, FailingLane, StrandedIsOver,
                        FailuresCounted, isTerminal
    <3> QED BY <3>1, <3>2 DEF StructureOK
  <2>7. ASSUME failedSends' = 0, lost' <= 2
        PROVE  OneNamed' /\ NamedHolds' /\ RequestsTold' /\ CreditedDecisionWasTaken'
    <3>1. OneNamed /\ NamedHolds /\ RequestsTold /\ CreditedDecisionWasTaken
      BY <2>3, <2>7 DEF DInv, DecisionOK
    <3>2. \A e \in Decider : ~Names(w, e)
      BY <2>1, <2>2, <3>1, NullAssumption DEF NamedHolds
    <3>3. \A x \in Wait, e \in Decider : Names(x, e)' => Names(x, e) \/ (x = w /\ e = d)
      BY <2>3, <2>4, <2>5 DEF Names, RowIs
    <3>4. \A x \in Wait : (Closed(x) => Closed(x)') /\ (x # w => steps'[x].claim = steps[x].claim)
      BY <2>3, <2>4 DEF Closed, RowIs, NoLaneAgain, isTerminal
    <3>5. OneNamed' /\ NamedHolds'
      BY <2>4, <3>1, <3>2, <3>3, <3>4 DEF OneNamed, NamedHolds, RowIs
    <3>6. RequestsTold' /\ CreditedDecisionWasTaken'
      BY <2>3, <2>4, <2>5, <3>1 DEF RequestsTold, CreditedDecisionWasTaken, RowIs
    <3> QED BY <3>5, <3>6
  <2>8. ASSUME failedSends' = 0, lost' <= 1 PROVE ClaimWaits' /\ CreditLost'
    <3>1. ClaimWaits /\ CreditLost
      BY <2>3, <2>8 DEF DInv, CreditOK
    <3>2. \A x \in Wait, e \in Decider : Names(x, e)' => Names(x, e) \/ steps'[x].claim = e
      BY <2>3, <2>4, <2>5 DEF Names, RowIs
    <3>3. \A x \in Wait : steps'[x].claim = steps[x].claim \/ steps[x].claim = None
      BY <2>1, <2>4 DEF RowIs
    <3>4. ClaimWaits'
      BY <2>3, <2>4, <3>1, <3>2, <3>3, NullAssumption
         DEF ClaimWaits, FailingLane, NoLaneAgain, isTerminal, RowIs
    <3>5. CreditLost'
      BY <2>3, <2>4, <3>1 DEF CreditLost, RowIs
    <3> QED BY <3>4, <3>5
  <2> QED BY <2>6, <2>7, <2>8 DEF DInv, DecisionOK, CreditOK
<1> QED BY <1>1, <1>2 DEF takeWaits

\* A message names who was already named.
LEMMA SentKept ==
  ASSUME IInv, IInv', DInv, Onward, UNCHANGED <<history, taken, workflow, engine, lane, lost>>,
         \A x \in Wait, e \in Decider : Names(x, e)' => Names(x, e),
         \A x \in Wait : inbox[x] # None => inbox'[x] = inbox[x],
         \A e \in Decider : request'[e].at = "failed" => request[e].at = "failed",
         failedSends' = 0 /\ lost <= 2 /\ DecisionOK => RequestsTold'
  PROVE  DInv'
<1>1. StructureOK'
  <2>1. RowsSound' /\ FailingRunIsOver' /\ StrandedIsOver' /\ WaitsLost' /\ RecordedLanes'
    BY DEF DInv, StructureOK, RowsSound, FailingRunIsOver, FailingLane, StrandedIsOver, WaitsLost,
           RecordedLanes, NoLaneAgain, isTerminal, history
  <2>2. LanesTook'
    BY NullAssumption DEF DInv, StructureOK, LanesTook
  <2>3. FailuresCounted'
    BY BoundAssumption DEF DInv, StructureOK, FailuresCounted, Onward, IInv, TypeOK
  <2> QED BY <2>1, <2>2, <2>3 DEF StructureOK
<1>2. ASSUME failedSends' = 0, lost <= 2, DecisionOK, failedSends = 0
      PROVE  RequestsTold' /\ CreditedDecisionWasTaken' /\ (lost <= 1 => ClaimWaits' /\ CreditLost')
  <2>1. RequestsTold' /\ CreditedDecisionWasTaken'
    BY <1>2 DEF DecisionOK, CreditedDecisionWasTaken, history
  <2>2. lost <= 1 => ClaimWaits' /\ CreditLost'
    BY <1>2 DEF DInv, CreditOK, ClaimWaits, CreditLost, FailingLane, Onward, history
  <2> QED BY <2>1, <2>2
<1> QED BY <1>1, <1>2, DecisionsKept DEF history

LEMMA DeliverDecides ==
  ASSUME IInv, IInv', DInv, Onward, NEW d \in Decider, deliver(d) PROVE DInv'
<1> DEFINE w == request[d].wait
<1>1. UNCHANGED <<history, taken, workflow, engine, lane, resending, lost, failedSends>>
  BY DEF deliver, faults
<1>2. \A e \in Decider : IF e = d THEN request'[e].at = "accepted" /\ request'[e].wait = w
                         ELSE request'[e] = request[e]
  BY RequestsWritten DEF deliver
<1>3. \A x \in Wait : inbox'[x] = IF x = w /\ inbox[x] = None THEN d ELSE inbox[x]
  BY DEF deliver, sendEvent, IInv, TypeOK
<1>4. request[d].at = "sending"
  BY DEF deliver
<1>5. \A x \in Wait, e \in Decider : Names(x, e)' => Names(x, e)
  BY <1>1, <1>2, <1>3, <1>4 DEF Names, history
<1>6. ASSUME failedSends = 0, lost <= 2, DecisionOK PROVE RequestsTold'
  <2>1. w \in Wait /\ inbox[w] # None => inbox[w] = d
    BY <1>4, <1>6 DEF DecisionOK, OneNamed, Names, IInv, TypeOK
  <2> QED BY <1>2, <1>3, <1>6, <2>1, NullAssumption DEF DecisionOK, RequestsTold
<1> QED BY <1>1, <1>2, <1>3, <1>5, <1>6, SentKept

LEMMA ResendDecides ==
  ASSUME IInv, IInv', DInv, Onward, NEW copy \in resending, resend(copy) PROVE DInv'
<1> DEFINE w == copy[1]
           d == copy[2]
<1>1. UNCHANGED <<history, taken, workflow, engine, lane, request, lost>>
  BY DEF resend
<1>2. w \in Wait /\ d \in Decider /\ copy = <<w, d>> /\ resending' \subseteq resending
  BY DEF resend, IInv, TypeOK
<1>3. \A x \in Wait : inbox'[x] = inbox[x] \/ (x = w /\ inbox[x] = None /\ inbox'[x] = d)
  BY <1>2, SentOnce DEF resend
<1>4. \A x \in Wait, e \in Decider : Names(x, e)' => Names(x, e)
  BY <1>1, <1>2, <1>3 DEF Names, history
<1>5. DecisionOK /\ failedSends = 0 /\ lost <= 2 => RequestsTold'
  BY <1>1, <1>3, NullAssumption DEF DecisionOK, RequestsTold
<1>6. failedSends' = 0 => failedSends = 0
  BY BoundAssumption DEF Onward, IInv, TypeOK
<1> QED BY <1>1, <1>3, <1>4, <1>5, <1>6, SentKept
-----------------------------------------------------------------------------
(* The lanes.  Only they move a wait on, and each write of theirs may be   *)
(* lost; the others' waits stand.                                          *)

LEMMA LaneMoves ==
  ASSUME IInv, NEW w \in Wait, NEW at, Go(w, at)
  PROVE  \A x \in Wait : lane'[x] = IF x = w THEN at ELSE lane[x]
BY DEF Go, IInv, TypeOK

\* A lane's write leaves what was sent, received and claimed by others.
LEMMA LaneDecides ==
  ASSUME IInv, IInv', DInv, Onward, engine = "running",
         UNCHANGED <<engine, inbox, taken, workflow, request, resending, failedSends>>,
         UNCHANGED run \/ EndUntouched,
         RowsSound', WaitsLost',
         \A x \in Wait :
           /\ FailingLane(x)' => FailingLane(x) \/ workflow # "pending" \/ isTerminal
           /\ lane'[x] \in {"got", "resumed", "settling", "done"} => taken[x] # None,
         \A x \in Wait : steps'[x].claim \in {None, steps[x].claim},
         \A x \in Wait : steps'[x].claim = steps[x].claim \/ Closed(x)',
         failedSends = 0 /\ lost <= 2 /\ DecisionOK => CreditedDecisionWasTaken',
         failedSends = 0 /\ lost <= 1 /\ lost' <= 1 /\ DecisionOK => ClaimWaits' /\ CreditLost'
  PROVE  DInv'
<1>1. run'.reason = "stranded" => run.reason = "stranded"
  BY DEF EndUntouched, isTerminal, IInv, TypeOK
<1>2. LanesTook' /\ FailingRunIsOver' /\ StrandedIsOver' /\ RecordedLanes' /\ FailuresCounted'
  BY <1>1 DEF DInv, StructureOK, LanesTook, FailingRunIsOver, FailingLane, StrandedIsOver, RecordedLanes,
              FailuresCounted, Onward
<1>3. StructureOK'
  BY <1>2 DEF StructureOK
<1>4. \A x \in Wait, e \in Decider : Names(x, e)' => Names(x, e)
  BY NullAssumption DEF Names
<1>5. DecisionOK /\ failedSends = 0 /\ lost <= 2 => RequestsTold'
  BY DEF DecisionOK, RequestsTold
<1> QED BY <1>3, <1>4, <1>5, DecisionsKept

\* A lane that has yet to receive, or had nothing to write.
LEMMA EarlyLaneDecides ==
  ASSUME IInv, IInv', DInv, Onward, NEW w \in Wait, NEW at, Go(w, at), engine = "running",
         UNCHANGED <<engine, inbox, taken, workflow, request, resending, failedSends>>,
         UNCHANGED run \/ EndUntouched,
         RowsSound', at \in {"gated", "parked", "failing"}, lane[w] \in {"idle", "gated"},
         at = "failing" => isTerminal,
         \A x \in Wait : LET s == steps[x] IN LET t == steps'[x] IN
           /\ t.claim = s.claim /\ t.decidedBy = s.decidedBy /\ (s.finished => t.finished)
           /\ x # w => (t.waitingOn => s.waitingOn)
  PROVE  DInv'
<1>1. \A x \in Wait : lane'[x] = IF x = w THEN at ELSE lane[x]
  BY LaneMoves
<1>2. WaitsLost'
  BY <1>1, BoundAssumption DEF DInv, StructureOK, WaitsLost, Onward, IInv, TypeOK
<1>3. run'.reason = run.reason
  BY DEF EndUntouched, isTerminal, IInv, TypeOK
<1>4. DecisionOK /\ failedSends = 0 /\ lost <= 2 => CreditedDecisionWasTaken'
  BY <1>3 DEF DecisionOK, CreditedDecisionWasTaken
<1>5. \A x \in Wait, e \in Decider : Names(x, e)' => Names(x, e)
  BY DEF Names
<1>6. failedSends = 0 /\ lost <= 1 /\ lost' <= 1 => ClaimWaits' /\ CreditLost'
  <2>1. failedSends = 0 /\ lost <= 1 => ClaimWaits'
    BY <1>1, <1>5 DEF DInv, CreditOK, ClaimWaits, FailingLane, Onward
  <2>2. failedSends = 0 /\ lost <= 1 => CreditLost'
    BY <1>1, BoundAssumption DEF DInv, CreditOK, CreditLost, Onward, IInv, TypeOK
  <2> QED BY <2>1, <2>2
<1>7. \A x \in Wait :
        /\ FailingLane(x)' => FailingLane(x) \/ workflow # "pending" \/ isTerminal
        /\ lane'[x] \in {"got", "resumed", "settling", "done"} => taken[x] # None
  BY <1>1 DEF FailingLane, DInv, StructureOK, LanesTook
<1> QED BY <1>2, <1>4, <1>6, <1>7, LaneDecides

LEMMA BeginDecides == ASSUME IInv, IInv', DInv, Onward, NEW w \in Wait, begin(w) PROVE DInv'
<1> DEFINE at == IF run.status = "cancelled" THEN "failing" ELSE "gated"
<1>1. /\ Go(w, at) /\ engine = "running" /\ lane[w] = "idle" /\ UNCHANGED run
      /\ UNCHANGED <<engine, inbox, taken, workflow, request, resending, failedSends>>
      /\ at \in {"gated", "parked", "failing"} /\ (at = "failing" => isTerminal)
  BY DEF begin, Live, isTerminal, dbos, Others
<1> HIDE DEF at
<1>2. CASE UNCHANGED steps
  <2>1. RowsSound'
    BY <1>2 DEF DInv, StructureOK, RowsSound
  <2> QED BY <1>1, <1>2, <2>1, EarlyLaneDecides
<1>3. CASE stepStarted(w)
  <2>1. RowsSound'
    <3> SUFFICES ASSUME NEW x \in Wait PROVE RowSound(steps'[x])
      BY DEF RowsSound
    <3>1. RowSound(steps[x])
      BY DEF DInv, StructureOK, RowsSound
    <3>2. RowIs(steps'[x], steps[x].started \/ x = w, steps[x].waitingOn, steps[x].resumed, steps[x].finished, steps[x].claim, steps[x].decidedBy)
      BY <1>3, StartedRow
    <3> QED BY <3>1, <3>2, RowFields DEF RowIs, RowSound
  <2> QED BY <1>1, <1>3, <2>1, StartedRow, EarlyLaneDecides DEF RowIs
<1> QED BY <1>2, <1>3 DEF begin

LEMMA ParkDecides == ASSUME IInv, IInv', DInv, Onward, NEW w \in Wait, park(w) PROVE DInv'
<1>1. /\ Go(w, "parked") /\ engine = "running" /\ lane[w] = "gated"
      /\ UNCHANGED <<engine, inbox, taken, workflow, request, resending, failedSends>>
  BY DEF park, Live, dbos, Others
<1>2. CASE UNCHANGED history
  <2>1. RowsSound'
    BY <1>2 DEF DInv, StructureOK, RowsSound, history
  <2> QED BY <1>1, <1>2, <2>1, EarlyLaneDecides DEF history
<1>3. CASE stepWaiting(w)
  <2>1. RowsSound'
    <3> SUFFICES ASSUME NEW x \in Wait PROVE RowSound(steps'[x])
      BY DEF RowsSound
    <3>1. RowSound(steps[x])
      BY DEF DInv, StructureOK, RowsSound
    <3>2. RowIs(steps'[x], steps[x].started,
               steps[x].waitingOn \/ (x = w /\ steps[x].started /\ ~steps[x].finished /\ ~steps[x].resumed),
               steps[x].resumed, steps[x].finished, steps[x].claim, steps[x].decidedBy)
      BY <1>3, WaitingRow
    <3> QED BY <3>1, <3>2, RowFields DEF RowIs, RowSound
  <2> QED BY <1>1, <1>3, <2>1, WaitingRow, StepWaitingOK, EarlyLaneDecides DEF RowIs
<1> QED BY <1>2, <1>3 DEF park

LEMMA ReceiveDecides == ASSUME IInv, IInv', DInv, Onward, NEW w \in Wait, receive(w) PROVE DInv'
<1>1. /\ \A x \in Wait : lane'[x] = IF x = w THEN "got" ELSE lane[x]
      /\ engine = "running" /\ lane[w] = "parked"
      /\ UNCHANGED <<history, engine, inbox, workflow, request, resending, lost, failedSends>>
  BY LaneMoves DEF receive, Live, Others
<1>2. \A x \in Wait : \/ taken'[x] = taken[x] /\ (x = w => taken[x] # None)
                      \/ x = w /\ taken[x] = None /\ taken'[x] \in {inbox[x], Timeout} \ {None}
  BY NullAssumption DEF receive, IInv, TypeOK
<1>3. StructureOK'
  <2>1. LanesTook'
    BY <1>1, <1>2, NullAssumption DEF DInv, StructureOK, LanesTook, IInv, TypeOK
  <2>2. RowsSound' /\ FailingRunIsOver' /\ StrandedIsOver' /\ FailuresCounted'
    BY <1>1 DEF DInv, StructureOK, RowsSound, FailingRunIsOver, FailingLane, StrandedIsOver,
                FailuresCounted, isTerminal, history
  <2>3. WaitsLost' /\ RecordedLanes'
    BY <1>1 DEF DInv, StructureOK, WaitsLost, RecordedLanes, history
  <2> QED BY <2>1, <2>2, <2>3 DEF StructureOK
<1>4. \A x \in Wait, e \in Decider : Names(x, e)' => Names(x, e)
  BY <1>1 DEF Names, history
<1>5. DecisionOK /\ failedSends = 0 /\ lost <= 2 => RequestsTold' /\ CreditedDecisionWasTaken'
  BY <1>1, <1>2 DEF DecisionOK, RequestsTold, CreditedDecisionWasTaken, DInv, StructureOK, StrandedIsOver,
                    history
<1>6. failedSends = 0 /\ lost <= 1 => ClaimWaits' /\ CreditLost'
  BY <1>1, <1>2, <1>4, NullAssumption
     DEF DInv, CreditOK, ClaimWaits, CreditLost, FailingLane, NoLaneAgain, history
<1> QED BY <1>1, <1>3, <1>4, <1>5, <1>6, DecisionsKept DEF history

\* A resume that is written credits the decision its lane took.
LEMMA ResumeCredits ==
  ASSUME IInv, IInv', DInv, NEW w \in Wait, taken[w] # None,
         stepResumed(w, taken[w] # Timeout), UNCHANGED taken,
         failedSends = 0, lost <= 2, DecisionOK
  PROVE  /\ CreditedDecisionWasTaken'
         /\ lost <= 1 /\ engine = "running" /\ ~FailingLane(w) /\ taken[w] \in Decider =>
              steps'[w].decidedBy = taken[w]
<1>1. \A e \in Decider : taken[w] \in Decider /\ Names(w, e) => e = taken[w]
  BY DEF DInv, StructureOK, LanesTook, DecisionOK, OneNamed, Names
<1>2. taken[w] # Timeout => taken[w] \in Decider
  BY DEF IInv, TypeOK
<1>3. steps[w].claim \in Decider \cup {None} /\ Names(w, steps[w].claim)
  BY RowFields DEF StepRow, Names
<1>4. run'.reason = run.reason
  BY StepResumedOK DEF EndUntouched, isTerminal, IInv, TypeOK
<1>5. CreditedDecisionWasTaken'
  <2> SUFFICES ASSUME NEW x \in Wait, steps'[x].decidedBy # None
               PROVE  \/ taken[x] = steps'[x].decidedBy
                      \/ run.reason = "stranded" /\ taken[x] \in {None, Timeout}
    BY <1>4 DEF CreditedDecisionWasTaken
  <2>1. CASE steps'[x].decidedBy = steps[x].decidedBy
    BY <2>1 DEF DecisionOK, CreditedDecisionWasTaken
  <2>2. CASE x = w /\ taken[w] # Timeout /\ steps[w].claim # None /\ steps'[w].decidedBy = steps[w].claim
    BY <2>2, <1>1, <1>2, <1>3
  <2> QED BY <2>1, <2>2, ResumedRow DEF RowIs
<1>6. ASSUME lost <= 1, engine = "running", ~FailingLane(w), taken[w] \in Decider
      PROVE  steps'[w].decidedBy = taken[w]
  <2>1. Names(w, taken[w]) /\ taken[w] # Timeout
    BY <1>6, NullAssumption DEF DInv, StructureOK, LanesTook, Names
  <2>2. steps[w].decidedBy = taken[w] \/ steps[w].claim = taken[w]
    BY <1>6, <2>1 DEF DInv, CreditOK, ClaimWaits, NoLaneAgain
  <2>3. steps[w].claim \in {None, taken[w]}
    BY <1>1, <1>3, <1>6
  <2>4. steps[w].claim = taken[w] => steps[w].started
    BY <1>6, NullAssumption DEF DInv, StructureOK, RowsSound, RowSound
  <2> QED BY <2>1, <2>2, <2>3, <2>4, NullAssumption, <1>6, ResumedRow DEF RowIs
<1> QED BY <1>5, <1>6

LEMMA ResumedRowsSound ==
  ASSUME IInv, DInv, NEW w \in Wait, NEW answered, stepResumed(w, answered)
  PROVE  /\ RowsSound'
         /\ ~steps'[w].waitingOn
         /\ steps'[w].claim \in {None, steps[w].claim}
         /\ steps'[w].claim = steps[w].claim \/ Closed(w)'
         /\ \A x \in Wait \ {w} : steps'[x] = steps[x]
BY ResumedRow, RowFields DEF RowIs, DInv, StructureOK, RowsSound, RowSound, Closed, IInv, WaitsStarted

LEMMA ResumeDecides == ASSUME IInv, IInv', DInv, Onward, NEW w \in Wait, resume(w) PROVE DInv'
<1>1. /\ \A x \in Wait : lane'[x] = IF x = w THEN "resumed" ELSE lane[x]
      /\ engine = "running" /\ lane[w] = "got"
      /\ UNCHANGED <<engine, inbox, taken, workflow, request, resending, failedSends>>
  BY LaneMoves DEF resume, Live, dbos, Others
<1>2. /\ taken[w] # None
      /\ \A x \in Wait :
        /\ FailingLane(x)' => FailingLane(x) \/ workflow # "pending" \/ isTerminal
        /\ lane'[x] \in {"got", "resumed", "settling", "done"} => taken[x] # None
  BY <1>1 DEF FailingLane, DInv, StructureOK, LanesTook
<1>3. CASE LoseWrite /\ UNCHANGED history
  <2>1. lost' >= 1
    BY <1>3 DEF LoseWrite, IInv, TypeOK
  <2>2. RowsSound' /\ WaitsLost'
    BY <1>1, <1>3, <2>1 DEF DInv, StructureOK, RowsSound, WaitsLost, LoseWrite, IInv, TypeOK, history
  <2>3. failedSends = 0 /\ lost <= 2 /\ DecisionOK => CreditedDecisionWasTaken'
    BY <1>1, <1>3 DEF DecisionOK, CreditedDecisionWasTaken, history
  <2>4. failedSends = 0 /\ lost <= 1 /\ lost' <= 1 => ClaimWaits' /\ CreditLost'
    BY <1>1, <1>3, <2>1 DEF DInv, CreditOK, ClaimWaits, CreditLost, FailingLane, NoLaneAgain, Names,
                            LoseWrite, IInv, TypeOK, history
  <2> QED BY <1>1, <1>2, <1>3, <2>2, <2>3, <2>4, LaneDecides DEF history
<1>4. CASE stepResumed(w, taken[w] # Timeout) /\ UNCHANGED lost
  <2>1. WaitsLost'
    BY <1>1, <1>4, ResumedRowsSound DEF DInv, StructureOK, WaitsLost
  <2>2. failedSends = 0 /\ lost <= 2 /\ DecisionOK => CreditedDecisionWasTaken'
    BY <1>1, <1>2, <1>4, ResumeCredits
  <2>3. ASSUME failedSends = 0, lost <= 1, DecisionOK PROVE ClaimWaits' /\ CreditLost'
    <3>1. taken[w] \in Decider => steps'[w].decidedBy = taken[w]
      BY <1>1, <1>2, <1>4, <2>3, ResumeCredits DEF FailingLane, IInv, TypeOK
    <3>2. \A x \in Wait, e \in Decider : Names(x, e)' => Names(x, e)
      BY <1>1, <1>4, ResumedRowsSound, NullAssumption DEF Names
    <3>3. \A e \in Decider : taken[w] # Timeout /\ Names(w, e) => taken[w] \in Decider /\ e = taken[w]
      <4>1. OneNamed
        BY <2>3 DEF DecisionOK, IInv, TypeOK
      <4>2. taken[w] # Timeout => taken[w] \in Decider /\ Names(w, taken[w])
        BY <1>2 DEF DInv, StructureOK, LanesTook, Names, IInv, TypeOK
      <4> QED BY <4>1, <4>2 DEF OneNamed
    <3>4. ASSUME NEW x \in Wait, NEW e \in Decider, Names(x, e)', taken[x] # Timeout
          PROVE  steps'[x].decidedBy = e \/ steps'[x].claim = e \/ NoLaneAgain' \/ FailingLane(x)'
      <4>1. CASE x = w
        BY <3>1, <3>2, <3>3, <3>4, <4>1
      <4>2. CASE x # w
        <5>1. steps[x].decidedBy = e \/ steps[x].claim = e \/ FailingLane(x)
          BY <1>1, <2>3, <3>2, <3>4 DEF DInv, CreditOK, ClaimWaits, NoLaneAgain
        <5> QED BY <1>1, <1>4, <4>2, <5>1, ResumedRowsSound DEF FailingLane
      <4> QED BY <4>1, <4>2
    <3>5. CreditLost'
      BY <1>1, <1>4, <2>3, <3>1, ResumedRowsSound DEF DInv, CreditOK, CreditLost
    <3> QED BY <1>1, <3>4, <3>5 DEF ClaimWaits
  <2> QED BY <1>1, <1>2, <1>4, <2>1, <2>2, <2>3, ResumedRowsSound, StepResumedOK, LaneDecides
          DEF IInv, TypeOK
<1> QED BY <1>3, <1>4 DEF resume

LEMMA StepFinishedDecides ==
  ASSUME IInv, IInv', DInv, Onward, NEW w \in Wait, stepFinished(w) PROVE DInv'
<1> DEFINE ok == lane[w] = "resumed"
           s == steps[w]
<1>1. /\ engine = "running" /\ lane[w] \in {"resumed", "failing"} /\ UNCHANGED run
      /\ UNCHANGED <<engine, inbox, taken, workflow, request, resending, failedSends>>
  BY DEF stepFinished, Live, dbos, Others
<1>2. PICK at \in {"done", "failed", "settling", "settlingFailed"} :
        /\ \A x \in Wait : lane'[x] = IF x = w THEN at ELSE lane[x]
        /\ at \in IF ok THEN {"done", "settling"} ELSE {"failed", "settlingFailed"}
        /\ \/ /\ steps' = [steps EXCEPT ![w].finished = s.started] /\ UNCHANGED lost
              /\ at = "done" => ~s.waitingOn /\ s.claim = None
           \/ LoseWrite /\ at = (IF ok THEN "done" ELSE "failed") /\ UNCHANGED steps
  <2> DEFINE end == IF ok THEN "done" ELSE "failed"
             next == IF ~Settling(s) THEN end ELSE IF ok THEN "settling" ELSE "settlingFailed"
  <2>1. CASE steps' = [steps EXCEPT ![w].finished = s.started] /\ Go(w, next) /\ UNCHANGED lost
    BY <2>1, LaneMoves DEF Settling
  <2>2. CASE LoseWrite /\ Go(w, end) /\ UNCHANGED steps
    BY <2>2, LaneMoves
  <2> QED BY <2>1, <2>2 DEF stepFinished
<1>3. \A x \in Wait : LET t == steps'[x] IN
        RowIs(t, steps[x].started, steps[x].waitingOn, steps[x].resumed, t.finished, steps[x].claim,
              steps[x].decidedBy)
  BY <1>2, FinishedRow DEF RowIs
<1>4. UNCHANGED lost => \A x \in Wait : steps'[x].finished = IF x = w THEN s.started ELSE steps[x].finished
  <2>1. LoseWrite => lost' # lost
    BY DEF LoseWrite, IInv, TypeOK
  <2> QED BY <1>2, <2>1, FinishedRow DEF RowIs
<1>5. RowsSound'
  <2>1. CASE UNCHANGED steps
    BY <2>1 DEF DInv, StructureOK, RowsSound
  <2>2. CASE steps' = [steps EXCEPT ![w].finished = s.started]
    BY <2>2, FinishedRow, RowFields DEF RowIs, DInv, StructureOK, RowsSound, RowSound
  <2> QED BY <1>2, <2>1, <2>2
<1>6. WaitsLost'
  BY <1>1, <1>2, <1>3, <1>4, BoundAssumption
     DEF RowIs, DInv, StructureOK, WaitsLost, Onward, LoseWrite, IInv, TypeOK, WaitsStarted
<1>7. \A x \in Wait :
        /\ FailingLane(x)' => FailingLane(x) \/ workflow # "pending" \/ isTerminal
        /\ lane'[x] \in {"got", "resumed", "settling", "done"} => taken[x] # None
  BY <1>1, <1>2 DEF FailingLane, DInv, StructureOK, LanesTook
<1>8. failedSends = 0 /\ lost <= 2 /\ DecisionOK => CreditedDecisionWasTaken'
  BY <1>1, <1>3 DEF RowIs, DecisionOK, CreditedDecisionWasTaken
<1>9. ASSUME failedSends = 0, lost <= 1, lost' <= 1 PROVE ClaimWaits' /\ CreditLost'
  <2>1. \A x \in Wait, e \in Decider : Names(x, e)' => Names(x, e)
    BY <1>1, <1>3 DEF Names, RowIs
  <2>2. ClaimWaits'
    BY <1>1, <1>2, <1>3, <1>9, <2>1 DEF RowIs, DInv, CreditOK, ClaimWaits, FailingLane, NoLaneAgain
  <2>3. taken[w] \in Decider /\ ok /\ s.decidedBy # taken[w] => s.claim = taken[w] /\ lost >= 1
    BY <1>1, <1>9, NullAssumption
       DEF DInv, CreditOK, ClaimWaits, CreditLost, FailingLane, NoLaneAgain, Names, StructureOK, LanesTook
  <2>4. CreditLost'
    BY <1>1, <1>2, <1>3, <1>9, <2>3, NullAssumption, BoundAssumption
       DEF RowIs, DInv, CreditOK, CreditLost, Onward, LoseWrite, IInv, TypeOK
  <2> QED BY <2>2, <2>4
<1> QED BY <1>1, <1>3, <1>5, <1>6, <1>7, <1>8, <1>9, LaneDecides DEF RowIs

LEMMA SettleDecides == ASSUME IInv, IInv', DInv, Onward, NEW w \in Wait, settle(w) PROVE DInv'
<1> DEFINE ok == lane[w] = "settling"
           at == IF ok THEN "done" ELSE "failed"
           answered == ok /\ taken[w] # Timeout
<1>1. /\ \A x \in Wait : lane'[x] = IF x = w THEN at ELSE lane[x]
      /\ engine = "running" /\ lane[w] \in {"settling", "settlingFailed"}
      /\ UNCHANGED <<engine, inbox, taken, workflow, request, resending, failedSends>>
  BY LaneMoves DEF settle, Live, dbos, Others
<1>2. /\ ok => taken[w] # None
      /\ \A x \in Wait :
        /\ FailingLane(x)' => FailingLane(x) \/ workflow # "pending" \/ isTerminal
        /\ lane'[x] \in {"got", "resumed", "settling", "done"} => taken[x] # None
  BY <1>1 DEF FailingLane, DInv, StructureOK, LanesTook
<1>3. CASE LoseWrite /\ UNCHANGED history
  <2>1. RowsSound' /\ WaitsLost'
    BY <1>1, <1>3, BoundAssumption
       DEF DInv, StructureOK, RowsSound, WaitsLost, LoseWrite, IInv, TypeOK, history
  <2>2. failedSends = 0 /\ lost <= 2 /\ DecisionOK => CreditedDecisionWasTaken'
    BY <1>1, <1>3 DEF DecisionOK, CreditedDecisionWasTaken, history
  <2>3. ASSUME failedSends = 0, lost <= 1, lost' <= 1 PROVE ClaimWaits' /\ CreditLost'
    <3>1. lost = 0 /\ lost' = 1
      BY <1>3, <2>3, BoundAssumption DEF LoseWrite, IInv, TypeOK
    <3>2. ClaimWaits'
      BY <1>1, <1>3, <2>3 DEF DInv, CreditOK, ClaimWaits, FailingLane, NoLaneAgain, Names, history
    <3>3. CreditLost'
      BY <1>1, <1>3, <2>3, <3>1 DEF DInv, CreditOK, CreditLost, history
    <3> QED BY <3>2, <3>3
  <2> QED BY <1>1, <1>2, <1>3, <2>1, <2>2, <2>3, LaneDecides DEF history
<1>4. CASE stepResumed(w, answered) /\ UNCHANGED lost
  <2>1. WaitsLost'
    BY <1>1, <1>4, ResumedRowsSound DEF DInv, StructureOK, WaitsLost
  <2>2. ~answered => \A x \in Wait : steps'[x].decidedBy = steps[x].decidedBy
    BY <1>4, ResumedRow DEF RowIs
  <2>3. failedSends = 0 /\ lost <= 2 /\ DecisionOK => CreditedDecisionWasTaken'
    <3>1. CASE ok
      BY <1>1, <1>2, <1>4, <3>1, ResumeCredits
    <3>2. CASE ~ok
      <4>1. run'.reason = run.reason
        BY <1>4, StepResumedOK DEF EndUntouched, isTerminal, IInv, TypeOK
      <4> QED BY <1>1, <2>2, <3>2, <4>1 DEF DecisionOK, CreditedDecisionWasTaken
    <3> QED BY <3>1, <3>2
  <2>4. ASSUME failedSends = 0, lost <= 1, DecisionOK PROVE ClaimWaits' /\ CreditLost'
    <3>1. ok /\ taken[w] \in Decider => steps'[w].decidedBy = taken[w]
      BY <1>1, <1>2, <1>4, <2>4, ResumeCredits DEF FailingLane, IInv, TypeOK
    <3>2. \A x \in Wait, e \in Decider : Names(x, e)' => Names(x, e)
      BY <1>1, <1>4, ResumedRowsSound, NullAssumption DEF Names
    <3>3. \A e \in Decider : ok /\ taken[w] # Timeout /\ Names(w, e) => taken[w] \in Decider /\ e = taken[w]
      <4>1. OneNamed
        BY <2>4 DEF DecisionOK, IInv, TypeOK
      <4>2. ok /\ taken[w] # Timeout => taken[w] \in Decider /\ Names(w, taken[w])
        BY <1>2 DEF DInv, StructureOK, LanesTook, Names, IInv, TypeOK
      <4> QED BY <4>1, <4>2 DEF OneNamed
    <3>4. ASSUME NEW x \in Wait, NEW e \in Decider, Names(x, e)', taken[x] # Timeout
          PROVE  steps'[x].decidedBy = e \/ steps'[x].claim = e \/ NoLaneAgain' \/ FailingLane(x)'
      <4>1. CASE x = w /\ ok
        BY <3>1, <3>2, <3>3, <3>4, <4>1
      <4>2. CASE x = w /\ ~ok
        BY <1>1, <4>2 DEF FailingLane
      <4>3. CASE x # w
        <5>1. steps[x].decidedBy = e \/ steps[x].claim = e \/ FailingLane(x)
          BY <1>1, <2>4, <3>2, <3>4 DEF DInv, CreditOK, ClaimWaits, NoLaneAgain
        <5> QED BY <1>1, <1>4, <4>3, <5>1, ResumedRowsSound DEF FailingLane
      <4> QED BY <4>1, <4>2, <4>3
    <3>5. CreditLost'
      BY <1>1, <1>4, <2>4, <3>1, ResumedRowsSound DEF DInv, CreditOK, CreditLost
    <3> QED BY <1>1, <3>4, <3>5 DEF ClaimWaits
  <2> QED BY <1>1, <1>2, <1>4, <2>1, <2>3, <2>4, ResumedRowsSound, StepResumedOK, LaneDecides
          DEF IInv, TypeOK
<1> QED BY <1>3, <1>4 DEF settle

\* The run's end is its last lane's: all are done, or a cancel has failed one.
LEMMA FinishRunDecides == ASSUME IInv, IInv', DInv, Onward, finishRun PROVE DInv'
<1>1. /\ engine = "running" /\ engine' = "recorded"
      /\ UNCHANGED <<steps, lane, inbox, taken, workflow, request, resending, failedSends>>
      /\ (\A x \in Wait : lane[x] = "done") \/ (\E x \in Wait : lane[x] = "failed")
  BY DEF finishRun, Live, dbos, Others
<1>2. isTerminal' \/ (LoseWrite /\ UNCHANGED run)
  BY DEF finishRun, runUnwoundByCancel, runFinished, limitEnded, isTerminal, IInv, TypeOK
<1>3. StructureOK'
  <2>1. RowsSound' /\ LanesTook' /\ FailingRunIsOver' /\ StrandedIsOver' /\ FailuresCounted'
    BY <1>1 DEF DInv, StructureOK, RowsSound, LanesTook, FailingRunIsOver, FailingLane, StrandedIsOver,
                FailuresCounted, Onward
  <2>2. WaitsLost'
    BY <1>1, BoundAssumption DEF DInv, StructureOK, WaitsLost, Onward, IInv, TypeOK
  <2>3. RecordedLanes'
    <3>1. CASE isTerminal' \/ \E x \in Wait : lane[x] = "failed"
      BY <1>1, <3>1
         DEF RecordedLanes, NoLaneAgain, DInv, StructureOK, FailingRunIsOver, FailingLane, Onward
    <3>2. CASE LoseWrite /\ \A x \in Wait : lane[x] = "done"
      BY <1>1, <3>2 DEF RecordedLanes, DInv, StructureOK, WaitsLost, LoseWrite, IInv, TypeOK
    <3> QED BY <1>1, <1>2, <3>1, <3>2
  <2> QED BY <2>1, <2>2, <2>3 DEF StructureOK
<1>4. \A x \in Wait, e \in Decider : Names(x, e)' => Names(x, e)
  BY <1>1 DEF Names
<1>5. DecisionOK /\ failedSends = 0 /\ lost <= 2 => RequestsTold' /\ CreditedDecisionWasTaken'
  BY <1>1 DEF DecisionOK, RequestsTold, CreditedDecisionWasTaken, DInv, StructureOK, StrandedIsOver
<1>6. failedSends = 0 /\ lost <= 1 /\ lost' <= 1 => ClaimWaits' /\ CreditLost'
  BY <1>1, <1>4, BoundAssumption
     DEF DInv, CreditOK, ClaimWaits, CreditLost, FailingLane, NoLaneAgain, Onward, IInv, TypeOK
<1> QED BY <1>1, <1>3, <1>4, <1>5, <1>6, DecisionsKept
-----------------------------------------------------------------------------
LEMMA InitDInv == Init => DInv
<1> SUFFICES ASSUME Init PROVE DInv
  OBVIOUS
<1>1. \A w \in Wait : ~steps[w].started /\ ~steps[w].waitingOn /\ ~steps[w].resumed /\ ~steps[w].finished
                      /\ steps[w].claim = None /\ steps[w].decidedBy = None
  BY DEF Init
<1>2. \A d \in Decider : request[d].at = "idle"
  BY DEF Init
<1>3. StructureOK
  BY <1>1, <1>2, NullAssumption
     DEF Init, StructureOK, RowsSound, RowSound, LanesTook, FailingRunIsOver, FailingLane, StrandedIsOver,
         WaitsLost, RecordedLanes, FailuresCounted
<1>4. \A w \in Wait, d \in Decider : ~Names(w, d)
  BY <1>1, <1>2, NullAssumption DEF Init, Names
<1>5. OneNamed /\ NamedHolds /\ RequestsTold /\ CreditedDecisionWasTaken
  BY <1>1, <1>2, <1>4 DEF OneNamed, NamedHolds, RequestsTold, CreditedDecisionWasTaken
<1>6. ClaimWaits /\ CreditLost
  BY <1>4, NullAssumption DEF Init, ClaimWaits, CreditLost
<1> QED BY <1>3, <1>5, <1>6 DEF DInv, DecisionOK, CreditOK

LEMMA NextDecides == ASSUME IInv, IInv', DInv, [Next]_vars PROVE DInv'
<1>1. Onward
  BY NextOnward
<1>2. ASSUME NEW w \in Wait, Lane(w) PROVE DInv'
  BY <1>1, <1>2, BeginDecides, ParkDecides, ReceiveDecides, InterruptDecides, ResumeDecides,
     StepFinishedDecides, SettleDecides DEF Lane
<1>3. ASSUME finishRun \/ clearWaits \/ recordEnd \/ recover PROVE DInv'
  BY <1>1, <1>3, FinishRunDecides, ClearWaitsDecides, RecordEndDecides
<1>4. ASSUME NEW d \in Decider, NEW w \in Wait, ask(d, w) PROVE DInv'
  BY <1>1, <1>4, AskDecides
<1>5. ASSUME NEW d \in Decider, takeWaits(d) \/ deliver(d) \/ sendFails(d) \/ unclaimWaits(d) PROVE DInv'
  BY <1>1, <1>5, TakeWaitsDecides, DeliverDecides, SendFailsDecides, UnclaimDecides
<1>6. ASSUME resendClaims PROVE DInv'
  BY <1>1, <1>6, ResendClaimsDecides
<1>7. ASSUME NEW copy \in resending, resend(copy) PROVE DInv'
  BY <1>1, <1>7, ResendDecides
<1>8. ASSUME NEW end \in {"cancelled", "limit"}, cancelWorkflow(end) PROVE DInv'
  BY <1>1, <1>8, CancelDecides
<1>9. ASSUME endRun PROVE DInv'
  BY <1>1, <1>9, EndRunDecides
<1>10. ASSUME reapCrashedRun \/ reapLapsedRun \/ reapStrandedRun \/ reapOrphanSteps \/ reapOldClaims
       PROVE  DInv'
  BY <1>1, <1>10, ReapCrashedDecides, ReapLapsedDecides, ReapStrandedDecides, ReapOrphansDecides,
     ReapClaimsDecides
<1>11. ASSUME NEW w \in Wait, pass(w) PROVE DInv'
  BY <1>1, <1>11, PassDecides
<1>12. ASSUME crash \/ restart \/ UNCHANGED vars PROVE DInv'
  BY <1>1, <1>12, CrashDecides
<1> QED
  BY <1>2, <1>3, <1>4, <1>5, <1>6, <1>7, <1>8, <1>9, <1>10, <1>11, <1>12 DEF Next

(* The invariant the two theorems below are read off from.                 *)
THEOREM DecisionsHold == Spec => []DInv
<1>1. Init => DInv
  BY InitDInv
<1>2. IInv /\ IInv' /\ DInv /\ [Next]_vars => DInv'
  BY NextDecides
<1> QED BY <1>1, <1>2, InvariantHolds, PTL DEF Spec

(* While every send arrives and at most two history writes are lost, the   *)
(* decision a run takes is the one its step credits, and nobody else's     *)
(* request is accepted: for any number of requests, resends and crashes.   *)
THEOREM DecisionsAreOne == Spec => []OneDecisionPerWait
<1>1. IInv /\ DInv => OneDecisionPerWait
  <2> SUFFICES ASSUME IInv, DInv, failedSends = 0, lost <= 2
               PROVE  /\ CreditedDecisionWasTaken
                      /\ \A d \in Decider, w \in Wait :
                           request[d].at = "accepted" /\ request[d].wait = w =>
                             taken[w] \in {d, None, Timeout}
    BY DEF OneDecisionPerWait
  <2>1. RequestsTold /\ CreditedDecisionWasTaken
    BY DEF DInv, DecisionOK
  <2> QED BY <2>1 DEF RequestsTold, DInv, StructureOK, LanesTook, IInv, TypeOK
<1> QED BY <1>1, InvariantHolds, DecisionsHold, PTL

(* A decision the run took is credited once its lane is over, for any      *)
(* number of waits and crashes, though one history write was lost.         *)
THEOREM TakenDecisionsAreCredited == Spec => []TakenDecisionIsCredited
<1>1. IInv /\ DInv => TakenDecisionIsCredited
  <2> SUFFICES ASSUME IInv, DInv, failedSends = 0, lost <= 1,
                      NEW w \in Wait, lane[w] = "done", taken[w] \in Decider
               PROVE  steps[w].decidedBy = taken[w]
    BY DEF TakenDecisionIsCredited
  <2> QED BY DEF DInv, CreditOK, CreditLost, IInv, TypeOK
<1> QED BY <1>1, InvariantHolds, DecisionsHold, PTL
=============================================================================
