------------------------------- MODULE RunWaits -------------------------------
(***************************************************************************)
(* ONE durable run that parks on approvals, and everyone who may end its   *)
(* waits: the run itself (a DBOS workflow that a restart replays), the     *)
(* people who decide, the resender of decisions that did not arrive, a     *)
(* cancel, a limit's stop, and the reaper (runs.service.ts, run-waits.ts,  *)
(* run-recorder.service.ts, run-reaper.service.ts, claim-resender.ts,      *)
(* dbos-durable-step.ts).                                                  *)
(*                                                                         *)
(* Two stores survive a crash and nothing makes them agree: the run's      *)
(* history (its row and its steps' rows) and what DBOS recorded (messages, *)
(* what each wait received, whether the workflow has ended).  A step of a  *)
(* lane, a request or a pass is an action per database or DBOS call it     *)
(* awaits.  A history write that fails is logged and skipped.              *)
(***************************************************************************)
EXTENDS Naturals, FiniteSets

CONSTANTS
  Wait,            \* the run's wait-for-event steps, each a lane of its own
  Decider,         \* requests to decide a wait, each by someone else
  None,            \* SQL null, and no message
  Timeout,         \* what a wait receives when nobody decided it in time
  MaxCrashes,      \* bound: how often the process dies
  MaxLost,         \* bound: how many history writes fail
  MaxFailedSends   \* bound: how many sends to DBOS fail

ASSUME NullAssumption == None \notin Decider /\ Timeout \notin Decider /\ None # Timeout
ASSUME BoundAssumption == {MaxCrashes, MaxLost, MaxFailedSends} \subseteq Nat

VARIABLES
  run,        \* the run's row
  steps,      \* the rows of its waits
  due,        \* how near each wait's deadline is
  inbox,      \* DBOS: the decision sent under each wait's idempotency key
  taken,      \* DBOS: what each wait's receive recorded
  workflow,   \* DBOS: whether the workflow will be taken on to its end
  engine,     \* the process, and how far it is with the workflow
  lane,       \* per wait, where its lane is
  ending,     \* the end being recorded by whoever holds the run's lock
  request,    \* per decider, its request
  resending,  \* claimed decisions read to be sent again, and not yet sent
  crashes, lost, failedSends

history == <<run, steps>>
dbos == <<inbox, taken, workflow>>
faults == <<crashes, lost, failedSends>>
vars == <<run, steps, due, inbox, taken, workflow, engine, lane, ending, request, resending,
          crashes, lost, failedSends>>

RunRow == [status: {"running", "waiting", "completed", "error", "cancelled"},
           reason: {"none", "failed", "limit", "crashed", "lapsed", "stranded"}]
StepRow == [started: BOOLEAN, waitingOn: BOOLEAN, resumed: BOOLEAN, finished: BOOLEAN,
            claim: Decider \cup {None}, decidedBy: Decider \cup {None}]
Request == [at: {"idle", "asked", "sending", "failed", "accepted", "refused", "gone"},
            wait: Wait \cup {None}, stopped: BOOLEAN]

isTerminal == run.status \in {"completed", "error", "cancelled"}
limitEnded == run.reason = "limit"
IsParked(row) == row.waitingOn /\ ~row.finished
Parked == {w \in Wait : IsParked(steps[w])}
Claimed == {w \in Parked : steps[w].claim # None}

\* Every change to a run's waits holds the run's row lock.
Unlocked == ending = None
Up == engine # "down"
canResume == workflow = "pending"
stillInTime(w) == due[w] = "open"

\* A history write fails, and the code goes on without it.
LoseWrite == lost < MaxLost /\ lost' = lost + 1

-----------------------------------------------------------------------------
(* The history writes.                                                     *)

\* Mutant: a wait someone has claimed no longer keeps its run waiting.
deriveUndecidedWait(row, rows) ==
  IF row.status \in {"running", "waiting"}
  THEN [row EXCEPT !.status = IF \E w \in Wait : IsParked(rows[w]) /\ rows[w].claim = None
                              THEN "waiting" ELSE "running"]
  ELSE row

deriveRunWait(row, rows) ==
  IF row.status \in {"running", "waiting"}
  THEN [row EXCEPT !.status = IF \E w \in Wait : IsParked(rows[w]) THEN "waiting" ELSE "running"]
  ELSE row

clearWait(row) == [row EXCEPT !.waitingOn = FALSE, !.claim = None]
endWait(row) == [row EXCEPT !.waitingOn = FALSE]

WriteWaits(rows) == steps' = rows /\ run' = deriveRunWait(run, rows)

stepStarted(w) == steps' = [steps EXCEPT ![w].started = TRUE]

stepWaiting(w) ==
  LET row == steps[w]
  IN  WriteWaits([steps EXCEPT ![w].waitingOn =
                    @ \/ (row.started /\ ~row.finished /\ ~row.resumed)])

\* An answered wait credits the claim it holds, if it still holds one.
stepResumed(w, answered) ==
  LET row == steps[w]
      credit == IF answered /\ row.claim # None THEN row.claim ELSE row.decidedBy
  IN  WriteWaits([steps EXCEPT ![w] =
        IF row.started THEN [clearWait(row) EXCEPT !.resumed = TRUE, !.decidedBy = credit] ELSE row])

\* Mutant: only a cancel is kept, not the end a limit recorded.
runFinishedUnlessCancelled(status, reason) ==
  run' = IF run.status = "cancelled" THEN run ELSE [status |-> status, reason |-> reason]

runFinished(status, reason) ==
  run' = IF run.status = "cancelled" \/ limitEnded THEN run
         ELSE [status |-> status, reason |-> reason]

runUnwoundByCancel ==
  run' = IF run.status = "completed" \/ limitEnded THEN run
         ELSE [status |-> "cancelled", reason |-> "none"]

clearStepWaits ==
  steps' = [w \in Wait |-> IF steps[w].waitingOn THEN clearWait(steps[w]) ELSE steps[w]]

-----------------------------------------------------------------------------
Init ==
  /\ run = [status |-> "running", reason |-> "none"]
  /\ steps = [w \in Wait |-> [started |-> FALSE, waitingOn |-> FALSE, resumed |-> FALSE,
                              finished |-> FALSE, claim |-> None, decidedBy |-> None]]
  /\ due = [w \in Wait |-> "open"]
  /\ inbox = [w \in Wait |-> None]
  /\ taken = [w \in Wait |-> None]
  /\ workflow = "pending"
  /\ engine = "running"
  /\ lane = [w \in Wait |-> "idle"]
  /\ ending = None
  /\ request = [d \in Decider |-> [at |-> "idle", wait |-> None, stopped |-> FALSE]]
  /\ resending = {}
  /\ crashes = 0 /\ lost = 0 /\ failedSends = 0

-----------------------------------------------------------------------------
(* A lane: it records its step, passes the row gate, arms its receive,     *)
(* parks, takes what the receive brings, and records that it resumed and   *)
(* finished.  A replay does all of it again, the receive bringing what it  *)
(* brought before.                                                         *)

Live == engine = "running"
Go(w, at) == lane' = [lane EXCEPT ![w] = at]
Others == <<due, ending, request, resending, crashes, failedSends>>

begin(w) ==
  /\ Live /\ lane[w] = "idle"
  /\ ~\E x \in Wait : lane[x] \in {"failing", "failed"}
  /\ \/ stepStarted(w) /\ UNCHANGED lost
     \/ LoseWrite /\ UNCHANGED steps
  /\ Go(w, IF run.status = "cancelled" THEN "failing" ELSE "gated")
  /\ UNCHANGED <<run, dbos, engine, Others>>

park(w) ==
  /\ Live /\ lane[w] = "gated" /\ Unlocked
  /\ \/ stepWaiting(w) /\ UNCHANGED lost
     \/ LoseWrite /\ UNCHANGED history
  /\ Go(w, "parked")
  /\ UNCHANGED <<dbos, engine, Others>>

receive(w) ==
  /\ Live /\ lane[w] = "parked"
  /\ \/ /\ taken[w] # None
        /\ UNCHANGED taken
     \/ /\ taken[w] = None /\ canResume
        /\ \/ inbox[w] # None /\ taken' = [taken EXCEPT ![w] = inbox[w]]
           \/ inbox[w] = None /\ due[w] = "past" /\ taken' = [taken EXCEPT ![w] = Timeout]
  /\ Go(w, "got")
  /\ UNCHANGED <<history, inbox, workflow, engine, lost, Others>>

\* DBOS raises a cancel at the lane's next call, or from the receive it waits in.
interrupt(w) ==
  /\ Live /\ lane[w] \in {"gated", "parked"}
  /\ workflow = "cancelled"
  /\ Go(w, "failing")
  /\ UNCHANGED <<history, dbos, engine, lost, Others>>

resume(w) ==
  /\ Live /\ lane[w] = "got" /\ Unlocked
  /\ \/ stepResumed(w, taken[w] # Timeout) /\ UNCHANGED lost
     \/ LoseWrite /\ UNCHANGED history
  /\ Go(w, "resumed")
  /\ UNCHANGED <<dbos, engine, Others>>

(* stepFinished, of a wait that resumed or failed; one that finds the wait *)
(* or a claim still set lost its resume write, and records it next.        *)
\* Mutant: only the wait tells of a lost resume write, not a claim that a cancel left.
SettlingWait(row) == row.waitingOn

Settling(row) == row.waitingOn \/ row.claim # None

stepFinished(w) ==
  /\ Live /\ lane[w] \in {"resumed", "failing"}
  /\ LET ok == lane[w] = "resumed"
         end == IF ok THEN "done" ELSE "failed"
     IN  \/ /\ steps' = [steps EXCEPT ![w].finished = steps[w].started]
            /\ Go(w, IF ~Settling(steps[w]) THEN end ELSE IF ok THEN "settling" ELSE "settlingFailed")
            /\ UNCHANGED lost
         \/ LoseWrite /\ Go(w, end) /\ UNCHANGED steps
  /\ UNCHANGED <<run, dbos, engine, Others>>

settle(w) ==
  /\ Live /\ lane[w] \in {"settling", "settlingFailed"} /\ Unlocked
  /\ LET ok == lane[w] = "settling"
     IN  /\ \/ stepResumed(w, ok /\ taken[w] # Timeout) /\ UNCHANGED lost
            \/ LoseWrite /\ UNCHANGED history
         /\ Go(w, IF ok THEN "done" ELSE "failed")
  /\ UNCHANGED <<dbos, engine, Others>>

(* The interpreter's end: the run's row, then the waits left on its steps, *)
(* then DBOS's own record.  A run may also fail on a step that is no wait. *)
finishRun ==
  /\ Live /\ Unlocked
  /\ \/ \A w \in Wait : lane[w] = "done"
     \/ /\ \E w \in Wait : lane[w] = "failed"
        /\ \A w \in Wait : lane[w] \in {"idle", "done", "failed"}
  /\ \/ /\ UNCHANGED lost
        /\ IF \E w \in Wait : lane[w] = "failed" THEN runUnwoundByCancel
           ELSE runFinished("completed", "none") \/ runFinished("error", "failed")
     \/ LoseWrite /\ UNCHANGED run
  /\ engine' = "recorded"
  /\ UNCHANGED <<steps, dbos, lane, Others>>

clearWaits ==
  /\ engine = "recorded"
  /\ \/ clearStepWaits /\ UNCHANGED lost
     \/ LoseWrite /\ UNCHANGED steps
  /\ engine' = "cleared"
  /\ UNCHANGED <<run, dbos, lane, Others>>

EndWorkflow == workflow' = IF workflow = "pending" THEN "ended" ELSE workflow

recordEnd ==
  /\ engine = "cleared"
  /\ EndWorkflow
  /\ engine' = "over"
  /\ UNCHANGED <<history, inbox, taken, lane, lost, Others>>

\* Recovery re-enters a pending workflow, past the gate that a run already ended stops at.
recover ==
  /\ engine = "recovering"
  /\ IF canResume /\ ~isTerminal
     THEN engine' = "running" /\ UNCHANGED workflow
     ELSE engine' = "over" /\ EndWorkflow
  /\ UNCHANGED <<history, inbox, taken, lane, lost, Others>>

-----------------------------------------------------------------------------
(* A decision: whether anything will resume the run is asked of DBOS       *)
(* first; the wait is claimed under the run's lock; the decision is then   *)
(* sent, under a key that is the same for every send of that wait, and the *)
(* claim is given up if the send fails.                                    *)

At(d, at) == request' = [request EXCEPT ![d].at = at]

ask(d, w) ==
  /\ Up /\ request[d].at = "idle"
  /\ request' = [request EXCEPT ![d] =
       [at |-> "asked", wait |-> w, stopped |-> run.status = "waiting" /\ ~canResume]]
  /\ UNCHANGED <<history, due, dbos, engine, lane, ending, resending, faults>>

Refused(d) == request[d].stopped /\ run.status = "waiting"
\* Mutant: a wait is taken though it is claimed.
TakesAnyParked(w) == run.status = "waiting" /\ w \in Parked /\ stillInTime(w)

Takes(w) == run.status = "waiting" /\ w \in Parked \ Claimed /\ stillInTime(w)
\* Refused as already decided, which sends that decision again.
Decided(w) == run.status = "waiting" /\ w \in Claimed /\ stillInTime(w)

takeWaits(d) ==
  LET w == request[d].wait
  IN  /\ Up /\ request[d].at = "asked" /\ Unlocked
      /\ \/ /\ ~Refused(d) /\ Takes(w)
            /\ steps' = [steps EXCEPT ![w].claim = d]
            /\ At(d, "sending")
            /\ UNCHANGED resending
         \/ /\ Refused(d) \/ ~Takes(w)
            /\ At(d, "refused")
            /\ resending' = resending \cup
                 (IF ~Refused(d) /\ Decided(w) THEN {<<w, steps[w].claim>>} ELSE {})
            /\ UNCHANGED steps
  /\ UNCHANGED <<run, due, dbos, engine, lane, ending, faults>>

\* A message whose key has been used is dropped.
sendEvent(w, d) == inbox' = [inbox EXCEPT ![w] = IF @ = None THEN d ELSE @]

deliver(d) ==
  /\ Up /\ request[d].at = "sending"
  /\ sendEvent(request[d].wait, d)
  /\ At(d, "accepted")
  /\ UNCHANGED <<history, due, taken, workflow, engine, lane, ending, resending, faults>>

sendFails(d) ==
  /\ Up /\ request[d].at = "sending"
  /\ failedSends < MaxFailedSends
  /\ failedSends' = failedSends + 1
  /\ At(d, "failed")
  /\ UNCHANGED <<history, due, dbos, engine, lane, ending, resending, crashes, lost>>

unclaimWaits(d) ==
  LET w == request[d].wait
  IN  /\ Up /\ request[d].at = "failed" /\ Unlocked
      /\ steps' = [steps EXCEPT ![w].claim = IF @ = d THEN None ELSE @]
      /\ At(d, "refused")
  /\ UNCHANGED <<run, due, dbos, engine, lane, ending, resending, faults>>

\* The resender, at boot and on its timer, reads every claim its run has not taken.
resendClaims ==
  /\ Up
  /\ resending' = resending \cup {<<w, steps[w].claim>> : w \in {x \in Claimed : stillInTime(x)}}
  /\ UNCHANGED <<history, due, dbos, engine, lane, ending, request, faults>>

resend(copy) ==
  /\ Up /\ copy \in resending
  /\ resending' = resending \ {copy}
  /\ \/ sendEvent(copy[1], copy[2]) /\ UNCHANGED failedSends
     \/ failedSends < MaxFailedSends /\ failedSends' = failedSends + 1 /\ UNCHANGED inbox
  /\ UNCHANGED <<history, due, taken, workflow, engine, lane, ending, request, crashes, lost>>

-----------------------------------------------------------------------------
(* A cancel or a limit's stop, under the run's lock: DBOS is told, then    *)
(* the row is written and the waits end.  A claim stays for the resume of  *)
(* a lane that has already taken it.                                       *)

cancelWorkflow(end) ==
  /\ Up /\ Unlocked /\ ~isTerminal
  /\ end = "limit" => canResume
  /\ workflow' = IF workflow = "pending" THEN "cancelled" ELSE workflow
  /\ ending' = end
  /\ UNCHANGED <<history, due, inbox, taken, engine, lane, request, resending, faults>>

endRun ==
  /\ Up /\ ~Unlocked
  /\ \/ /\ run' = IF ending = "limit" THEN [status |-> "error", reason |-> "limit"]
                  ELSE [status |-> "cancelled", reason |-> "none"]
        /\ steps' = [w \in Wait |-> endWait(steps[w])]
        /\ UNCHANGED lost
     \/ LoseWrite /\ UNCHANGED history
  /\ ending' = None
  /\ UNCHANGED <<due, dbos, engine, lane, request, resending, crashes, failedSends>>

-----------------------------------------------------------------------------
(* The reaper's passes.  Each checks the run again under its lock.  How    *)
(* long a run or a claim must have stood is left open, save where the pass *)
(* waits a whole RUN_MAX_DURATION on a lane: by then no lane is live.      *)

Reap == Up /\ Unlocked /\ UNCHANGED <<due, dbos, engine, lane, ending, request, resending, faults>>

NoLaneLive == engine \notin {"running", "recorded", "cleared"}

EndInError(reason) == run' = [status |-> "error", reason |-> reason]

endParkedSteps(credited) ==
  steps' = [w \in Wait |->
    IF w \notin Parked THEN steps[w]
    ELSE [clearWait(steps[w]) EXCEPT !.finished = TRUE,
            !.decidedBy = IF w \in credited THEN steps[w].claim ELSE None]]

\* Mutant: a run that waits on nothing is never found.
reapCrashedRunning ==
  /\ Reap
  /\ run.status = "running"
  /\ ~canResume
  /\ EndInError("crashed")
  /\ UNCHANGED steps

reapCrashedRun ==
  /\ Reap
  /\ run.status = "running" \/ (run.status = "waiting" /\ Parked = {})
  /\ ~canResume
  /\ EndInError("crashed")
  /\ UNCHANGED steps

reapLapsedRun ==
  /\ Reap
  /\ run.status = "waiting"
  /\ Claimed = {}
  /\ \E w \in Parked : due[w] = "past"
  /\ endParkedSteps({})
  /\ EndInError("lapsed")

reapStrandedRun ==
  /\ Reap
  /\ run.status = "waiting"
  /\ \E w \in Claimed : due[w] = "past"
  /\ ~canResume /\ NoLaneLive
  /\ endParkedSteps(Claimed)
  /\ EndInError("stranded")

\* Steps of a run that has ended, then claims a cancel left on it for a resume that never came.
reapOrphanSteps ==
  /\ Reap
  /\ isTerminal
  /\ steps' = [w \in Wait |-> [steps[w] EXCEPT !.finished = @ \/ steps[w].started]]
  /\ UNCHANGED run

\* Mutant: only an errored run's claims are found.
reapErroredClaims ==
  /\ Reap
  /\ run.status = "error" /\ NoLaneLive
  /\ steps' = [w \in Wait |-> [steps[w] EXCEPT !.claim = None]]
  /\ UNCHANGED run

reapOldClaims ==
  /\ Reap
  /\ isTerminal /\ NoLaneLive
  /\ steps' = [w \in Wait |-> [steps[w] EXCEPT !.claim = None]]
  /\ UNCHANGED run

-----------------------------------------------------------------------------
(* The environment: clocks, and the process dying and coming back.         *)

pass(w) ==
  /\ steps[w].started \/ lane[w] # "idle"
  /\ due[w] # "past"
  /\ due' = [due EXCEPT ![w] = IF @ = "open" THEN "margin" ELSE "past"]
  /\ UNCHANGED <<history, dbos, engine, lane, ending, request, resending, faults>>

InFlight(d) == request[d].at \in {"asked", "sending", "failed"}

crash ==
  /\ Up /\ crashes < MaxCrashes
  /\ crashes' = crashes + 1
  /\ engine' = "down"
  /\ lane' = [w \in Wait |-> "idle"]
  /\ ending' = None
  /\ request' = [d \in Decider |-> IF InFlight(d) THEN [request[d] EXCEPT !.at = "gone"] ELSE request[d]]
  /\ resending' = {}
  /\ UNCHANGED <<history, due, dbos, lost, failedSends>>

restart ==
  /\ engine = "down"
  /\ engine' = "recovering"
  /\ UNCHANGED <<history, due, dbos, lane, ending, request, resending, faults>>

-----------------------------------------------------------------------------
Lane(w) ==
  begin(w) \/ park(w) \/ receive(w) \/ interrupt(w) \/ resume(w) \/ stepFinished(w) \/ settle(w)

Next ==
  \/ \E w \in Wait : Lane(w)
  \/ finishRun \/ clearWaits \/ recordEnd \/ recover
  \/ \E d \in Decider, w \in Wait : ask(d, w)
  \/ \E d \in Decider : takeWaits(d) \/ deliver(d) \/ sendFails(d) \/ unclaimWaits(d)
  \/ resendClaims
  \/ \E copy \in resending : resend(copy)
  \/ \E end \in {"cancelled", "limit"} : cancelWorkflow(end)
  \/ endRun
  \/ reapCrashedRun \/ reapLapsedRun \/ reapStrandedRun \/ reapOrphanSteps \/ reapOldClaims
  \/ \E w \in Wait : pass(w)
  \/ crash \/ restart

Spec == Init /\ [][Next]_vars

(* What the code's scheduling justifies: a process that is up takes each    *)
(* lane, request and pass on, one that died is started again, and clocks    *)
(* go on.  Nobody must decide, cancel, or fail.                             *)
Fairness ==
  /\ \A w \in Wait : WF_vars(Lane(w)) /\ WF_vars(pass(w))
  /\ WF_vars(finishRun) /\ WF_vars(clearWaits) /\ WF_vars(recordEnd)
  /\ WF_vars(recover) /\ WF_vars(restart)
  /\ \A d \in Decider :
       WF_vars(takeWaits(d)) /\ WF_vars(deliver(d) \/ sendFails(d)) /\ WF_vars(unclaimWaits(d))
  /\ WF_vars(resendClaims) /\ WF_vars(\E copy \in resending : resend(copy))
  /\ WF_vars(endRun)
  /\ WF_vars(reapCrashedRun) /\ WF_vars(reapLapsedRun) /\ WF_vars(reapStrandedRun)
  /\ WF_vars(reapOldClaims)

FairSpec == Spec /\ Fairness

-----------------------------------------------------------------------------
(* Properties.                                                             *)

(* Types.                                                                  *)
TypeOK ==
  /\ run \in RunRow
  /\ run.reason # "none" => run.status = "error"
  /\ steps \in [Wait -> StepRow]
  /\ due \in [Wait -> {"open", "margin", "past"}]
  /\ inbox \in [Wait -> Decider \cup {None}]
  /\ taken \in [Wait -> Decider \cup {None, Timeout}]
  /\ workflow \in {"pending", "ended", "cancelled"}
  /\ engine \in {"down", "recovering", "running", "recorded", "cleared", "over"}
  /\ lane \in [Wait -> {"idle", "gated", "parked", "got", "resumed", "settling", "done",
                        "failing", "settlingFailed", "failed"}]
  /\ ending \in {"cancelled", "limit", None}
  /\ request \in [Decider -> Request]
  /\ resending \subseteq Wait \X Decider
  /\ crashes \in 0..MaxCrashes /\ lost \in 0..MaxLost /\ failedSends \in 0..MaxFailedSends

(* A run with a wait still parked reads `waiting`, whatever was lost,      *)
(* replayed or reaped: it is in the inbox, and its park is no crash.       *)
ParkedRunWaits ==
  Parked # {} => run.status = "waiting" \/ isTerminal

(* Whoever a wait's step credits made the decision the run took there; a   *)
(* run that could not resume to take it says so (reapStrandedRun).         *)
CreditedDecisionWasTaken ==
  \A w \in Wait : steps[w].decidedBy # None =>
    \/ taken[w] = steps[w].decidedBy
    \/ run.reason = "stranded" /\ taken[w] \in {None, Timeout}

(* While every send arrives, a wait is never handed to someone else: the   *)
(* decision the run takes is the one claimed, and whoever else asks is     *)
(* refused (RESEND_AFTER_SECONDS).  Three history writes lost in one run,  *)
(* both of the wait's end and the run's, may still park it again.          *)
OneDecisionPerWait ==
  failedSends = 0 /\ lost <= 2 =>
    /\ CreditedDecisionWasTaken
    /\ \A d \in Decider, w \in Wait :
         request[d].at = "accepted" /\ request[d].wait = w => taken[w] \in {d, None, Timeout}

(* A decision the run took is credited once its lane is over, though one   *)
(* history write failed, a cancel came between, or the process died.       *)
TakenDecisionIsCredited ==
  failedSends = 0 /\ lost <= 1 =>
    \A w \in Wait : lane[w] = "done" /\ taken[w] \in Decider => steps[w].decidedBy = taken[w]

(* A cancelled run, a run a limit ended and a completed run stay as they   *)
(* ended, whatever its lanes, a replay or a pass do afterwards.            *)
EndIsFinal ==
  [][run.status \in {"cancelled", "completed"} \/ limitEnded => run' = run]_vars

(* A run the reaper ended is over: nothing resumes it and ends it again.   *)
ReapedRunStaysEnded ==
  [][run.reason \in {"crashed", "lapsed", "stranded"} => run' = run]_vars

(* Every run ends: each wait is decided, times out, or is reaped.          *)
RunEnds == <>isTerminal

(* No decision hangs: every claim is taken, dropped or given up.           *)
ClaimsAreSettled == \A w \in Wait : steps[w].claim # None ~> steps[w].claim = None
=============================================================================
