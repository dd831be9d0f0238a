----------------------------- MODULE RunAdmission -----------------------------
(***************************************************************************)
(* How a run is admitted to one workspace and started on DBOS              *)
(* (runs.service.ts admitNow and startAdmitted, run-recorder.service.ts    *)
(* runsAdmitted).  A caller, say a delivery being sent again, comes with   *)
(* the id of a run.  One transaction records the run and, under the        *)
(* workspace's lock, counts it against the cap; then the workflow is saved *)
(* to DBOS, outside any transaction.  A process may die between the two, a *)
(* save may fail, and another caller may come with the same id meanwhile:  *)
(* the id is then armed again, or refused, under the lock of its row.      *)
(*                                                                         *)
(* A run that waits counts as running here.  One kind of workflow and one  *)
(* environment, no dry runs, and runs admitted one at a time.              *)
(***************************************************************************)
EXTENDS Naturals, FiniteSets

CONSTANTS
  Run,          \* the ids of the workspace's runs
  Caller,       \* requests and deliveries, each sent again at will
  Cap,          \* the most runs of the workspace that may be unfinished
  MaxFaults,    \* bound: crashes, saves that fail, and refusals that cannot be recorded
  None

ASSUME RunsAreFinite == IsFiniteSet(Run)
ASSUME CapAssumption == Cap \in Nat
ASSUME FaultAssumption == MaxFaults \in Nat
ASSUME NoneAssumption == None \notin Run

VARIABLES
  row,        \* per run, its row in runtime_runs
  stepped,    \* the runs with a step in runtime_run_steps
  workflow,   \* per run, the workflow DBOS holds for it
  caller,     \* per caller, where its admission is
  admitted,   \* the runs some caller was told are admitted
  condemned,  \* the run a pass of the reaper is about to end
  faults

vars == <<row, stepped, workflow, caller, admitted, condemned, faults>>

(* "refused" is an error with the refusal's prefix and no plan, "reaped" an *)
(* error a pass of the reaper wrote.  old: it is from before this process,  *)
(* or beyond the longest a run may take.  rearmed: its present going was    *)
(* never counted, a history variable.                                       *)
Row == [status : {"none", "running", "completed", "cancelled", "refused", "reaped"},
        old : BOOLEAN, rearmed : BOOLEAN]

Workflow == {"none", "saved", "entered", "finished", "ended", "barred"}
Call == [at : {"idle", "inserted", "counting", "counted", "starting", "found", "asked", "saving",
               "failed", "refusing"},
         run : Run \cup {None}, armed : BOOLEAN]   \* armed: it set the clock of the run's row

Idle == [at |-> "idle", run |-> None, armed |-> FALSE]

Unfinished == {r \in Run : row[r].status = "running"}
Pending(r) == workflow[r] \in {"saved", "entered", "finished"}   \* DBOS will take it on
holdsWorkflow(r) == workflow[r] # "none"

(* What a transaction has locked: an insert its row and, from its count to *)
(* its commit, the workspace; a re-arm and a refusal the row.              *)
LocksRow(c, r) ==
  /\ caller[c].run = r
  /\ caller[c].at \in {"inserted", "counting", "counted", "asked", "refusing"}
RowFree(r) == \A c \in Caller : ~LocksRow(c, r)
WorkspaceFree == \A c \in Caller : caller[c].at \notin {"counting", "counted"}

Go(c, at) == caller' = [caller EXCEPT ![c].at = at]
Answered(c) == caller' = [caller EXCEPT ![c] = Idle]
Admit(c) == Answered(c) /\ admitted' = admitted \cup {caller[c].run}
WriteRow(r, status) == row' = [row EXCEPT ![r].status = status]

Init ==
  /\ row = [r \in Run |-> [status |-> "none", old |-> FALSE, rearmed |-> FALSE]]
  /\ stepped = {}
  /\ workflow = [r \in Run |-> "none"]
  /\ caller = [c \in Caller |-> Idle]
  /\ admitted = {}
  /\ condemned = None
  /\ faults = 0

-----------------------------------------------------------------------------
(* runsAdmitted: the insert takes an id no run holds, or only a refusal,   *)
(* and leaves any other run as it was.  Rows other transactions have not   *)
(* committed are not counted, which is why the count waits for the lock.   *)

takesId(r) == row[r].status = "none" \/ (row[r].status = "refused" /\ r \notin stepped)

insertRun(c, r) ==
  /\ caller[c].at = "idle"
  /\ RowFree(r)
  /\ caller' = [caller EXCEPT ![c] = IF takesId(r)
                  THEN [at |-> "inserted", run |-> r, armed |-> TRUE]
                  ELSE [at |-> "starting", run |-> r, armed |-> FALSE]]
  /\ UNCHANGED <<row, stepped, workflow, admitted, condemned, faults>>

countUnlocked(c) ==
  /\ caller[c].at = "inserted"
  /\ Go(c, "counting")
  /\ UNCHANGED <<row, stepped, workflow, admitted, condemned, faults>>

lockWorkspace(c) == WorkspaceFree /\ countUnlocked(c)

hasRoom(r) == Cardinality(Unfinished \cup {r}) <= Cap

assertWorkspaceRoom(c) ==
  /\ caller[c].at = "counting"
  /\ IF hasRoom(caller[c].run) THEN Go(c, "counted") ELSE Answered(c)   \* 429, rolled back
  /\ UNCHANGED <<row, stepped, workflow, admitted, condemned, faults>>

commitAdmission(c) ==
  /\ caller[c].at = "counted"
  /\ Go(c, "starting")
  /\ row' = [row EXCEPT ![caller[c].run] = [status |-> "running", old |-> FALSE, rearmed |-> FALSE]]
  /\ UNCHANGED <<stepped, workflow, admitted, condemned, faults>>

-----------------------------------------------------------------------------
(* startAdmitted.  A run cancelled meanwhile is settled as cancelled, one  *)
(* just recorded is started.  An id that held a run is looked at again     *)
(* under the lock of its row: unless DBOS holds it, one that took no step  *)
(* is armed again before it is started.                                    *)

startAdmitted(c) ==
  LET status == row[caller[c].run].status IN
  /\ caller[c].at = "starting"
  /\ \/ status = "cancelled" /\ Admit(c)
     \/ status # "cancelled" /\ Go(c, IF caller[c].armed THEN "saving" ELSE "found") /\ UNCHANGED admitted
  /\ UNCHANGED <<row, stepped, workflow, condemned, faults>>

rearmIfNeverStarted(c) ==
  LET r == caller[c].run IN
  /\ caller[c].at = "found"
  /\ RowFree(r)
  /\ Go(c, IF holdsWorkflow(r) \/ row[r].status = "cancelled" THEN "saving" ELSE "asked")
  /\ UNCHANGED <<row, stepped, workflow, admitted, condemned, faults>>

neverStarted(r) == row[r].status \in {"running", "refused", "reaped"} /\ r \notin stepped

\* Mutant: the clock goes on from the first attempt.
RearmedKeepingClock(run) ==
  [status |-> "running", old |-> run.old, rearmed |-> run.rearmed \/ run.status # "running"]

\* The same going, if it was counted: its clock starts again.
Rearmed(run) ==
  [status |-> "running", old |-> FALSE, rearmed |-> run.rearmed \/ run.status # "running"]

\* On what DBOS said a moment before, with the row locked since.
rearmUnstarted(c) ==
  LET r == caller[c].run IN
  /\ caller[c].at = "asked"
  /\ \/ /\ neverStarted(r)
        /\ row' = [row EXCEPT ![r] = Rearmed(@)]
        /\ caller' = [caller EXCEPT ![c].at = "saving", ![c].armed = TRUE]
        /\ UNCHANGED admitted
     \/ ~neverStarted(r) /\ Admit(c) /\ UNCHANGED row   \* run_exists: it was admitted before
  /\ UNCHANGED <<stepped, workflow, condemned, faults>>

-----------------------------------------------------------------------------
(* startDurably: DBOS starts nothing new under an id it holds.  When the   *)
(* save fails the run reads as refused, unless DBOS holds it after all.    *)

startDurably(c) ==
  LET r == caller[c].run IN
  /\ caller[c].at = "saving"
  /\ workflow' = [workflow EXCEPT ![r] = IF @ = "none" THEN "saved" ELSE @]
  /\ Admit(c)
  /\ UNCHANGED <<row, stepped, condemned, faults>>

Fault == faults < MaxFaults /\ faults' = faults + 1

saveFails(c) ==
  /\ caller[c].at = "saving"
  /\ Fault
  /\ Go(c, "failed")
  /\ UNCHANGED <<row, stepped, workflow, admitted, condemned>>

refuseIfNeverStarted(c) ==
  /\ caller[c].at = "failed"
  /\ RowFree(caller[c].run)
  /\ \/ holdsWorkflow(caller[c].run) /\ Answered(c) /\ UNCHANGED faults
     \/ ~holdsWorkflow(caller[c].run) /\ Go(c, "refusing") /\ UNCHANGED faults
     \/ Fault /\ Answered(c)
  /\ UNCHANGED <<row, stepped, workflow, admitted, condemned>>

refuseUnstarted(c) ==
  LET r == caller[c].run IN
  /\ caller[c].at = "refusing"
  /\ Answered(c)
  /\ IF row[r].status = "running" /\ r \notin stepped THEN WriteRow(r, "refused") ELSE UNCHANGED row
  /\ UNCHANGED <<stepped, workflow, admitted, condemned, faults>>

-----------------------------------------------------------------------------
(* The workflow (dbos-runtime.ts runPlan): its gate reads the row before   *)
(* the run writes anything, and bars a run that ended.  A run's own end is *)
(* written over a refusal, never over a cancel.                            *)

Advance(r, to) == workflow' = [workflow EXCEPT ![r] = to]

enter(r) ==
  /\ workflow[r] = "saved"
  /\ Advance(r, CASE row[r].status = "running" -> "entered"
                  [] row[r].status = "completed" -> "ended"
                  [] OTHER -> "barred")
  /\ UNCHANGED <<row, stepped, caller, admitted, condemned, faults>>

stepStarted(r) ==
  /\ workflow[r] = "entered"
  /\ IF row[r].status = "cancelled" THEN Advance(r, "ended") /\ UNCHANGED stepped
                                    ELSE stepped' = stepped \cup {r} /\ UNCHANGED workflow
  /\ UNCHANGED <<row, caller, admitted, condemned, faults>>

runFinished(r) ==
  /\ workflow[r] = "entered"
  /\ RowFree(r)
  /\ IF row[r].status = "cancelled" THEN UNCHANGED row ELSE WriteRow(r, "completed")
  /\ Advance(r, "finished")
  /\ UNCHANGED <<stepped, caller, admitted, condemned, faults>>

recordEnd(r) ==
  /\ workflow[r] = "finished"
  /\ Advance(r, "ended")
  /\ UNCHANGED <<row, stepped, caller, admitted, condemned, faults>>

cancelRun(r) ==
  /\ row[r].status = "running"
  /\ RowFree(r)
  /\ WriteRow(r, "cancelled")
  /\ Advance(r, IF Pending(r) THEN "ended" ELSE workflow[r])
  /\ UNCHANGED <<stepped, caller, admitted, condemned, faults>>

-----------------------------------------------------------------------------
(* The reaper (endInterruptedRuns, reapCrashedRuns): a pass reads which    *)
(* old runs nothing takes on, then ends one under its lock if it is still  *)
(* old.  The longest a run may take outlasts any admission.                *)

age(r) ==
  /\ row[r].status = "running" /\ ~row[r].old /\ ~Pending(r)
  /\ \A c \in Caller : caller[c].run = r => ~caller[c].armed
  /\ row' = [row EXCEPT ![r].old = TRUE]
  /\ UNCHANGED <<stepped, workflow, caller, admitted, condemned, faults>>

Crashed(r) == row[r].status = "running" /\ row[r].old

\* Mutant: only a run DBOS never held is ended.
passUnheld(r) ==
  /\ condemned = None
  /\ Crashed(r)
  /\ ~holdsWorkflow(r)
  /\ condemned' = r
  /\ UNCHANGED <<row, stepped, workflow, caller, admitted, faults>>

pass(r) ==
  /\ condemned = None
  /\ Crashed(r)
  /\ ~Pending(r)
  /\ condemned' = r
  /\ UNCHANGED <<row, stepped, workflow, caller, admitted, faults>>

reap(r) ==
  /\ condemned = r
  /\ RowFree(r)
  /\ condemned' = None
  /\ IF Crashed(r) THEN WriteRow(r, "reaped") ELSE UNCHANGED row
  /\ UNCHANGED <<stepped, workflow, caller, admitted, faults>>

\* Transactions under way are rolled back, and DBOS takes its workflows on from their gate.
crash ==
  /\ Fault
  /\ row' = [r \in Run |-> [row[r] EXCEPT !.old = @ \/ row[r].status = "running"]]
  /\ workflow' = [r \in Run |-> IF Pending(r) THEN "saved" ELSE workflow[r]]
  /\ caller' = [c \in Caller |-> Idle]
  /\ condemned' = None
  /\ UNCHANGED <<stepped, admitted>>

Admission(c) ==
  \/ lockWorkspace(c) \/ assertWorkspaceRoom(c) \/ commitAdmission(c)
  \/ startAdmitted(c) \/ rearmIfNeverStarted(c) \/ rearmUnstarted(c)
  \/ startDurably(c) \/ saveFails(c) \/ refuseIfNeverStarted(c) \/ refuseUnstarted(c)

Course(r) == enter(r) \/ stepStarted(r) \/ runFinished(r) \/ recordEnd(r)

Reaper(r) == age(r) \/ pass(r) \/ reap(r)

Next ==
  \/ \E c \in Caller : Admission(c) \/ \E r \in Run : insertRun(c, r)
  \/ \E r \in Run : Course(r) \/ cancelRun(r) \/ Reaper(r)
  \/ crash

Spec == Init /\ [][Next]_vars

(* An admission under way goes on, a workflow runs to its end, and the     *)
(* reaper's passes come round (run-reaper.job.ts).                         *)
FairSpec ==
  /\ Spec
  /\ \A c \in Caller : WF_vars(Admission(c))
  /\ \A r \in Run : SF_vars(Course(r)) /\ SF_vars(Reaper(r))

-----------------------------------------------------------------------------

(* Properties.                                                             *)

\* Types.
TypeOK ==
  /\ row \in [Run -> Row]
  /\ stepped \subseteq Run
  /\ workflow \in [Run -> Workflow]
  /\ caller \in [Caller -> Call]
  /\ admitted \subseteq Run
  /\ condemned \in Run \cup {None}
  /\ faults \in 0..MaxFaults

(* Admissions at once never pass the workspace's cap together: of the runs *)
(* unfinished, no more were admitted by a count than the cap allows.  A    *)
(* run armed again after it had ended is not counted (domain/README.md row *)
(* 26: an id already holding a run is never counted).                      *)
CapIsKept == Cardinality({r \in Unfinished : ~row[r].rearmed}) <= Cap

(* Once a caller was told its run is admitted, DBOS holds the run or it    *)
(* was cancelled, through a crash at any point (row 23: a stop or crash    *)
(* after the 202 loses no run), and no pass of the reaper ends it while    *)
(* its workflow is on its way.                                             *)
AdmittedRunIsKept ==
  \A r \in Run : /\ r \in admitted => holdsWorkflow(r) \/ row[r].status = "cancelled"
                 /\ row[r].status = "reaped" => ~Pending(r)

(* No run stays unfinished, holding a place in its workspace, whatever     *)
(* happened to its start.                                                  *)
PlacesAreFreed == \A r \in Run : row[r].status = "running" ~> row[r].status # "running"

(* What the code says of a start that failed (runs.service.ts:548): a      *)
(* workflow DBOS holds is left to run.  A refusal asks DBOS, then writes,  *)
(* and another caller's save can come between.                             *)
HeldWorkflowRuns == \A r \in Run : workflow[r] = "barred" => row[r].status # "refused"
=============================================================================
