-------------------------- MODULE RunAdmissionProofs --------------------------
(***************************************************************************)
(* Proofs about RunAdmission, for any number of runs, callers and faults   *)
(* and every cap.                                                          *)
(***************************************************************************)
EXTENDS RunAdmission, FiniteSetTheorems, TLAPS

(* Two transactions never hold one row, or one workspace.                  *)
RowLocked ==
  \A c, d \in Caller : \A r \in Run : LocksRow(c, r) /\ LocksRow(d, r) => c = d

Holding == {"counting", "counted"}
WorkspaceLocked ==
  \A c, d \in Caller : caller[c].at \in Holding /\ caller[d].at \in Holding => c = d

(* The runs a count admitted, which the room found for the next one        *)
(* outlasts, since whoever is to add to them waits for the lock.           *)
Counted == {r \in Unfinished : ~row[r].rearmed}
RoomOutlasts ==
  \A c \in Caller : caller[c].at = "counted" => Cardinality(Counted \cup {caller[c].run}) <= Cap

(* What a caller knows of its run: the row it inserts is free to take; one *)
(* it has armed no pass of the reaper ends; one it is to start without     *)
(* arming is DBOS's already, or was cancelled.                             *)
Inserting == {"inserted", "counting", "counted"}
Starting == {"starting", "found", "asked", "saving", "failed", "refusing"}
CallerKnows(c) ==
  LET r == caller[c].run IN
  /\ caller[c].at # "idle" => r \in Run
  /\ caller[c].at \in Inserting => caller[c].armed /\ row[r].status \in {"none", "refused"}
  /\ caller[c].at \in Starting => row[r].status # "none"
  /\ caller[c].at \in Starting /\ caller[c].armed => row[r].status # "reaped" /\ ~Crashed(r)
  /\ caller[c].at = "saving" /\ ~caller[c].armed => holdsWorkflow(r) \/ row[r].status = "cancelled"

(* Only a workflow takes steps and completes a run, and none is on its way *)
(* for a run a pass is to end.                                             *)
RunGoes(r) ==
  /\ r \in stepped \/ row[r].status = "completed" => holdsWorkflow(r)
  /\ condemned = r /\ Crashed(r) => ~Pending(r)

IInv ==
  /\ TypeOK
  /\ RowLocked /\ WorkspaceLocked
  /\ RoomOutlasts /\ CapIsKept
  /\ AdmittedRunIsKept
  /\ \A c \in Caller : CallerKnows(c)
  /\ \A r \in Run : RunGoes(r)

LEMMA InitIInv == Init => IInv
<1> SUFFICES ASSUME Init PROVE IInv
  OBVIOUS
<1>1. TypeOK
  BY FaultAssumption DEF Init, TypeOK, Row, Workflow, Call, Idle
<1>2. Counted = {}
  BY DEF Init, Counted, Unfinished
<1>3. CapIsKept
  BY <1>2, FS_EmptySet, CapAssumption DEF CapIsKept, Counted
<1> QED BY <1>1, <1>3, NoneAssumption
     DEF Init, IInv, RowLocked, WorkspaceLocked, RoomOutlasts, LocksRow, Holding, Inserting, Starting,
         AdmittedRunIsKept, CallerKnows, RunGoes, Idle, Pending

(* Sets of runs are finite, and one within another is no larger.           *)
LEMMA FewerRuns ==
  ASSUME NEW S \in SUBSET Run, NEW T \in SUBSET S
  PROVE  Cardinality(T) <= Cardinality(S) /\ Cardinality(S) \in Nat /\ Cardinality(T) \in Nat
<1>1. IsFiniteSet(S) /\ IsFiniteSet(T)
  BY RunsAreFinite, FS_Subset
<1> QED BY <1>1, FS_Subset, FS_CardinalityType

(* A step that counts no new run, and in which nobody comes to be counted, *)
(* keeps the cap.                                                          *)
LEMMA CapKept ==
  ASSUME IInv, Counted' \subseteq Counted, caller' \in [Caller -> Call],
         \A c \in Caller : caller'[c].at = "counted" => caller[c].at = "counted" /\ caller'[c].run = caller[c].run
  PROVE  RoomOutlasts' /\ CapIsKept'
<1>1. Counted \subseteq Run
  BY DEF Counted, Unfinished
<1>2. CapIsKept'
  <2>1. Cardinality(Counted') <= Cardinality(Counted) /\ {Cardinality(Counted), Cardinality(Counted')} \subseteq Nat
    BY <1>1, FewerRuns
  <2> QED BY <2>1, CapAssumption DEF IInv, CapIsKept, Counted
<1>3. ASSUME NEW c \in Caller, caller'[c].at = "counted"
      PROVE  Cardinality(Counted' \cup {caller'[c].run}) <= Cap
  <2> DEFINE S == Counted \cup {caller[c].run}
             T == Counted' \cup {caller[c].run}
  <2>1. caller[c].run \in Run /\ caller'[c].run = caller[c].run /\ Cardinality(S) <= Cap
    BY <1>3 DEF IInv, CallerKnows, RoomOutlasts
  <2>2. Cardinality(T) <= Cardinality(S) /\ {Cardinality(S), Cardinality(T)} \subseteq Nat
    <3> HIDE DEF S, T
    <3>1. S \in SUBSET Run /\ T \in SUBSET S
      BY <1>1, <2>1 DEF S, T
    <3> QED BY <3>1, FewerRuns
  <2> QED BY <2>1, <2>2, CapAssumption
<1> QED BY <1>2, <1>3 DEF RoomOutlasts

(* A caller goes on by itself: a lock it comes to hold was free.           *)
LEMMA LocksKept ==
  ASSUME IInv, NEW c \in Caller, NEW call \in Call, caller' = [caller EXCEPT ![c] = call],
         call.at \in {"inserted", "counting", "counted", "asked", "refusing"} =>
           LocksRow(c, call.run) \/ RowFree(call.run),
         call.at \in Holding => caller[c].at \in Holding \/ WorkspaceFree
  PROVE  RowLocked' /\ WorkspaceLocked' /\ caller' \in [Caller -> Call]
<1>1. \A d \in Caller : caller'[d] = IF d = c THEN call ELSE caller[d]
  BY DEF IInv, TypeOK
<1>2. RowLocked'
  BY <1>1 DEF IInv, RowLocked, LocksRow, RowFree
<1>3. WorkspaceLocked'
  BY <1>1 DEF IInv, WorkspaceLocked, WorkspaceFree, Holding
<1> QED BY <1>2, <1>3 DEF IInv, TypeOK

(* A caller that only goes on, and writes no row.                          *)
LEMMA InsertKept ==
  ASSUME IInv, NEW c \in Caller, NEW r \in Run, insertRun(c, r)
  PROVE  IInv'
<1> DEFINE call == IF takesId(r) THEN [at |-> "inserted", run |-> r, armed |-> TRUE]
                                 ELSE [at |-> "starting", run |-> r, armed |-> FALSE]
<1>1. call \in Call /\ caller' = [caller EXCEPT ![c] = call] /\ call.at \notin Holding
  BY DEF insertRun, Call, Holding
<1>2. call.run = r /\ RowFree(r) /\ caller[c].at = "idle"
  BY DEF insertRun
<1>3. RowLocked' /\ WorkspaceLocked' /\ caller' \in [Caller -> Call]
  <2> HIDE DEF call
  <2> QED BY <1>1, <1>2, LocksKept
<1>4. \A d \in Caller : caller'[d] = IF d = c THEN call ELSE caller[d]
  BY <1>1 DEF IInv, TypeOK
<1>5. TypeOK'
  BY <1>3 DEF IInv, TypeOK, insertRun
<1>6. RoomOutlasts' /\ CapIsKept'
  BY <1>3, <1>4, CapKept DEF Counted, Unfinished, insertRun
<1>7. \A d \in Caller : CallerKnows(d)'
  BY <1>4 DEF IInv, CallerKnows, insertRun, takesId, Inserting, Starting, Crashed, holdsWorkflow
<1>8. AdmittedRunIsKept' /\ \A x \in Run : RunGoes(x)'
  BY DEF IInv, AdmittedRunIsKept, RunGoes, insertRun, Pending, holdsWorkflow, Crashed
<1> QED BY <1>3, <1>5, <1>6, <1>7, <1>8 DEF IInv

(* How a caller goes on: to the next thing it does, or answered.           *)
GoesOn(c, call) ==
  /\ caller' = [caller EXCEPT ![c] = call]
  /\ call.at # "idle" => call.run = caller[c].run /\ call.armed = caller[c].armed

LEMMA WentOn ==
  ASSUME IInv, NEW c \in Caller, NEW at, Go(c, at),
         at \in {"inserted", "counting", "counted", "starting", "found", "asked", "saving", "failed", "refusing"}
  PROVE  \E call \in Call : GoesOn(c, call) /\ call.at = at
<1> DEFINE call == [caller[c] EXCEPT !.at = at]
<1>1. caller[c] \in Call
  BY DEF IInv, TypeOK
<1>2. call \in Call /\ call.at = at /\ call.run = caller[c].run /\ call.armed = caller[c].armed
  BY <1>1 DEF Call
<1>3. caller' = [caller EXCEPT ![c] = call]
  BY DEF Go
<1> HIDE DEF call
<1> QED BY <1>2, <1>3 DEF GoesOn

LEMMA WasAnswered ==
  ASSUME NEW c \in Caller, Answered(c)
  PROVE  \E call \in Call : GoesOn(c, call) /\ call.at = "idle"
<1>1. Idle \in Call /\ Idle.at = "idle"
  BY DEF Idle, Call
<1> QED BY <1>1 DEF Answered, GoesOn

LEMMA LockWorkspaceKept ==
  ASSUME IInv, NEW c \in Caller, lockWorkspace(c)
  PROVE  IInv'
<1>1. PICK call \in Call :
        /\ GoesOn(c, call)
        /\ call.at \in {"counting"}
  BY WentOn, WasAnswered DEF lockWorkspace, Admit, countUnlocked
<1>2. caller[c].at = "inserted" /\ row' = row
  BY DEF lockWorkspace, countUnlocked
<1>3. \A d \in Caller : caller'[d] = IF d = c THEN call ELSE caller[d]
  BY <1>1 DEF IInv, TypeOK, GoesOn
<1>4. RowLocked' /\ WorkspaceLocked' /\ caller' \in [Caller -> Call]
  <2>1. call.at \in {"inserted", "counting", "counted", "asked", "refusing"} =>
          LocksRow(c, call.run) \/ RowFree(call.run)
    BY <1>1, <1>2 DEF GoesOn, LocksRow, lockWorkspace, countUnlocked
  <2>2. call.at \in Holding => caller[c].at \in Holding \/ WorkspaceFree
    BY <1>1, <1>2 DEF Holding, lockWorkspace, countUnlocked
  <2> QED BY <1>1, <2>1, <2>2, LocksKept DEF GoesOn
<1>5. TypeOK'
  BY <1>2, <1>4, FaultAssumption DEF IInv, TypeOK, lockWorkspace, Admit, Workflow, CallerKnows, countUnlocked
<1>6. RoomOutlasts' /\ CapIsKept'
  <2>1. Counted' = Counted
    BY <1>2 DEF Counted, Unfinished
  <2>2. \A d \in Caller : caller'[d].at = "counted" => caller[d].at = "counted" /\ caller'[d].run = caller[d].run
    BY <1>1, <1>2, <1>3 DEF GoesOn
  <2> QED BY <1>4, <2>1, <2>2, CapKept
<1>7. \A d \in Caller : CallerKnows(d)'
  BY <1>1, <1>2, <1>3 DEF GoesOn, IInv, TypeOK, CallerKnows, lockWorkspace, Inserting, Starting, Crashed, holdsWorkflow, countUnlocked
<1>8. AdmittedRunIsKept' /\ \A x \in Run : RunGoes(x)'
  BY <1>1, <1>2 DEF IInv, TypeOK, AdmittedRunIsKept, CallerKnows, RunGoes, lockWorkspace, Admit, Pending, holdsWorkflow, Crashed, Starting, countUnlocked
<1> QED BY <1>4, <1>5, <1>6, <1>7, <1>8 DEF IInv

LEMMA StartAdmittedKept ==
  ASSUME IInv, NEW c \in Caller, startAdmitted(c)
  PROVE  IInv'
<1>1. PICK call \in Call :
        /\ GoesOn(c, call)
        /\ call.at \in {"idle", "saving", "found"}
        /\ call.at = "saving" => caller[c].armed
  BY WentOn, WasAnswered DEF startAdmitted, Admit
<1>2. caller[c].at = "starting" /\ row' = row
  BY DEF startAdmitted
<1>3. \A d \in Caller : caller'[d] = IF d = c THEN call ELSE caller[d]
  BY <1>1 DEF IInv, TypeOK, GoesOn
<1>4. RowLocked' /\ WorkspaceLocked' /\ caller' \in [Caller -> Call]
  <2>1. call.at \in {"inserted", "counting", "counted", "asked", "refusing"} =>
          LocksRow(c, call.run) \/ RowFree(call.run)
    BY <1>1, <1>2 DEF GoesOn, LocksRow, startAdmitted
  <2>2. call.at \in Holding => caller[c].at \in Holding \/ WorkspaceFree
    BY <1>1, <1>2 DEF Holding, startAdmitted
  <2> QED BY <1>1, <2>1, <2>2, LocksKept DEF GoesOn
<1>5. TypeOK'
  BY <1>2, <1>4, FaultAssumption DEF IInv, TypeOK, startAdmitted, Admit, Workflow, CallerKnows
<1>6. RoomOutlasts' /\ CapIsKept'
  <2>1. Counted' = Counted
    BY <1>2 DEF Counted, Unfinished
  <2>2. \A d \in Caller : caller'[d].at = "counted" => caller[d].at = "counted" /\ caller'[d].run = caller[d].run
    BY <1>1, <1>2, <1>3 DEF GoesOn
  <2> QED BY <1>4, <2>1, <2>2, CapKept
<1>7. \A d \in Caller : CallerKnows(d)'
  BY <1>1, <1>2, <1>3 DEF GoesOn, IInv, TypeOK, CallerKnows, startAdmitted, Inserting, Starting, Crashed, holdsWorkflow
<1>8. AdmittedRunIsKept' /\ \A x \in Run : RunGoes(x)'
  BY <1>1, <1>2 DEF IInv, TypeOK, AdmittedRunIsKept, CallerKnows, RunGoes, startAdmitted, Admit, Pending, holdsWorkflow, Crashed, Starting
<1> QED BY <1>4, <1>5, <1>6, <1>7, <1>8 DEF IInv

LEMMA RearmAskedKept ==
  ASSUME IInv, NEW c \in Caller, rearmIfNeverStarted(c)
  PROVE  IInv'
<1>1. PICK call \in Call :
        /\ GoesOn(c, call)
        /\ call.at \in {"saving", "asked"}
        /\ call.at = "saving" => holdsWorkflow(caller[c].run) \/ row[caller[c].run].status = "cancelled"
  BY WentOn, WasAnswered DEF rearmIfNeverStarted, Admit
<1>2. caller[c].at = "found" /\ row' = row
  BY DEF rearmIfNeverStarted
<1>3. \A d \in Caller : caller'[d] = IF d = c THEN call ELSE caller[d]
  BY <1>1 DEF IInv, TypeOK, GoesOn
<1>4. RowLocked' /\ WorkspaceLocked' /\ caller' \in [Caller -> Call]
  <2>1. call.at \in {"inserted", "counting", "counted", "asked", "refusing"} =>
          LocksRow(c, call.run) \/ RowFree(call.run)
    BY <1>1, <1>2 DEF GoesOn, LocksRow, rearmIfNeverStarted
  <2>2. call.at \in Holding => caller[c].at \in Holding \/ WorkspaceFree
    BY <1>1, <1>2 DEF Holding, rearmIfNeverStarted
  <2> QED BY <1>1, <2>1, <2>2, LocksKept DEF GoesOn
<1>5. TypeOK'
  BY <1>2, <1>4, FaultAssumption DEF IInv, TypeOK, rearmIfNeverStarted, Admit, Workflow, CallerKnows
<1>6. RoomOutlasts' /\ CapIsKept'
  <2>1. Counted' = Counted
    BY <1>2 DEF Counted, Unfinished
  <2>2. \A d \in Caller : caller'[d].at = "counted" => caller[d].at = "counted" /\ caller'[d].run = caller[d].run
    BY <1>1, <1>2, <1>3 DEF GoesOn
  <2> QED BY <1>4, <2>1, <2>2, CapKept
<1>7. \A d \in Caller : CallerKnows(d)'
  <2>1. workflow' = workflow
    BY DEF rearmIfNeverStarted, Admit
  <2>2. ASSUME NEW d \in Caller \ {c} PROVE CallerKnows(d)'
    <3>1. CallerKnows(d)
      BY DEF IInv
    <3> QED BY <1>2, <1>3, <2>1, <3>1 DEF CallerKnows, Crashed, holdsWorkflow
  <2>3. CallerKnows(c)'
    <3>1. CallerKnows(c) /\ caller'[c] = call
      BY <1>3 DEF IInv
    <3> QED BY <1>1, <1>2, <2>1, <3>1
            DEF GoesOn, CallerKnows, rearmIfNeverStarted, Inserting, Starting, Crashed, holdsWorkflow
  <2> QED BY <2>2, <2>3
<1>8. AdmittedRunIsKept' /\ \A x \in Run : RunGoes(x)'
  BY <1>1, <1>2 DEF IInv, TypeOK, AdmittedRunIsKept, CallerKnows, RunGoes, rearmIfNeverStarted, Admit, Pending, holdsWorkflow, Crashed, Starting
<1> QED BY <1>4, <1>5, <1>6, <1>7, <1>8 DEF IInv

LEMMA StartDurablyKept ==
  ASSUME IInv, NEW c \in Caller, startDurably(c)
  PROVE  IInv'
<1>1. PICK call \in Call :
        /\ GoesOn(c, call)
        /\ call.at \in {"idle"}
  BY WentOn, WasAnswered DEF startDurably, Admit
<1>2. caller[c].at = "saving" /\ row' = row
  BY DEF startDurably
<1>3. \A d \in Caller : caller'[d] = IF d = c THEN call ELSE caller[d]
  BY <1>1 DEF IInv, TypeOK, GoesOn
<1>4. RowLocked' /\ WorkspaceLocked' /\ caller' \in [Caller -> Call]
  <2>1. call.at \in {"inserted", "counting", "counted", "asked", "refusing"} =>
          LocksRow(c, call.run) \/ RowFree(call.run)
    BY <1>1, <1>2 DEF GoesOn, LocksRow, startDurably
  <2>2. call.at \in Holding => caller[c].at \in Holding \/ WorkspaceFree
    BY <1>1, <1>2 DEF Holding, startDurably
  <2> QED BY <1>1, <2>1, <2>2, LocksKept DEF GoesOn
<1>5. TypeOK'
  BY <1>2, <1>4, FaultAssumption DEF IInv, TypeOK, startDurably, Admit, Workflow, CallerKnows
<1>6. RoomOutlasts' /\ CapIsKept'
  <2>1. Counted' = Counted
    BY <1>2 DEF Counted, Unfinished
  <2>2. \A d \in Caller : caller'[d].at = "counted" => caller[d].at = "counted" /\ caller'[d].run = caller[d].run
    BY <1>1, <1>2, <1>3 DEF GoesOn
  <2> QED BY <1>4, <2>1, <2>2, CapKept
<1>7. \A d \in Caller : CallerKnows(d)'
  BY <1>1, <1>2, <1>3 DEF GoesOn, IInv, TypeOK, CallerKnows, startDurably, Inserting, Starting, Crashed, holdsWorkflow
<1>8. AdmittedRunIsKept' /\ \A x \in Run : RunGoes(x)'
  BY <1>1, <1>2 DEF IInv, TypeOK, AdmittedRunIsKept, CallerKnows, RunGoes, startDurably, Admit, Pending, holdsWorkflow, Crashed, Starting
<1> QED BY <1>4, <1>5, <1>6, <1>7, <1>8 DEF IInv

LEMMA SaveFailsKept ==
  ASSUME IInv, NEW c \in Caller, saveFails(c)
  PROVE  IInv'
<1>1. PICK call \in Call :
        /\ GoesOn(c, call)
        /\ call.at \in {"failed"}
  BY WentOn, WasAnswered DEF saveFails, Admit, Fault
<1>2. caller[c].at = "saving" /\ row' = row
  BY DEF saveFails, Fault
<1>3. \A d \in Caller : caller'[d] = IF d = c THEN call ELSE caller[d]
  BY <1>1 DEF IInv, TypeOK, GoesOn
<1>4. RowLocked' /\ WorkspaceLocked' /\ caller' \in [Caller -> Call]
  <2>1. call.at \in {"inserted", "counting", "counted", "asked", "refusing"} =>
          LocksRow(c, call.run) \/ RowFree(call.run)
    BY <1>1, <1>2 DEF GoesOn, LocksRow, saveFails, Fault
  <2>2. call.at \in Holding => caller[c].at \in Holding \/ WorkspaceFree
    BY <1>1, <1>2 DEF Holding, saveFails, Fault
  <2> QED BY <1>1, <2>1, <2>2, LocksKept DEF GoesOn
<1>5. TypeOK'
  BY <1>2, <1>4, FaultAssumption DEF IInv, TypeOK, saveFails, Admit, Workflow, CallerKnows, Fault
<1>6. RoomOutlasts' /\ CapIsKept'
  <2>1. Counted' = Counted
    BY <1>2 DEF Counted, Unfinished
  <2>2. \A d \in Caller : caller'[d].at = "counted" => caller[d].at = "counted" /\ caller'[d].run = caller[d].run
    BY <1>1, <1>2, <1>3 DEF GoesOn
  <2> QED BY <1>4, <2>1, <2>2, CapKept
<1>7. \A d \in Caller : CallerKnows(d)'
  BY <1>1, <1>2, <1>3 DEF GoesOn, IInv, TypeOK, CallerKnows, saveFails, Inserting, Starting, Crashed, holdsWorkflow, Fault
<1>8. AdmittedRunIsKept' /\ \A x \in Run : RunGoes(x)'
  BY <1>1, <1>2 DEF IInv, TypeOK, AdmittedRunIsKept, CallerKnows, RunGoes, saveFails, Admit, Pending, holdsWorkflow, Crashed, Starting, Fault
<1> QED BY <1>4, <1>5, <1>6, <1>7, <1>8 DEF IInv

LEMMA RefuseAskedKept ==
  ASSUME IInv, NEW c \in Caller, refuseIfNeverStarted(c)
  PROVE  IInv'
<1>1. PICK call \in Call :
        /\ GoesOn(c, call)
        /\ call.at \in {"idle", "refusing"}
  BY WentOn, WasAnswered DEF refuseIfNeverStarted, Admit, Fault
<1>2. caller[c].at = "failed" /\ row' = row
  BY DEF refuseIfNeverStarted, Fault
<1>3. \A d \in Caller : caller'[d] = IF d = c THEN call ELSE caller[d]
  BY <1>1 DEF IInv, TypeOK, GoesOn
<1>4. RowLocked' /\ WorkspaceLocked' /\ caller' \in [Caller -> Call]
  <2>1. call.at \in {"inserted", "counting", "counted", "asked", "refusing"} =>
          LocksRow(c, call.run) \/ RowFree(call.run)
    BY <1>1, <1>2 DEF GoesOn, LocksRow, refuseIfNeverStarted, Fault
  <2>2. call.at \in Holding => caller[c].at \in Holding \/ WorkspaceFree
    BY <1>1, <1>2 DEF Holding, refuseIfNeverStarted, Fault
  <2> QED BY <1>1, <2>1, <2>2, LocksKept DEF GoesOn
<1>5. TypeOK'
  BY <1>2, <1>4, FaultAssumption DEF IInv, TypeOK, refuseIfNeverStarted, Admit, Workflow, CallerKnows, Fault
<1>6. RoomOutlasts' /\ CapIsKept'
  <2>1. Counted' = Counted
    BY <1>2 DEF Counted, Unfinished
  <2>2. \A d \in Caller : caller'[d].at = "counted" => caller[d].at = "counted" /\ caller'[d].run = caller[d].run
    BY <1>1, <1>2, <1>3 DEF GoesOn
  <2> QED BY <1>4, <2>1, <2>2, CapKept
<1>7. \A d \in Caller : CallerKnows(d)'
  BY <1>1, <1>2, <1>3 DEF GoesOn, IInv, TypeOK, CallerKnows, refuseIfNeverStarted, Inserting, Starting, Crashed, holdsWorkflow, Fault
<1>8. AdmittedRunIsKept' /\ \A x \in Run : RunGoes(x)'
  BY <1>1, <1>2 DEF IInv, TypeOK, AdmittedRunIsKept, CallerKnows, RunGoes, refuseIfNeverStarted, Admit, Pending, holdsWorkflow, Crashed, Starting, Fault
<1> QED BY <1>4, <1>5, <1>6, <1>7, <1>8 DEF IInv

(* The room just counted holds for the caller that has the workspace.      *)
LEMMA RoomKept ==
  ASSUME IInv, NEW c \in Caller, assertWorkspaceRoom(c)
  PROVE  IInv'
<1>1. PICK call \in Call :
        /\ GoesOn(c, call)
        /\ call.at \in {"idle", "counted"}
        /\ call.at = "counted" => hasRoom(caller[c].run)
  BY WentOn, WasAnswered DEF assertWorkspaceRoom
<1>2. caller[c].at = "counting" /\ row' = row
  BY DEF assertWorkspaceRoom
<1>3. \A d \in Caller : caller'[d] = IF d = c THEN call ELSE caller[d]
  BY <1>1 DEF IInv, TypeOK, GoesOn
<1>4. RowLocked' /\ WorkspaceLocked' /\ caller' \in [Caller -> Call]
  <2>1. call.at \in {"inserted", "counting", "counted", "asked", "refusing"} =>
          LocksRow(c, call.run) \/ RowFree(call.run)
    BY <1>1, <1>2 DEF GoesOn, LocksRow
  <2> QED BY <1>1, <1>2, <2>1, LocksKept DEF GoesOn, Holding
<1>5. TypeOK'
  BY <1>4 DEF IInv, TypeOK, assertWorkspaceRoom
<1>6. RoomOutlasts' /\ CapIsKept'
  <2> DEFINE r == caller[c].run
             S == Unfinished \cup {r}
             T == Counted \cup {r}
  <2>1. Counted' = Counted /\ Unfinished' = Unfinished
    BY <1>2 DEF Counted, Unfinished
  <2>2. ASSUME call.at = "counted" PROVE Cardinality(T) <= Cap
    <3>1. r \in Run /\ Cardinality(S) <= Cap
      BY <1>1, <1>2, <2>2 DEF IInv, CallerKnows, hasRoom
    <3>2. S \in SUBSET Run /\ T \in SUBSET S
      BY <3>1 DEF Counted, Unfinished
    <3>3. Cardinality(T) <= Cardinality(S) /\ {Cardinality(S), Cardinality(T)} \subseteq Nat
      <4> HIDE DEF S, T
      <4> QED BY <3>2, FewerRuns
    <3> QED BY <3>1, <3>3, CapAssumption
  <2>3. CapIsKept'
    BY <1>2 DEF IInv, CapIsKept, Unfinished
  <2>4. ASSUME NEW d \in Caller, caller'[d].at = "counted"
        PROVE  Cardinality(Counted' \cup {caller'[d].run}) <= Cap
    <3>1. CASE d = c
      BY <3>1, <1>1, <1>3, <2>1, <2>2, <2>4 DEF GoesOn
    <3>2. CASE d # c
      BY <3>2, <1>3, <2>1, <2>4 DEF IInv, RoomOutlasts
    <3> QED BY <3>1, <3>2
  <2> QED BY <2>3, <2>4 DEF RoomOutlasts
<1>7. \A d \in Caller : CallerKnows(d)'
  BY <1>1, <1>2, <1>3 DEF GoesOn, IInv, TypeOK, CallerKnows, assertWorkspaceRoom, Inserting, Starting, Crashed, holdsWorkflow
<1>8. AdmittedRunIsKept' /\ \A x \in Run : RunGoes(x)'
  BY <1>2 DEF IInv, AdmittedRunIsKept, RunGoes, assertWorkspaceRoom, Pending, holdsWorkflow, Crashed
<1> QED BY <1>4, <1>5, <1>6, <1>7, <1>8 DEF IInv

(* The run a count found room for is committed while nobody else commits.  *)
LEMMA CommitKept ==
  ASSUME IInv, NEW c \in Caller, commitAdmission(c)
  PROVE  IInv'
<1> DEFINE r == caller[c].run
           new == [status |-> "running", old |-> FALSE, rearmed |-> FALSE]
<1>1. PICK call \in Call : GoesOn(c, call) /\ call.at = "starting"
  BY WentOn DEF commitAdmission
<1>2. caller[c].at = "counted" /\ r \in Run /\ row[r].status \in {"none", "refused"} /\ caller[c].armed
  BY DEF commitAdmission, IInv, CallerKnows, Inserting
<1>3. \A d \in Caller : caller'[d] = IF d = c THEN call ELSE caller[d]
  BY <1>1 DEF IInv, TypeOK, GoesOn
<1>4. RowLocked' /\ WorkspaceLocked' /\ caller' \in [Caller -> Call]
  <2>1. call.at \notin {"inserted", "counting", "counted", "asked", "refusing"} /\ call.at \notin Holding
    BY <1>1 DEF Holding
  <2> QED BY <1>1, <2>1, LocksKept DEF GoesOn
<1>5. new \in Row /\ row' = [row EXCEPT ![r] = new]
  BY DEF commitAdmission, Row
<1>6. \A x \in Run : row'[x] = IF x = r THEN new ELSE row[x]
  BY <1>2, <1>5 DEF IInv, TypeOK
<1>7. TypeOK'
  BY <1>2, <1>4, <1>5 DEF IInv, TypeOK, commitAdmission
<1>8. RoomOutlasts' /\ CapIsKept'
  <2>1. Counted' = Counted \cup {r}
    BY <1>2, <1>6 DEF Counted, Unfinished
  <2>2. Cardinality(Counted \cup {r}) <= Cap
    BY <1>2 DEF IInv, RoomOutlasts
  <2>3. \A d \in Caller : caller'[d].at # "counted"
    BY <1>1, <1>2, <1>3 DEF IInv, WorkspaceLocked, Holding
  <2> QED BY <2>1, <2>2, <2>3 DEF CapIsKept, RoomOutlasts, Counted
<1>9. ASSUME NEW d \in Caller PROVE CallerKnows(d)'
  <2>1. CASE d = c
    BY <2>1, <1>1, <1>2, <1>3, <1>6 DEF GoesOn, CallerKnows, Inserting, Starting, Crashed
  <2>2. CASE d # c
    <3>1. caller'[d] = caller[d] /\ workflow' = workflow
      BY <2>2, <1>3 DEF commitAdmission
    <3>2. ~(caller[d].at \in Inserting /\ caller[d].run = r)
      BY <2>2, <1>2 DEF IInv, RowLocked, LocksRow, Inserting
    <3>3. caller[d].at = "saving" /\ ~caller[d].armed /\ caller[d].run = r => holdsWorkflow(r)
      BY <1>2 DEF IInv, CallerKnows
    <3> QED BY <3>1, <3>2, <3>3, <1>6 DEF IInv, CallerKnows, Inserting, Starting, Crashed, holdsWorkflow
  <2> QED BY <2>1, <2>2
<1>10. AdmittedRunIsKept' /\ \A x \in Run : RunGoes(x)'
  BY <1>2, <1>6 DEF IInv, AdmittedRunIsKept, RunGoes, commitAdmission, Pending, holdsWorkflow, Crashed
<1> QED BY <1>4, <1>7, <1>8, <1>9, <1>10 DEF IInv

(* A run armed again was counted as it was admitted, or is not counted.    *)
LEMMA RearmKept ==
  ASSUME IInv, NEW c \in Caller, rearmUnstarted(c)
  PROVE  IInv'
<1> DEFINE r == caller[c].run
           new == Rearmed(row[r])
<1>1. caller[c].at = "asked" /\ r \in Run
  BY DEF rearmUnstarted, IInv, CallerKnows
<1>2. CASE neverStarted(r)
  <2> DEFINE call == [caller[c] EXCEPT !.at = "saving", !.armed = TRUE]
  <2>0. call \in Call /\ call.at = "saving" /\ call.run = r /\ call.armed
    <3>1. caller[c] \in Call
      BY DEF IInv, TypeOK
    <3> QED BY <3>1 DEF Call
  <2>1. caller' = [caller EXCEPT ![c] = call] /\ row' = [row EXCEPT ![r] = new]
    BY <1>1, <1>2 DEF rearmUnstarted
  <2> HIDE DEF call
  <2>2. \A d \in Caller : caller'[d] = IF d = c THEN call ELSE caller[d]
    BY <2>1 DEF IInv, TypeOK
  <2>3. row[r] \in Row /\ new \in Row /\ new.status = "running" /\ ~new.old
    BY <1>1 DEF IInv, TypeOK, Row, Rearmed
  <2>4. \A x \in Run : row'[x] = IF x = r THEN new ELSE row[x]
    BY <1>1, <2>1 DEF IInv, TypeOK
  <2>5. RowLocked' /\ WorkspaceLocked' /\ caller' \in [Caller -> Call]
    <3>1. call.at \notin {"inserted", "counting", "counted", "asked", "refusing"} /\ call.at \notin Holding
      BY <2>0 DEF Holding
    <3> QED BY <2>0, <2>1, <3>1, LocksKept
  <2>6. TypeOK'
    BY <1>1, <1>2, <2>1, <2>3, <2>5 DEF IInv, TypeOK, rearmUnstarted
  <2>7. RoomOutlasts' /\ CapIsKept'
    <3>1. Counted' \subseteq Counted
      BY <1>2, <2>3, <2>4 DEF Counted, Unfinished, Rearmed, Row
    <3> QED BY <2>0, <2>2, <2>5, <3>1, CapKept
  <2>8. ASSUME NEW d \in Caller PROVE CallerKnows(d)'
    <3>1. CASE d = c
      BY <3>1, <1>1, <2>0, <2>2, <2>3, <2>4 DEF CallerKnows, Inserting, Starting, Crashed
    <3>2. CASE d # c
      <4>1. caller'[d] = caller[d] /\ workflow' = workflow
        BY <3>2, <2>2 DEF rearmUnstarted
      <4>2. ~(caller[d].at \in Inserting /\ caller[d].run = r)
        BY <3>2, <1>1 DEF IInv, RowLocked, LocksRow, Inserting
      <4>3. caller[d].at = "saving" /\ ~caller[d].armed /\ caller[d].run = r => holdsWorkflow(r)
        BY <1>2 DEF IInv, CallerKnows, neverStarted
      <4> QED BY <4>1, <4>2, <4>3, <2>3, <2>4
           DEF IInv, CallerKnows, Inserting, Starting, Crashed, holdsWorkflow
    <3> QED BY <3>1, <3>2
  <2>9. AdmittedRunIsKept' /\ \A x \in Run : RunGoes(x)'
    BY <1>1, <1>2, <2>3, <2>4
       DEF IInv, AdmittedRunIsKept, RunGoes, rearmUnstarted, neverStarted, Pending, holdsWorkflow, Crashed
  <2> QED BY <2>5, <2>6, <2>7, <2>8, <2>9 DEF IInv
<1>3. CASE ~neverStarted(r)
  <2>1. PICK call \in Call : GoesOn(c, call) /\ call.at = "idle"
    BY <1>3, WasAnswered DEF rearmUnstarted, Admit
  <2>2. row' = row /\ workflow' = workflow /\ stepped' = stepped /\ condemned' = condemned
    BY <1>3 DEF rearmUnstarted
  <2>3. \A d \in Caller : caller'[d] = IF d = c THEN call ELSE caller[d]
    BY <2>1 DEF IInv, TypeOK, GoesOn
  <2>4. RowLocked' /\ WorkspaceLocked' /\ caller' \in [Caller -> Call]
    BY <2>1, LocksKept DEF GoesOn, Holding
  <2>5. TypeOK'
    BY <1>1, <1>3, <2>4 DEF IInv, TypeOK, rearmUnstarted, Admit
  <2>6. RoomOutlasts' /\ CapIsKept'
    <3>1. Counted' = Counted
      BY <2>2 DEF Counted, Unfinished
    <3> QED BY <2>1, <2>3, <2>4, <3>1, CapKept
  <2>7. \A d \in Caller : CallerKnows(d)'
    BY <2>1, <2>2, <2>3 DEF IInv, CallerKnows, Inserting, Starting, Crashed, holdsWorkflow
  <2>8. holdsWorkflow(r) \/ row[r].status = "cancelled"
    <3>1. row[r].status \in {"running", "completed", "cancelled", "refused", "reaped"}
      BY <1>1 DEF IInv, TypeOK, Row, CallerKnows, Starting
    <3> QED BY <1>1, <1>3, <3>1 DEF neverStarted, IInv, RunGoes
  <2>9. AdmittedRunIsKept' /\ \A x \in Run : RunGoes(x)'
    BY <1>3, <2>2, <2>8
       DEF IInv, AdmittedRunIsKept, RunGoes, rearmUnstarted, Admit, Pending, holdsWorkflow, Crashed
  <2> QED BY <2>4, <2>5, <2>6, <2>7, <2>9 DEF IInv
<1> QED BY <1>2, <1>3

(* A step that writes the status of one row, and changes no caller, keeps  *)
(* the locks and the types; it keeps the cap if the run was going.         *)
LEMMA RowWritten ==
  ASSUME IInv, NEW r \in Run, caller' \in [Caller -> Call],
         NEW status \in {"completed", "cancelled", "refused", "reaped"}, WriteRow(r, status)
  PROVE  /\ row' \in [Run -> Row]
         /\ \A x \in Run : x # r => row'[x] = row[x]
         /\ row'[r].status = status
         /\ Counted' \subseteq Counted
<1> DEFINE new == [row[r] EXCEPT !.status = status]
<1>1. row[r] \in Row /\ new \in Row /\ new.status = status
  BY DEF IInv, TypeOK, Row
<1>2. row' = [row EXCEPT ![r] = new]
  BY DEF WriteRow
<1>3. \A x \in Run : row'[x] = IF x = r THEN new ELSE row[x]
  BY <1>2 DEF IInv, TypeOK
<1> QED BY <1>1, <1>2, <1>3 DEF IInv, TypeOK, Counted, Unfinished

LEMMA RefuseKept ==
  ASSUME IInv, NEW c \in Caller, refuseUnstarted(c)
  PROVE  IInv'
<1> DEFINE r == caller[c].run
<1>1. caller[c].at = "refusing" /\ r \in Run
  BY DEF refuseUnstarted, IInv, CallerKnows
<1>2. PICK call \in Call : GoesOn(c, call) /\ call.at = "idle"
  BY WasAnswered DEF refuseUnstarted
<1>3. \A d \in Caller : caller'[d] = IF d = c THEN call ELSE caller[d]
  BY <1>2 DEF IInv, TypeOK, GoesOn
<1>4. RowLocked' /\ WorkspaceLocked' /\ caller' \in [Caller -> Call]
  BY <1>2, LocksKept DEF GoesOn, Holding
<1>5. /\ row' \in [Run -> Row]
      /\ \A x \in Run : row'[x] = row[x] \/ (x = r /\ row[r].status = "running" /\ row'[r].status = "refused")
      /\ Counted' \subseteq Counted
  BY <1>1, <1>4, RowWritten DEF refuseUnstarted, IInv, TypeOK, Counted, Unfinished
<1>6. TypeOK'
  BY <1>4, <1>5 DEF IInv, TypeOK, refuseUnstarted
<1>7. RoomOutlasts' /\ CapIsKept'
  BY <1>2, <1>3, <1>4, <1>5, CapKept
<1>8. \A d \in Caller : CallerKnows(d)'
  BY <1>2, <1>3, <1>5 DEF IInv, CallerKnows, refuseUnstarted, Inserting, Starting, Crashed, holdsWorkflow
<1>9. AdmittedRunIsKept' /\ \A x \in Run : RunGoes(x)'
  BY <1>5 DEF IInv, AdmittedRunIsKept, RunGoes, refuseUnstarted, Pending, holdsWorkflow, Crashed
<1> QED BY <1>4, <1>6, <1>7, <1>8, <1>9 DEF IInv

-----------------------------------------------------------------------------
(* Steps of a run, in which no caller moves.                               *)
LEMMA CallersStand ==
  ASSUME IInv, caller' = caller
  PROVE  RowLocked' /\ WorkspaceLocked' /\ caller' \in [Caller -> Call]
BY DEF IInv, TypeOK, RowLocked, WorkspaceLocked, LocksRow, Holding

LEMMA CourseKept ==
  ASSUME IInv, NEW r \in Run, enter(r) \/ stepStarted(r) \/ recordEnd(r)
  PROVE  IInv'
<1>1. caller' = caller /\ row' = row /\ condemned' = condemned /\ admitted' = admitted
  BY DEF enter, stepStarted, recordEnd
<1>2. workflow[r] \in {"saved", "entered", "finished"} /\ stepped' \in {stepped, stepped \cup {r}}
  BY DEF enter, stepStarted, recordEnd
<1>3. \A x \in Run : workflow'[x] = workflow[x] \/ (x = r /\ workflow'[r] \in {"entered", "ended", "barred"})
  BY DEF enter, stepStarted, recordEnd, Advance, IInv, TypeOK
<1>4. TypeOK'
  BY <1>1, <1>2 DEF IInv, TypeOK, enter, stepStarted, recordEnd, Advance, Workflow
<1>5. RoomOutlasts' /\ CapIsKept'
  BY <1>1, CallersStand, CapKept DEF Counted, Unfinished
<1>6. \A d \in Caller : CallerKnows(d)'
  BY <1>1, <1>3 DEF IInv, CallerKnows, Inserting, Starting, Crashed, holdsWorkflow
<1>7. AdmittedRunIsKept' /\ \A x \in Run : RunGoes(x)'
  BY <1>1, <1>2, <1>3 DEF IInv, AdmittedRunIsKept, RunGoes, Pending, holdsWorkflow, Crashed
<1> QED BY <1>1, <1>4, <1>5, <1>6, <1>7, CallersStand DEF IInv

(* An end is written while nobody has the row.                             *)
LEMMA EndKept ==
  ASSUME IInv, NEW r \in Run, runFinished(r) \/ cancelRun(r)
  PROVE  IInv'
<1>1. caller' = caller /\ RowFree(r) /\ condemned' = condemned /\ admitted' = admitted /\ stepped' = stepped
  BY DEF runFinished, cancelRun
<1>2. /\ row' \in [Run -> Row]
      /\ \A x \in Run : x # r => row'[x] = row[x]
      /\ row'[r].status = "cancelled" \/ (row'[r].status = "completed" /\ holdsWorkflow(r) /\ row[r].status # "cancelled")
      /\ Counted' \subseteq Counted
  BY <1>1, CallersStand, RowWritten
     DEF runFinished, cancelRun, IInv, TypeOK, Counted, Unfinished, holdsWorkflow
<1>3. /\ \A x \in Run : holdsWorkflow(x)' <=> holdsWorkflow(x)
      /\ \A x \in Run : Pending(x)' => Pending(x)
      /\ workflow' \in [Run -> Workflow]
  BY DEF runFinished, cancelRun, Advance, IInv, TypeOK, holdsWorkflow, Pending, Workflow
<1>4. TypeOK'
  BY <1>1, <1>2, <1>3 DEF IInv, TypeOK, runFinished, cancelRun
<1>5. RoomOutlasts' /\ CapIsKept'
  BY <1>1, <1>2, CallersStand, CapKept
<1>6. ASSUME NEW d \in Caller PROVE CallerKnows(d)'
  <2>1. ~(caller[d].at \in Inserting /\ caller[d].run = r)
    BY <1>1 DEF RowFree, LocksRow, Inserting
  <2> QED BY <1>1, <1>2, <1>3, <2>1 DEF IInv, CallerKnows, Starting, Inserting, Crashed
<1>7. AdmittedRunIsKept' /\ \A x \in Run : RunGoes(x)'
  BY <1>1, <1>2, <1>3 DEF IInv, AdmittedRunIsKept, RunGoes, Crashed
<1> QED BY <1>1, <1>4, <1>5, <1>6, <1>7, CallersStand DEF IInv

(* Nobody has armed a run that a pass is to end.                           *)
LEMMA AgeKept ==
  ASSUME IInv, NEW r \in Run, age(r)
  PROVE  IInv'
<1> DEFINE new == [row[r] EXCEPT !.old = TRUE]
<1>1. row[r] \in Row /\ new \in Row /\ new.status = "running" /\ new.rearmed = row[r].rearmed
  BY DEF age, IInv, TypeOK, Row
<1>2. row' = [row EXCEPT ![r] = new]
  BY DEF age
<1>3. \A x \in Run : row'[x] = IF x = r THEN new ELSE row[x]
  BY <1>2 DEF IInv, TypeOK
<1>4. caller' = caller /\ condemned' = condemned /\ workflow' = workflow /\ stepped' = stepped /\ admitted' = admitted
  BY DEF age
<1>5. TypeOK'
  BY <1>1, <1>2 DEF IInv, TypeOK, age
<1>6. RoomOutlasts' /\ CapIsKept'
  <2>1. Counted' \subseteq Counted
    BY <1>1, <1>3 DEF age, Counted, Unfinished
  <2> QED BY <1>4, <2>1, CallersStand, CapKept
<1>7. \A d \in Caller : CallerKnows(d)'
  <2>1. row[r].status = "running" /\ \A d \in Caller : caller[d].run = r => ~caller[d].armed
    BY DEF age
  <2> SUFFICES ASSUME NEW d \in Caller PROVE CallerKnows(d)'
    OBVIOUS
  <2>2. CallerKnows(d)
    BY DEF IInv
  <2>3. CASE caller[d].at = "idle"
    BY <1>4, <2>3 DEF CallerKnows, Inserting, Starting
  <2>4. CASE caller[d].at # "idle" /\ caller[d].run = r
    BY <1>1, <1>3, <1>4, <2>1, <2>2, <2>4 DEF CallerKnows, holdsWorkflow
  <2>5. CASE caller[d].at # "idle" /\ caller[d].run # r
    <3>1. caller[d].run \in Run
      BY <2>2, <2>5 DEF CallerKnows
    <3>2. row'[caller[d].run] = row[caller[d].run]
      BY <1>3, <2>5, <3>1
    <3> QED BY <1>4, <2>2, <3>2 DEF CallerKnows, Crashed, holdsWorkflow
  <2> QED BY <2>3, <2>4, <2>5
<1>8. AdmittedRunIsKept' /\ \A x \in Run : RunGoes(x)'
  BY <1>1, <1>3, <1>4 DEF age, IInv, AdmittedRunIsKept, RunGoes, Pending, holdsWorkflow, Crashed
<1> QED BY <1>4, <1>5, <1>6, <1>7, <1>8, CallersStand DEF IInv

LEMMA PassKept ==
  ASSUME IInv, NEW r \in Run, pass(r)
  PROVE  IInv'
<1>1. caller' = caller /\ row' = row /\ workflow' = workflow /\ stepped' = stepped /\ admitted' = admitted
  BY DEF pass
<1>2. RoomOutlasts' /\ CapIsKept'
  BY <1>1, CallersStand, CapKept DEF Counted, Unfinished
<1>3. TypeOK' /\ (\A d \in Caller : CallerKnows(d)') /\ AdmittedRunIsKept'
  BY <1>1 DEF pass, IInv, TypeOK, AdmittedRunIsKept, CallerKnows, Inserting, Starting, Crashed, Pending, holdsWorkflow
<1>4. \A x \in Run : RunGoes(x)'
  BY <1>1 DEF pass, IInv, RunGoes, Crashed, Pending, holdsWorkflow
<1> QED BY <1>1, <1>2, <1>3, <1>4, CallersStand DEF IInv

LEMMA ReapKept ==
  ASSUME IInv, NEW r \in Run, reap(r)
  PROVE  IInv'
<1>1. caller' = caller /\ condemned' = None /\ workflow' = workflow /\ stepped' = stepped /\ admitted' = admitted
  BY DEF reap
<1>2. /\ row' \in [Run -> Row]
      /\ \A x \in Run : row'[x] = row[x] \/ (x = r /\ Crashed(r) /\ row'[r].status = "reaped")
      /\ Counted' \subseteq Counted
  BY <1>1, CallersStand, RowWritten DEF reap, IInv, TypeOK, Counted, Unfinished
<1>3. Crashed(r) => ~Pending(r)
  BY DEF reap, IInv, RunGoes
<1>4. TypeOK'
  BY <1>1, <1>2 DEF IInv, TypeOK, reap
<1>5. RoomOutlasts' /\ CapIsKept'
  BY <1>1, <1>2, CallersStand, CapKept
<1>6. \A d \in Caller : CallerKnows(d)'
  BY <1>1, <1>2 DEF IInv, CallerKnows, Inserting, Starting, Crashed, holdsWorkflow
<1>7. AdmittedRunIsKept' /\ \A x \in Run : RunGoes(x)'
  BY <1>1, <1>2, <1>3, NoneAssumption DEF IInv, AdmittedRunIsKept, RunGoes, Pending, holdsWorkflow, Crashed
<1> QED BY <1>1, <1>4, <1>5, <1>6, <1>7, CallersStand DEF IInv

LEMMA CrashKept ==
  ASSUME IInv, crash
  PROVE  IInv'
<1>1. \A c \in Caller : caller'[c].at = "idle"
  BY DEF crash, Idle
<1>2. caller' \in [Caller -> Call] /\ RowLocked' /\ WorkspaceLocked'
  <2>1. Idle \in Call
    BY DEF Idle, Call
  <2> QED BY <1>1, <2>1 DEF crash, RowLocked, WorkspaceLocked, LocksRow, Holding
<1>3. \A r \in Run : row'[r] \in Row /\ row'[r].status = row[r].status /\ row'[r].rearmed = row[r].rearmed
  BY DEF crash, IInv, TypeOK, Row
<1>4. \A r \in Run : (holdsWorkflow(r)' <=> holdsWorkflow(r)) /\ (Pending(r)' <=> Pending(r)) /\ workflow'[r] \in Workflow
  BY DEF crash, IInv, TypeOK, holdsWorkflow, Pending, Workflow
<1>5. TypeOK'
  <2>1. row' \in [Run -> Row]
    BY <1>3 DEF crash
  <2>2. workflow' \in [Run -> Workflow]
    BY <1>4 DEF crash
  <2> QED BY <1>2, <2>1, <2>2, FaultAssumption DEF crash, Fault, IInv, TypeOK
<1>6. RoomOutlasts' /\ CapIsKept'
  <2>1. Counted' \subseteq Counted
    BY <1>3 DEF Counted, Unfinished
  <2> QED BY <1>1, <1>2, <2>1, CapKept
<1>7. \A c \in Caller : CallerKnows(c)'
  BY <1>1 DEF CallerKnows, Inserting, Starting
<1>8. AdmittedRunIsKept' /\ \A x \in Run : RunGoes(x)'
  BY <1>3, <1>4, NoneAssumption DEF crash, IInv, AdmittedRunIsKept, RunGoes
<1> QED BY <1>2, <1>5, <1>6, <1>7, <1>8 DEF IInv

LEMMA StutterKept == IInv /\ UNCHANGED vars => IInv'
<1> SUFFICES ASSUME IInv, UNCHANGED vars PROVE IInv'
  OBVIOUS
<1>1. RoomOutlasts' /\ CapIsKept'
  BY CallersStand, CapKept DEF vars, Counted, Unfinished
<1> QED BY <1>1, CallersStand
     DEF vars, IInv, TypeOK, AdmittedRunIsKept, CallerKnows, RunGoes, Inserting, Starting, Crashed, Pending, holdsWorkflow

LEMMA NextKept == IInv /\ [Next]_vars => IInv'
<1> SUFFICES ASSUME IInv, [Next]_vars PROVE IInv'
  OBVIOUS
<1>1. ASSUME NEW c \in Caller, NEW r \in Run, insertRun(c, r) PROVE IInv'
  BY <1>1, InsertKept
<1>2. ASSUME NEW c \in Caller, Admission(c) PROVE IInv'
  BY <1>2, LockWorkspaceKept, RoomKept, CommitKept, StartAdmittedKept, RearmAskedKept, RearmKept,
     StartDurablyKept, SaveFailsKept, RefuseAskedKept, RefuseKept DEF Admission
<1>3. ASSUME NEW r \in Run, Course(r) \/ cancelRun(r) \/ Reaper(r) PROVE IInv'
  BY <1>3, CourseKept, EndKept, AgeKept, PassKept, ReapKept DEF Course, Reaper
<1> QED BY <1>1, <1>2, <1>3, CrashKept, StutterKept DEF Next

-----------------------------------------------------------------------------
THEOREM InvariantHolds == Spec => []IInv
BY InitIInv, NextKept, PTL DEF Spec

(* Rows, workflows and callers are well formed.                            *)
THEOREM TypeCorrect == Spec => []TypeOK
<1>1. IInv => TypeOK
  BY DEF IInv
<1> QED BY <1>1, InvariantHolds, PTL

(* However many admissions race for a workspace's last place, they never   *)
(* pass its cap together, through crashes and failed starts.               *)
THEOREM CapHolds == Spec => []CapIsKept
<1>1. IInv => CapIsKept
  BY DEF IInv
<1> QED BY <1>1, InvariantHolds, PTL

(* No crash, failed save or pass of the reaper loses a run its caller was  *)
(* told is admitted, or ends it while its workflow is on its way.          *)
THEOREM AdmittedRunsAreKept == Spec => []AdmittedRunIsKept
<1>1. IInv => AdmittedRunIsKept
  BY DEF IInv
<1> QED BY <1>1, InvariantHolds, PTL
=============================================================================
