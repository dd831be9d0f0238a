----------------------------- MODULE RunSequencer -----------------------------
(***************************************************************************)
(* One durable run of the sequenced engine: its lanes, the turn they take, *)
(* the operations they issue to DBOS and the order those settle in         *)
(* (run-sequencer.ts, sequenced-durable-step.ts).                          *)
(*                                                                         *)
(* DBOS records what an operation came to under its function id, its place *)
(* among all the operations the execution issues.  A process that dies     *)
(* loses everything else; the run is executed again from its beginning,    *)
(* and an operation that was recorded comes to the same, at any moment     *)
(* after it is issued.  Lane code is arbitrary but deterministic: Code     *)
(* says what a lane does next from what it was handed so far.              *)
(*                                                                         *)
(* An action is what runs between two awaits.  What a lane does between    *)
(* two operations it does while it holds the turn.                         *)
(***************************************************************************)
EXTENDS Naturals, SequencesExt

CONSTANTS
  Lane,        \* names of lanes, each spawned once
  Root,        \* the run's first lane
  Key,         \* names of steps and waits
  Code(_, _),  \* what a lane does next
  None,        \* undefined, null
  MaxCrashes   \* bound: how often the process dies

\* A run spawns finitely many lanes.
ASSUME LaneAssumption == Root \in Lane /\ None \notin Lane /\ IsFiniteSet(Lane)
ASSUME CrashAssumption == MaxCrashes \in Nat

VARIABLES
  lanes,      \* per lane: its phase, what it was handed, its operation, whom it joins
  ended,      \* lanes in the order they ended
  turn,       \* the lane that holds the turn
  runnable,   \* wakes: lanes ready to run once granted the turn
  scheduled,  \* a grantNext is queued as a microtask
  inFlight,   \* lanes with an operation in flight, in the order of issue
  quiesce,    \* what the sequencer waits for while no lane can run
  poison,     \* what the run failed with
  nextIndex,  \* operations given an index so far
  nextSched,  \* sched records asked for so far
  issued,     \* names of the operations this execution issued; the last's place is its function id
  log,        \* DBOS: what was recorded, by function id
  status,     \* "running" until run() settles
  history,    \* the longest an execution came, to state what a replay must do
  crashes     \* how often the process died

engine == <<lanes, ended, turn, runnable, scheduled, inFlight, quiesce, poison,
            nextIndex, nextSched>>
vars == <<engine, issued, log, status, history, crashes>>

Idle == [phase |-> "idle", pending |-> <<>>, id |-> 0, chosen |-> {}]
Unborn == [phase |-> "unborn", seen |-> <<>>, unit |-> None, on |-> {}]

Command(l) == Code(l, lanes[l].seen)
Phase(l) == lanes[l].phase
UnitOf(l) == lanes[l].unit
Names(pending) == [i \in DOMAIN pending |-> UnitOf(pending[i]).name]
Wake(l, completed) == [lane |-> l, completed |-> completed]

-----------------------------------------------------------------------------
(* DBOS.                                                                   *)

Reserve(name) ==
  /\ issued' = Append(issued, name)
  /\ history' = IF Len(issued) = Len(history) THEN issued' ELSE history

Recorded(id) == id \in DOMAIN log
Entry(name, value, names, settled) ==
  [name |-> name, value |-> value, inFlight |-> names, settled |-> settled]
Record(id, entry) == log' = [i \in DOMAIN log \cup {id} |-> IF i = id THEN entry ELSE log[i]]

Errors == {"error", "unexpected"}
Values(unit) == IF unit.owned THEN {"answered", "timeout"} ELSE {"ok", "failed"}

(* What an operation comes to: what was recorded, if it was; a step whose  *)
(* name is not the recorded one is refused; DBOS may fail, and a failure   *)
(* that is no step body's own may or may not be recorded.                  *)
SettlesTo(unit, value) ==
  \/ /\ Recorded(unit.id)
     /\ value = IF ~unit.owned /\ log[unit.id].name # unit.name THEN "unexpected"
                ELSE log[unit.id].value
     /\ UNCHANGED log
  \/ /\ ~Recorded(unit.id) /\ value \in Values(unit) \cup {"error"}
     /\ Record(unit.id, Entry(unit.name, value, <<>>, {}))
  \/ value = "error" /\ UNCHANGED log

-----------------------------------------------------------------------------
(* The fault state.  What has settled is handed over; a receive or a sleep *)
(* is given up; a step body still runs, and its lane waits for it; whoever *)
(* else waits is refused.  A lane given back its code so may still finish  *)
(* what it is at, but not ask for anything.                                *)
hand(lane) ==
  [lane EXCEPT !.seen = Append(@, lane.unit.outcome), !.unit = None, !.phase = "running"]

GiveUp(lane) == [lane EXCEPT !.unit = None, !.phase = "running"]
RunsBody(lane) == lane.unit # None /\ ~lane.unit.owned /\ lane.unit.outcome = None

\* Mutant: an operation that settled while its lane could not run is dropped.
RefuseSettled(lane) ==
  IF lane.phase = "awaiting" /\ RunsBody(lane) THEN lane
  ELSE IF lane.phase \in {"awaiting", "joining", "woken"} THEN GiveUp(lane)
  ELSE IF lane.phase = "queued" THEN [lane EXCEPT !.phase = "ended"]
  ELSE lane

Refuse(lane) ==
  IF lane.phase = "awaiting" /\ lane.unit.outcome # None THEN hand(lane)
  ELSE IF lane.phase = "awaiting" /\ RunsBody(lane) THEN lane
  ELSE IF lane.phase \in {"awaiting", "joining", "woken"} THEN GiveUp(lane)
  ELSE IF lane.phase = "queued" THEN [lane EXCEPT !.phase = "ended"]
  ELSE lane

Poisoned == poison # None

\* `as`: the lanes as they are when the run fails.
fail(error, as) ==
  /\ poison' = error
  /\ lanes' = [l \in Lane |-> Refuse(as[l])]
  /\ turn' = None /\ runnable' = <<>> /\ scheduled' = FALSE /\ inFlight' = <<>>
  /\ quiesce' = IF quiesce.phase = "recording" THEN quiesce ELSE Idle

Fault(value) == IF value = "unexpected" THEN "diverged" ELSE "error"

-----------------------------------------------------------------------------
Holds(l) == ~Poisoned /\ turn = l /\ Phase(l) = "running"

release == turn' = None /\ scheduled' = TRUE

Fresh == [l \in Lane |-> IF l = Root THEN [Unborn EXCEPT !.phase = "running"] ELSE Unborn]

Init ==
  /\ lanes = Fresh /\ ended = <<>> /\ turn = Root /\ runnable = <<>> /\ scheduled = FALSE
  /\ inFlight = <<>> /\ quiesce = Idle /\ poison = None /\ nextIndex = 0 /\ nextSched = 0
  /\ issued = <<>> /\ history = <<>> /\ crashes = 0 /\ status = "running"
  /\ log = [id \in {} |-> None]

(* The lane keeps the turn; the new one, which is no other by its name,    *)
(* starts when the turn reaches it.                                        *)
spawn(l) ==
  /\ Holds(l)
  /\ \E new \in Lane :
       /\ Command(l) = [do |-> "spawn", lane |-> new] /\ Phase(new) = "unborn"
       /\ lanes' = [lanes EXCEPT ![l].seen = Append(@, new), ![new].phase = "queued"]
       /\ runnable' = Append(runnable, Wake(new, FALSE))
  /\ UNCHANGED <<ended, turn, scheduled, inFlight, quiesce, poison, nextIndex, nextSched,
                 issued, log, status, history, crashes>>

\* The unit takes its index and its function id as it is called.
issue(l, name, owned, phase) ==
  /\ Reserve(name)
  /\ lanes' = [lanes EXCEPT ![l].phase = phase,
       ![l].unit = [name |-> name, owned |-> owned, index |-> nextIndex,
                    id |-> Len(issued) + 1, outcome |-> None]]
  /\ nextIndex' = nextIndex + 1
  /\ inFlight' = Append(inFlight, l)

step(l) ==
  /\ Holds(l)
  /\ \E key \in Key :
       /\ Command(l) = [do |-> "step", key |-> key]
       /\ issue(l, <<"step", key>>, FALSE, "awaiting")
  /\ release
  /\ UNCHANGED <<ended, runnable, quiesce, poison, nextSched, log, status, crashes>>

(* wait and delay: the step that records the deadline is awaited in turn.  *)
issueHead(l) ==
  /\ Holds(l)
  /\ \E key \in Key :
       /\ Command(l) = [do |-> "wait", key |-> key]
       /\ Reserve(<<"wait", key>>)
       /\ lanes' = [lanes EXCEPT ![l].phase = "head",
            ![l].unit = [name |-> <<"wait", key>>, owned |-> FALSE, index |-> nextIndex,
                         id |-> Len(issued) + 1, outcome |-> None]]
  /\ UNCHANGED <<ended, turn, runnable, scheduled, inFlight, quiesce, poison, nextIndex,
                 nextSched, log, status, crashes>>

(* Then the receive or the sleep is issued, and its park hook runs, still  *)
(* in turn.  The head has no failure of its own.                           *)
inTurn(l, value) ==
  /\ Phase(l) = "head"
  /\ SettlesTo(UnitOf(l), value) /\ value # "failed"
  /\ IF Poisoned
     THEN /\ lanes' = [lanes EXCEPT ![l] = GiveUp(@)]
          /\ UNCHANGED <<turn, runnable, scheduled, inFlight, quiesce, poison, nextIndex,
                         issued, history>>
     ELSE IF value \in Errors
     THEN /\ fail(Fault(value), [lanes EXCEPT ![l] = GiveUp(@)])
          /\ UNCHANGED <<nextIndex, issued, history>>
     ELSE /\ issue(l, UnitOf(l).name, TRUE, "parking")
          /\ UNCHANGED <<turn, runnable, scheduled, quiesce, poison>>
  /\ UNCHANGED <<ended, nextSched, status, crashes>>

awaitParked(l) ==
  /\ Phase(l) = "parking"
  /\ IF Poisoned
     THEN /\ lanes' = [lanes EXCEPT ![l] = IF @.unit.outcome # None THEN hand(@) ELSE GiveUp(@)]
          /\ UNCHANGED <<turn, scheduled>>
     ELSE lanes' = [lanes EXCEPT ![l].phase = "awaiting"] /\ release
  /\ UNCHANGED <<ended, runnable, inFlight, quiesce, poison, nextIndex, nextSched,
                 issued, log, status, history, crashes>>

(* An operation in flight settles; anything but a step body's own failure  *)
(* fails the run.                                                          *)
settle(l, value) ==
  /\ ~Poisoned /\ l \in ToSet(inFlight) /\ UnitOf(l).outcome = None
  /\ SettlesTo(UnitOf(l), value)
  /\ LET as == [lanes EXCEPT ![l].unit.outcome = value]
     IN  IF value \in Errors THEN fail(Fault(value), as)
         ELSE lanes' = as /\ UNCHANGED <<turn, runnable, scheduled, inFlight, quiesce, poison>>
  /\ UNCHANGED <<ended, nextIndex, nextSched, issued, status, history, crashes>>

(* A body that was left running ends; its lane, if it waits, is handed it. *)
settleDraining(l, value) ==
  /\ Poisoned /\ RunsBody(lanes[l]) /\ Phase(l) # "head"
  /\ SettlesTo(UnitOf(l), value)
  /\ lanes' = [lanes EXCEPT ![l] =
       IF @.phase = "awaiting" THEN hand([@ EXCEPT !.unit.outcome = value])
       ELSE [@ EXCEPT !.unit.outcome = value]]
  /\ UNCHANGED <<ended, turn, runnable, scheduled, inFlight, quiesce, poison, nextIndex,
                 nextSched, issued, status, history, crashes>>

-----------------------------------------------------------------------------
(* Joins.  One lane at most joins another: the one that spawned it.        *)
Join(l, on) ==
  /\ lanes' = [lanes EXCEPT ![l].phase = "joining", ![l].on = on]
  /\ release

FirstEnded(on) == ended[Min({i \in DOMAIN ended : ended[i] \in on})]

joinAny(l) ==
  /\ Holds(l)
  /\ \E on \in SUBSET Lane :
       /\ Command(l) = [do |-> "joinAny", on |-> on]
       /\ IF on \cap ToSet(ended) = {} THEN Join(l, on)
          ELSE /\ lanes' = [lanes EXCEPT ![l].seen = Append(@, FirstEnded(on))]
               /\ UNCHANGED <<turn, scheduled>>
  /\ UNCHANGED <<ended, runnable, inFlight, quiesce, poison, nextIndex, nextSched,
                 issued, log, status, history, crashes>>

joinAll(l) ==
  /\ Holds(l)
  /\ \E on \in SUBSET Lane :
       /\ Command(l) = [do |-> "joinAll", on |-> on]
       /\ IF on \ ToSet(ended) # {} THEN Join(l, on \ ToSet(ended))
          ELSE /\ lanes' = [lanes EXCEPT ![l].seen = Append(@, "all")]
               /\ UNCHANGED <<turn, scheduled>>
  /\ UNCHANGED <<ended, runnable, inFlight, quiesce, poison, nextIndex, nextSched,
                 issued, log, status, history, crashes>>

Joiners(l) == {j \in Lane : Phase(j) = "joining" /\ l \in lanes[j].on}

(* A lane ends, and whoever joins it is to run again; the end of joinAny   *)
(* is what it is handed.                                                   *)
endLane(l) ==
  /\ Holds(l) /\ Command(l).do = "end" /\ l # Root
  /\ ended' = Append(ended, l)
  /\ lanes' = [j \in Lane |->
       CASE j = l -> [lanes[l] EXCEPT !.phase = "ended"]
         [] j \in Joiners(l) -> [lanes[j] EXCEPT !.phase = "woken", !.on = {},
              !.seen = IF Command(j).do = "joinAny" THEN Append(@, l) ELSE @]
         [] OTHER -> lanes[j]]
  /\ runnable' = runnable \o [i \in 1..Cardinality(Joiners(l)) |->
                                 Wake(SetToSeq(Joiners(l))[i], FALSE)]
  /\ release
  /\ UNCHANGED <<inFlight, quiesce, poison, nextIndex, nextSched, issued, log, status,
                 history, crashes>>

(* A lane's own code ends the run: it read that the run was cancelled.     *)
endLaneFatal(l) ==
  /\ Holds(l) /\ l # Root
  /\ ended' = Append(ended, l)
  /\ fail("error", [lanes EXCEPT ![l].phase = "ended"])
  /\ UNCHANGED <<nextIndex, nextSched, issued, log, status, history, crashes>>

\* Without the turn, a lane can only end.
unwind(l) ==
  /\ Poisoned /\ Phase(l) = "running"
  /\ lanes' = [lanes EXCEPT ![l].phase = "ended"]
  /\ ended' = Append(ended, l)
  /\ UNCHANGED <<turn, runnable, scheduled, inFlight, quiesce, poison, nextIndex, nextSched,
                 issued, log, status, history, crashes>>

-----------------------------------------------------------------------------
(* The turn: first in, first out.  When no lane can run, the sequencer     *)
(* waits for an operation to settle.                                       *)
grantNext ==
  /\ scheduled /\ ~Poisoned /\ turn = None
  /\ scheduled' = FALSE
  /\ IF runnable # <<>>
     THEN LET wake == Head(runnable)
              lane == lanes[wake.lane]
          IN  /\ turn' = wake.lane
              /\ runnable' = Tail(runnable)
              /\ lanes' = [lanes EXCEPT ![wake.lane] =
                   IF wake.completed THEN hand(lane) ELSE [lane EXCEPT !.phase = "running"]]
              /\ UNCHANGED quiesce
     ELSE /\ quiesce.phase = "idle" /\ inFlight # <<>>
          /\ quiesce' = [Idle EXCEPT !.phase = "watching"]
          /\ UNCHANGED <<lanes, turn, runnable>>
  /\ UNCHANGED <<ended, inFlight, poison, nextIndex, nextSched, issued, log, status,
                 history, crashes>>

Settled == {l \in ToSet(inFlight) : UnitOf(l).outcome # None}
Indexes(S) == {UnitOf(l).index : l \in S}

\* The members of seq in S, in their order.  (As SelectSeq, which proofs know nothing of.)
Only(seq, S) ==
  LET only[i \in 0..Len(seq)] ==
        IF i = 0 THEN <<>>
        ELSE IF seq[i] \in S THEN Append(only[i - 1], seq[i]) ELSE only[i - 1]
  IN  only[Len(seq)]

InOrder(S) == Only(inFlight, S)
Rest(S) == Only(inFlight, ToSet(inFlight) \ S)

\* Mutant: nobody is granted the turn once operations are delivered.
deliverOnly(S) ==
  /\ inFlight' = Rest(S)
  /\ runnable' = runnable \o [i \in DOMAIN InOrder(S) |-> Wake(InOrder(S)[i], TRUE)]
  /\ quiesce' = Idle
  /\ UNCHANGED scheduled

\* Mutant: of the operations that settled together, the first wakes its lane.
deliverFirst(S) ==
  /\ inFlight' = Rest(S)
  /\ runnable' = runnable \o [i \in DOMAIN InOrder(S) \cap {1} |-> Wake(InOrder(S)[i], TRUE)]
  /\ quiesce' = Idle
  /\ scheduled' = TRUE

deliver(S) ==
  /\ inFlight' = Rest(S)
  /\ runnable' = runnable \o [i \in DOMAIN InOrder(S) |-> Wake(InOrder(S)[i], TRUE)]
  /\ quiesce' = Idle
  /\ scheduled' = TRUE

(* One operation in flight is delivered as it settles; of several, which   *)
(* had settled is first put on record.                                     *)
quiesceSettled ==
  /\ quiesce.phase = "watching" /\ Settled # {}
  /\ IF Len(inFlight) = 1
     THEN deliver(Settled) /\ UNCHANGED <<nextSched, issued, history>>
     ELSE /\ Reserve(<<"sched", nextSched>>)
          /\ nextSched' = nextSched + 1
          /\ quiesce' = [phase |-> "recording", id |-> Len(issued) + 1,
                         pending |-> Names(inFlight), chosen |-> Indexes(Settled)]
          /\ UNCHANGED <<inFlight, runnable, scheduled>>
  /\ UNCHANGED <<lanes, ended, turn, poison, nextIndex, log, status, crashes>>

SchedName == issued[quiesce.id]

\* Mutant: what this execution observed is followed, whatever is on record.
Observed(id) == Entry(SchedName, "ok", quiesce.pending, quiesce.chosen)

Decision(id) ==
  IF Recorded(id) THEN log[id] ELSE Entry(SchedName, "ok", quiesce.pending, quiesce.chosen)

FollowsRecord(decision) ==
  /\ decision.name = SchedName
  /\ decision.inFlight = quiesce.pending
  /\ decision.settled \subseteq Indexes(ToSet(inFlight))

deliverRecorded ==
  /\ quiesce.phase = "recording"
  /\ IF Recorded(quiesce.id) THEN UNCHANGED log ELSE Record(quiesce.id, Decision(quiesce.id))
  /\ IF Poisoned
     THEN /\ quiesce' = Idle
          /\ UNCHANGED <<lanes, turn, runnable, scheduled, inFlight, poison>>
     ELSE IF FollowsRecord(Decision(quiesce.id))
     THEN /\ quiesce' = [quiesce EXCEPT !.phase = "following",
                                        !.chosen = Decision(quiesce.id).settled]
          /\ UNCHANGED <<lanes, turn, runnable, scheduled, inFlight, poison>>
     ELSE fail("diverged", lanes)
  /\ UNCHANGED <<ended, nextIndex, nextSched, issued, status, history, crashes>>

follow ==
  /\ quiesce.phase = "following"
  /\ quiesce.chosen \subseteq Indexes(Settled)
  /\ deliver({l \in Settled : UnitOf(l).index \in quiesce.chosen})
  /\ UNCHANGED <<lanes, ended, turn, poison, nextIndex, nextSched, issued, log, status,
                 history, crashes>>

-----------------------------------------------------------------------------
(* run(): the run is over with its first lane, which fails it where other  *)
(* lanes still run (a router's condition threw in it); a failed one when   *)
(* every other lane has ended too and no record is on its way.             *)
runCompletes ==
  /\ status = "running" /\ Holds(Root) /\ Command(Root).do = "end"
  /\ IF \A l \in Lane \ {Root} : Phase(l) \in {"unborn", "ended"}
     THEN /\ status' = "completed"
          /\ lanes' = [lanes EXCEPT ![Root].phase = "ended"]
          /\ turn' = None
          /\ UNCHANGED <<runnable, scheduled, inFlight, quiesce, poison>>
     ELSE fail("unfinished", [lanes EXCEPT ![Root].phase = "ended"]) /\ UNCHANGED status
  /\ UNCHANGED <<ended, nextIndex, nextSched, issued, log, history, crashes>>

runFails ==
  /\ status = "running" /\ Poisoned
  /\ \A l \in Lane : Phase(l) \in {"unborn", "ended"}
  /\ quiesce.phase # "recording"
  /\ status' = "failed"
  /\ UNCHANGED <<engine, issued, log, history, crashes>>

(* The process dies, and DBOS recovers the run in another.                 *)
crash ==
  /\ status = "running" /\ crashes < MaxCrashes
  /\ crashes' = crashes + 1
  /\ lanes' = Fresh /\ ended' = <<>> /\ turn' = Root /\ runnable' = <<>> /\ scheduled' = FALSE
  /\ inFlight' = <<>> /\ quiesce' = Idle /\ poison' = None /\ nextIndex' = 0 /\ nextSched' = 0
  /\ issued' = <<>>
  /\ UNCHANGED <<log, status, history>>

Outcome == {"ok", "failed", "answered", "timeout"} \cup Errors

Unit == [name : {"step", "wait"} \X Key, owned : BOOLEAN, index : Nat, id : Nat,
         outcome : Outcome \cup {None}]

\* A DeterminismError says that the run diverged, or that its first lane ended early.
Faults == {"error", "diverged", "unfinished"}

ASSUME NoneAssumption == None \notin Outcome \cup Faults \cup Unit

Runs ==
  \/ \E l \in Lane : \/ spawn(l) \/ step(l) \/ issueHead(l) \/ awaitParked(l)
                      \/ joinAny(l) \/ joinAll(l) \/ endLane(l) \/ unwind(l)
  \/ \E l \in Lane, value \in Outcome : inTurn(l, value) \/ settle(l, value) \/ settleDraining(l, value)
  \/ grantNext \/ quiesceSettled \/ deliverRecorded \/ follow \/ runCompletes \/ runFails

Next == Runs \/ crash \/ \E l \in Lane : endLaneFatal(l)

Spec == Init /\ [][Next]_vars

(* While the process is up, its event loop goes on, and DBOS answers every *)
(* call: a receive and a sleep have a deadline.                            *)
FairSpec == Spec /\ WF_vars(Runs)

-----------------------------------------------------------------------------
(* Properties.                                                             *)

Phases ==
  {"unborn", "queued", "running", "head", "parking", "awaiting", "joining", "woken", "ended"}

(* Types, and that a lane with an operation in flight is one that waits    *)
(* for it: no operation is left without a lane to take it (awaitParked).   *)
TypeOK ==
  /\ \A l \in Lane : Phase(l) \in Phases /\ lanes[l].on \subseteq Lane
  /\ \A l \in Lane : UnitOf(l) = None \/ UnitOf(l).outcome \in Outcome \cup {None}
  /\ \A l \in ToSet(inFlight) : Phase(l) \in {"parking", "awaiting"} /\ UnitOf(l) # None
  /\ IsInjective(inFlight) /\ IsInjective(ended)
  /\ turn \in Lane \cup {None}
  /\ quiesce.phase \in {"idle", "watching", "recording", "following"}
  /\ poison \in {None} \cup Faults
  /\ status \in {"running", "completed", "failed"}
  /\ DOMAIN log \subseteq DOMAIN history /\ crashes \in 0..MaxCrashes

(* Deterministic lanes never diverge from their record, wherever the       *)
(* process died and in whatever order operations settle again: no run is   *)
(* failed for an operation or a decision its history does not hold.        *)
NeverDiverges == poison # "diverged"

(* No wake-up is lost: a lane that waits is where its wake-up will come    *)
(* from, whatever settled or ended while it went to wait, nobody joins a   *)
(* lane that has ended, and somebody is granting a turn nobody holds, or   *)
(* watching what is in flight.  In a run that fails everybody goes on, or  *)
(* waits for a step body that still runs.                                  *)
NobodyForgotten ==
  status = "running" =>
    IF Poisoned
    THEN \A l \in Lane : \/ Phase(l) \in {"unborn", "running", "head", "parking", "ended"}
                         \/ Phase(l) = "awaiting" /\ RunsBody(lanes[l])
    ELSE /\ \A l \in Lane :
              /\ Phase(l) = "awaiting" => l \in ToSet(inFlight) \/ Wake(l, TRUE) \in ToSet(runnable)
              /\ Phase(l) \in {"queued", "woken"} => Wake(l, FALSE) \in ToSet(runnable)
              /\ Phase(l) = "joining" => \A m \in lanes[l].on : Phase(m) # "ended"
         /\ turn = None => scheduled \/ (quiesce.phase # "idle" /\ inFlight # <<>>)

(* An operation that settled is handed to its lane, even when the run      *)
(* fails before the lane could be granted the turn: its lane may still     *)
(* write what came of it (fail).                                           *)
SettledIsHanded ==
  [][\A l \in Lane :
       /\ crashes' = crashes
       /\ UnitOf(l) # None /\ UnitOf(l).outcome \notin {None} \cup Errors
       /\ UnitOf(l)' = None
       => lanes'[l].seen = Append(lanes[l].seen, UnitOf(l).outcome)]_vars

(* All executions of a run walk one history of operations.                 *)
Operations == INSTANCE OperationLog
ImplementsLog == Operations!Spec

(* Every run ends, however its lanes take turns, join and fail: no lane    *)
(* waits for a turn nobody will grant, or for an operation nobody watches. *)
RunEnds == <>(status # "running")
=============================================================================
