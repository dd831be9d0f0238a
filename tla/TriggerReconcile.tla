-------------------------- MODULE TriggerReconcile --------------------------
(* The trigger activations of one workflow in one environment: what the    *)
(* version its pointer names asks for, what the activation rows record,    *)
(* and what is really set up at the apps.  A reconcile applies the         *)
(* difference one activation at a time under the activation's lock, which  *)
(* a poll takes too; a webhook delete that fails or is not answered in     *)
(* time is retried beside the reconciles, kept apart from a stand-up of    *)
(* the same webhook by the in-process delete fence.                        *)
(*                                                                         *)
(* A setup is the descriptor of a trigger (type, props, account, URL).  An *)
(* app upserts, handing a registration at the environment's one URL the    *)
(* handle of the one before, or refuses a second webhook there, or does    *)
(* neither.  What a call that failed came to at the app is not known: it   *)
(* may have been made.  Every trigger's slot serves it and its account is  *)
(* active: held triggers and credentials an app rejects for good are left  *)
(* out.                                                                    *)
EXTENDS Integers, FiniteSets

CONSTANTS
  Key,          \* the trigger nodes: one activation each
  Setup,        \* the descriptors a trigger can have
  Polling,      \* those that poll; the rest register a webhook
  AppOf,        \* the app of a setup
  Upserts,      \* the apps that hand a registration the old handle
  Refuses,      \* the apps that refuse a second webhook at one address
  Silent,       \* the apps whose failed delete reads as made
  Version,      \* the versions the environment's pointer can name
  TriggerOf,    \* the trigger a version has at a node, or None
  None,
  \* Bounds: pointer moves, failures (an app's error or silence, a poll's failed
  \* admission), process deaths, and events polled.
  MaxMoves, MaxFailures, MaxCrashes, MaxEvents

ASSUME SetupAssumption ==
  /\ IsFiniteSet(Key)
  /\ Polling \subseteq Setup
  /\ TriggerOf \in [Version -> [Key -> Setup \cup {None}]]
  /\ Upserts \cap Refuses = {}

VARIABLES
  pointer,      \* the version the environment answers with
  rows,         \* per node, its activation row: the setup last applied and the one live
  store,        \* per node, the activation's store: poll cursor, epoch and webhook
  webhooks,     \* the webhooks that exist at the apps
  retired,      \* trigger_retired_webhooks
  fence,        \* the deletes under way in this process
  rec,          \* the reconcile under way
  work,         \* the retries of pending deletes: the queue's and a stand-up's own
  poll,         \* the poll under way
  events,       \* events the polled app has had
  runs,         \* the runs polls admitted, by the name they run under
  lost,         \* webhooks left at an app and on record nowhere
  count         \* moves, failures and crashes so far

vars == <<pointer, rows, store, webhooks, retired, fence, rec, work, poll, events, runs, lost, count>>

App == {AppOf[s] : s \in Setup}
Handle == App \X Nat
Entry == [id : Nat, handle : Handle]
Retrier == {"queue", "landing"}

Delete == [handle : Handle, by : {"teardown", "late"} \cup Retrier]

Row == [setup : Setup, live : Setup \cup {None}]
Run == [key : Key, epoch : Nat, event : Nat]
Poll == [key : Key, next : Nat, upto : Nat, epoch : Nat, at : {"admit", "epoch"}]

\* None is null: no name, number, handle or record.
ASSUME NoneAssumption == None \notin Key \cup Setup \cup Version \cup Nat \cup Handle \cup Entry \cup Row \cup Poll

EmptyStore == [cursor |-> None, epoch |-> None, hook |-> None]
NoWork == [at |-> "idle", key |-> None, want |-> [k \in Key |-> None], todo |-> {}, pending |-> {},
           hook |-> None, finished |-> {}, awaits |-> {}, again |-> FALSE]
Resting == [at |-> "rest", entry |-> None, todo |-> {}, app |-> None, awaits |-> {}]

\* A name of which nothing in S has been given.
Unused(S) == CHOOSE n \in 1..(Cardinality(S) + 1) : n \notin S

Count(c) == count' = [count EXCEPT ![c] = @ + 1]
Failing == count.failures < MaxFailures /\ Count("failures")

(* The activation's advisory lock: held by the reconcile applying it or by *)
(* the poll reading it.                                                    *)
Applying(k) == rec.key = k
Polled(k) == poll # None /\ poll.key = k

-----------------------------------------------------------------------------
(* Pointers and plans.                                                     *)

(* deriveDesiredActivations: the triggers of the version the pointer names. *)
deriveDesiredActivations(v) == IF v = None THEN [k \in Key |-> None] ELSE TriggerOf[v]

applyFinished(k) == rows[k].setup = rows[k].live

\* Mutant: a row counts for what it says, whether or not its apply finished.
rowSays(k, s) == rows[k].setup = s

isLive(k, s) == applyFinished(k) /\ rows[k].live = s

(* reconcileActivations: the nodes whose row is not what is desired.  Rows *)
(* to create are applied first, then those to update, then to delete.      *)
reconcileActivations(want) ==
  {k \in Key : IF rows[k] = None THEN want[k] # None ELSE ~isLive(k, want[k])}

ToCreate == {k \in rec.todo : rows[k] = None}
ToUpdate == {k \in rec.todo : rows[k] # None /\ rec.want[k] # None}
ToDelete == {k \in rec.todo : rows[k] # None /\ rec.want[k] = None}

Next1(at) == rec' = [rec EXCEPT !.at = at]

(* The lock is released and the reconcile goes on to its next activation.  *)
Applied == rec' = [NoWork EXCEPT !.at = "plan", !.want = rec.want, !.pending = rec.pending,
                                 !.todo = rec.todo \ {rec.key}]

movePointer(v) ==
  /\ count.moves < MaxMoves
  /\ v # pointer
  /\ pointer' = v
  /\ Count("moves")
  /\ UNCHANGED <<rows, store, webhooks, retired, fence, rec, work, poll, events, runs, lost>>

(* A reconcile, asked for by a pointer move or the sweep: it reads the     *)
(* pending deletes, the pointer and the rows, with no lock.                *)
reconcileOnce ==
  /\ rec.at = "idle"
  /\ LET want == deriveDesiredActivations(pointer)
     IN  rec' = [rec EXCEPT !.at = "plan", !.want = want, !.pending = retired,
                            !.todo = reconcileActivations(want)]
  /\ UNCHANGED <<pointer, rows, store, webhooks, retired, fence, work, poll, events, runs, lost, count>>

(* applyCreate inserts the row only while the pointer it serves is there.  *)
applyCreate(k) ==
  /\ rec.at = "plan" /\ k \in ToCreate
  /\ \/ /\ pointer # None
        /\ rows' = [rows EXCEPT ![k] = [setup |-> rec.want[k], live |-> None]]
        /\ rec' = [rec EXCEPT !.at = "materialize", !.key = k]
     \/ /\ pointer = None
        /\ rec' = [rec EXCEPT !.todo = @ \ {k}]
        /\ UNCHANGED rows
  /\ UNCHANGED <<pointer, store, webhooks, retired, fence, work, poll, events, runs, lost, count>>

(* applyUpdate writes the row before its side effects, then tears down     *)
(* what is live and stands up what is desired.                             *)
applyUpdate(k) ==
  /\ rec.at = "plan" /\ ToCreate = {} /\ k \in ToUpdate
  /\ ~Polled(k)
  /\ rows' = [rows EXCEPT ![k].setup = rec.want[k]]
  /\ rec' = [rec EXCEPT !.at = "teardown", !.key = k]
  /\ UNCHANGED <<pointer, store, webhooks, retired, fence, work, poll, events, runs, lost, count>>

applyDelete(k) ==
  /\ rec.at = "plan" /\ ToCreate \cup ToUpdate = {} /\ k \in ToDelete
  /\ ~Polled(k)
  /\ rec' = [rec EXCEPT !.at = "teardown", !.key = k]
  /\ UNCHANGED <<pointer, rows, store, webhooks, retired, fence, work, poll, events, runs, lost, count>>

\* Mutant: the retries of pending deletes are left to nobody.
queueNothing ==
  /\ rec.at = "plan" /\ rec.todo = {}
  /\ rec' = NoWork
  /\ UNCHANGED <<pointer, rows, store, webhooks, retired, fence, work, poll, events, runs, lost, count>>

(* The plan is applied: the pending deletes read at its start are queued   *)
(* for a retry, but for those queued already.                              *)
queueRetries ==
  LET retrying == work["queue"].todo \cup {work["queue"].entry}
  IN  /\ rec.at = "plan" /\ rec.todo = {}
      /\ rec' = NoWork
      /\ work' = [work EXCEPT !["queue"].todo = @ \cup (rec.pending \ retrying)]
      /\ UNCHANGED <<pointer, rows, store, webhooks, retired, fence, poll, events, runs, lost, count>>

-----------------------------------------------------------------------------
(* Teardown.                                                               *)

(* registrationHeld: another activation's store records the very webhook.  *)
registrationHeld(h, except) == \E k \in Key \ {except} : store[k].hook = h

(* A delete leaves the fence once the app has answered it, and a stand-up  *)
(* under way is told.                                                      *)
StandingUp == rec.at \in {"register", "record", "forget", "await"}
Leaves(d) == fence' = fence \ {d}
Told(r, d) == IF StandingUp THEN [r EXCEPT !.finished = @ \cup {d.handle}] ELSE r

(* What the app does with a delete: made; or failed, with the webhook gone *)
(* or still there; or failed, where the app does not say so.               *)
Deleted(h) == webhooks' = webhooks \ {h} /\ UNCHANGED count
Refused(h) == h[1] \notin Silent /\ webhooks' \in {webhooks, webhooks \ {h}} /\ Failing
Unreported(h) == h[1] \in Silent /\ UNCHANGED webhooks /\ Failing

EntriesInUse ==
  (retired \cup rec.pending \cup (UNION {work[w].todo \cup {work[w].entry} : w \in Retrier})) \ {None}
FreshId == Unused({e.id : e \in EntriesInUse})
retire(h) == retired' = retired \cup {[id |-> FreshId, handle |-> h]}

(* unregisterWebhook: a webhook another activation holds is left alone.    *)
unregisterWebhook ==
  LET h == store[rec.key].hook
  IN  /\ rec.at = "teardown"
      /\ \/ /\ h = None \/ registrationHeld(h, rec.key)
            /\ Next1("clear")
            /\ UNCHANGED fence
         \/ /\ h # None /\ ~registrationHeld(h, rec.key)
            /\ fence' = fence \cup {[handle |-> h, by |-> "teardown"]}
            /\ Next1("deleting")
      /\ UNCHANGED <<pointer, rows, store, webhooks, retired, work, poll, events, runs, lost, count>>

teardownDeleted ==
  LET d == [handle |-> store[rec.key].hook, by |-> "teardown"]
  IN  /\ rec.at = "deleting"
      /\ Leaves(d)
      /\ \/ Deleted(d.handle) /\ UNCHANGED <<retired, lost>>
         \/ Unreported(d.handle) /\ UNCHANGED retired /\ lost' = lost \cup {d.handle}
         \/ Refused(d.handle) /\ retire(d.handle) /\ UNCHANGED lost
      /\ Next1("clear")
      /\ UNCHANGED <<pointer, rows, store, work, poll, events, runs>>

\* Mutant: a delete not answered in time is taken for made.
forgetUnanswered ==
  LET d == [handle |-> store[rec.key].hook, by |-> "teardown"]
  IN  /\ rec.at = "deleting"
      /\ Failing
      /\ fence' = (fence \ {d}) \cup {[d EXCEPT !.by = "late"]}
      /\ Next1("clear")
      /\ UNCHANGED <<pointer, rows, store, webhooks, retired, work, poll, events, runs, lost>>

(* boundedDelete, past its wait: the delete is left to a retry, and stays  *)
(* in the fence until it is answered.                                      *)
teardownTimesOut ==
  LET d == [handle |-> store[rec.key].hook, by |-> "teardown"]
  IN  /\ rec.at = "deleting"
      /\ Failing
      /\ fence' = (fence \ {d}) \cup {[d EXCEPT !.by = "late"]}
      /\ retire(d.handle)
      /\ Next1("clear")
      /\ UNCHANGED <<pointer, rows, store, webhooks, work, poll, events, runs, lost>>

lateDeleteAnswered(d) ==
  /\ d \in fence /\ d.by = "late"
  /\ Leaves(d)
  /\ rec' = Told(rec, d)
  /\ Deleted(d.handle) \/ Refused(d.handle) \/ Unreported(d.handle)
  /\ UNCHANGED <<pointer, rows, store, retired, work, poll, events, runs, lost>>

clearStore ==
  /\ rec.at = "clear"
  /\ store' = [store EXCEPT ![rec.key] = EmptyStore]
  /\ Next1(IF rec.want[rec.key] = None THEN "drop" ELSE "materialize")
  /\ UNCHANGED <<pointer, rows, webhooks, retired, fence, work, poll, events, runs, lost, count>>

dropRow ==
  /\ rec.at = "drop"
  /\ rows' = [rows EXCEPT ![rec.key] = None]
  /\ Applied
  /\ UNCHANGED <<pointer, store, webhooks, retired, fence, work, poll, events, runs, lost, count>>

-----------------------------------------------------------------------------
(* Stand-up.                                                               *)

Desired == rec.want[rec.key]
AtAddress(a) == {e \in retired : e.handle[1] = a}

(* recordError: the stand-up is given up; nothing else of the row moves.   *)
standUpFails == Applied

(* A polling trigger's discarded first poll sets its cursor past what is   *)
(* already there.                                                          *)
enablePolling ==
  /\ rec.at = "materialize" /\ Desired \in Polling
  /\ \/ /\ store' = [store EXCEPT ![rec.key].cursor = events]
        /\ Next1("live")
        /\ UNCHANGED count
     \/ Failing /\ standUpFails /\ UNCHANGED store
  /\ UNCHANGED <<pointer, rows, webhooks, retired, fence, work, poll, events, runs, lost>>

registerWebhook ==
  /\ rec.at = "materialize" /\ Desired \notin Polling
  /\ Next1("register")
  /\ UNCHANGED <<pointer, rows, store, webhooks, retired, fence, work, poll, events, runs, lost, count>>

(* The app's answer to a registration: the old handle, a fresh one, or a   *)
(* refusal while another webhook is at the address.                        *)
HandlesInUse ==
  (webhooks \cup lost \cup rec.finished \cup {e.handle : e \in retired} \cup {d.handle : d \in fence}
     \cup {store[k].hook : k \in Key}) \ {None}
FreshHandle(a) == <<a, Unused({h[2] : h \in HandlesInUse})>>

Registered(a) == IF a \in Upserts THEN <<a, 0>> ELSE FreshHandle(a)

\* A refusing app takes one webhook at an address.
Taken(a) == a \in Refuses /\ \E g \in webhooks : g[1] = a

\* A failed registration is made once more, after the deletes it may have met.
RegistrationFails ==
  IF rec.again THEN standUpFails ELSE rec' = [rec EXCEPT !.at = "land", !.finished = {}, !.hook = None]

(* enable may fail after the app has made the webhook: nobody holds it.    *)
registerWebhookOnce ==
  LET a == AppOf[Desired]
      h == Registered(a)
  IN  /\ rec.at = "register"
      /\ \/ /\ ~Taken(a)
            /\ webhooks' = webhooks \cup {h}
            /\ rec' = [rec EXCEPT !.at = "record", !.hook = h]
            /\ UNCHANGED <<lost, count>>
         \/ /\ IF Taken(a) THEN UNCHANGED count ELSE Failing
            /\ RegistrationFails
            /\ UNCHANGED <<webhooks, lost>>
         \/ /\ ~Taken(a) /\ Failing
            /\ webhooks' = webhooks \cup {h}
            /\ lost' = lost \cup {h}
            /\ RegistrationFails
      /\ UNCHANGED <<pointer, rows, store, retired, fence, work, poll, events, runs>>

(* The webhook is put on record, or the write fails.                       *)
recordRegistration ==
  /\ rec.at = "record"
  /\ \/ /\ store' = [store EXCEPT ![rec.key].hook = rec.hook]
        /\ lost' = lost \ {rec.hook}
        /\ Next1("forget")
        /\ UNCHANGED count
     \/ /\ Failing
        /\ lost' = lost \cup {rec.hook}
        /\ RegistrationFails
        /\ UNCHANGED store
  /\ UNCHANGED <<pointer, rows, webhooks, retired, fence, work, poll, events, runs>>

\* Mutant: a stand-up never waits for a delete of the handle it was given.
standUpUnfenced ==
  /\ rec.at = "forget"
  /\ retired' = {e \in retired : e.handle # rec.hook}
  /\ rec' = [rec EXCEPT !.at = "live", !.hook = None, !.finished = {}]
  /\ UNCHANGED <<pointer, rows, store, webhooks, fence, work, poll, events, runs, lost, count>>

(* forgetRetiredHeldBy, then the fence: a stand-up given a handle that is  *)
(* being deleted, or was while it ran, registers again once that landed.   *)
standUp ==
  LET inFlight == {d \in fence : d.handle = rec.hook}
  IN  /\ rec.at = "forget"
      /\ retired' = {e \in retired : e.handle # rec.hook}
      /\ rec' = IF inFlight = {} /\ rec.hook \notin rec.finished
                THEN [rec EXCEPT !.at = "live", !.hook = None, !.finished = {}]
                ELSE [rec EXCEPT !.at = "await", !.awaits = inFlight, !.hook = None]
      /\ UNCHANGED <<pointer, rows, store, webhooks, fence, work, poll, events, runs, lost, count>>

awaitLanded ==
  /\ rec.at = "await" /\ rec.awaits \cap fence = {}
  /\ rec' = [rec EXCEPT !.at = "register", !.awaits = {}, !.finished = {}]
  /\ UNCHANGED <<pointer, rows, store, webhooks, retired, fence, work, poll, events, runs, lost, count>>

recordMaterialized ==
  /\ rec.at = "live"
  /\ rows' = [rows EXCEPT ![rec.key].live = Desired]
  /\ Applied
  /\ UNCHANGED <<pointer, store, webhooks, retired, fence, work, poll, events, runs, lost, count>>

(* landPendingDeletesAt: a refused stand-up has the pending deletes at its *)
(* address made, within a bounded wait, and registers once more.  One      *)
(* landing runs at a time (a bound).                                       *)
landPendingDeletesAt ==
  /\ rec.at = "land"
  /\ \/ /\ AtAddress(AppOf[Desired]) = {}
        /\ standUpFails
        /\ UNCHANGED work
     \/ /\ AtAddress(AppOf[Desired]) # {}
        /\ work["landing"] = Resting
        /\ work' = [work EXCEPT !["landing"] =
                      [Resting EXCEPT !.at = "await", !.app = AppOf[Desired],
                                      !.awaits = {d \in fence : d.handle[1] = AppOf[Desired]}]]
        /\ Next1("landing")
     \/ /\ AtAddress(AppOf[Desired]) # {}
        /\ work["landing"] # Resting
        /\ standUpFails
        /\ UNCHANGED work
  /\ UNCHANGED <<pointer, rows, store, webhooks, retired, fence, poll, events, runs, lost, count>>

landingStarts ==
  /\ work["landing"].at = "await" /\ work["landing"].awaits \cap fence = {}
  /\ work' = [work EXCEPT !["landing"] =
                [Resting EXCEPT !.todo = AtAddress(work["landing"].app)]]
  /\ UNCHANGED <<pointer, rows, store, webhooks, retired, fence, rec, poll, events, runs, lost, count>>

landingEnds ==
  /\ rec.at = "landing"
  /\ \/ /\ work["landing"] = Resting /\ AtAddress(AppOf[Desired]) = {}
        /\ rec' = [rec EXCEPT !.at = "register", !.again = TRUE]
     \/ standUpFails
  /\ UNCHANGED <<pointer, rows, store, webhooks, retired, fence, work, poll, events, runs, lost, count>>

-----------------------------------------------------------------------------
(* Retries of pending deletes, one at a time in the queue and, beside it,  *)
(* one at a time for a stand-up's landing.                                 *)

Retrying(w, at, e) ==
  work' = [work EXCEPT ![w].at = at, ![w].entry = e, ![w].todo = @ \ {work[w].entry, e}]

\* The entry is done with for now: the retrier rests, or goes on to its next.
RetriedNow(w) == Retrying(w, "rest", None)

(* retryRetiredWebhook: an entry that is gone is passed over; any other is *)
(* in the fence from before its held check until the app has answered.     *)
retryRetiredWebhook(w, e) ==
  /\ work[w].at = "rest" /\ e \in work[w].todo
  /\ \/ /\ e \notin retired
        /\ Retrying(w, "rest", e)
        /\ UNCHANGED fence
     \/ /\ e \in retired
        /\ Retrying(w, "check", e)
        /\ fence' = fence \cup {[handle |-> e.handle, by |-> w]}
  /\ UNCHANGED <<pointer, rows, store, webhooks, retired, rec, poll, events, runs, lost, count>>

EndsRetry(w) ==
  LET d == [handle |-> work[w].entry.handle, by |-> w]
  IN  Leaves(d) /\ rec' = Told(rec, d)

(* A webhook that an activation records is taken for held, and its entry   *)
(* dropped; if the activation is being torn down and has just retired the  *)
(* webhook, no record of it is left once its store is cleared.             *)
retryHeld(w) ==
  LET h == work[w].entry.handle
      tornDown == rec.at = "clear" /\ ~registrationHeld(h, rec.key)
  IN  /\ work[w].at = "check"
      /\ \/ /\ registrationHeld(h, None)
            /\ EndsRetry(w)
            /\ Retrying(w, "forget", work[w].entry)
            /\ lost' = IF tornDown THEN lost \cup {h} ELSE lost
         \/ /\ ~registrationHeld(h, None)
            /\ Retrying(w, "send", work[w].entry)
            /\ UNCHANGED <<fence, rec, lost>>
      /\ UNCHANGED <<pointer, rows, store, webhooks, retired, poll, events, runs, count>>

retriedDelete(w) ==
  /\ work[w].at = "send"
  /\ EndsRetry(w)
  /\ LET h == work[w].entry.handle
     IN  \/ Deleted(h) /\ Retrying(w, "forget", work[w].entry) /\ UNCHANGED lost
         \/ Unreported(h) /\ Retrying(w, "forget", work[w].entry) /\ lost' = lost \cup {h}
         \/ Refused(h) /\ RetriedNow(w) /\ UNCHANGED lost
  /\ UNCHANGED <<pointer, rows, store, retired, poll, events, runs>>

retryDone(w) ==
  /\ work[w].at = "forget"
  /\ retired' = retired \ {work[w].entry}
  /\ RetriedNow(w)
  /\ UNCHANGED <<pointer, rows, store, webhooks, fence, rec, poll, events, runs, lost, count>>

-----------------------------------------------------------------------------
(* Polls.                                                                  *)

Names == {r.epoch : r \in runs} \cup {store[k].epoch : k \in Key}
newId == Unused(Names)

CursorOf(k) == IF store[k].cursor = None THEN 0 ELSE store[k].cursor

newEvent ==
  /\ events < MaxEvents
  /\ events' = events + 1
  /\ UNCHANGED <<pointer, rows, store, webhooks, retired, fence, rec, work, poll, runs, lost, count>>

PollDue(k) ==
  /\ poll = None /\ ~Applying(k)
  /\ rows[k] # None /\ rows[k].setup \in Polling /\ applyFinished(k)
  /\ deriveDesiredActivations(pointer)[k] = rows[k].setup
  /\ CursorOf(k) < events

Begins(k, epoch) ==
  poll' = [key |-> k, next |-> CursorOf(k) + 1, upto |-> events, epoch |-> epoch, at |-> "admit"]

EpochOf(k) == IF store[k].epoch = None THEN newId ELSE store[k].epoch

\* Mutant: every poll names its runs under an epoch of its own.
pollUnderNewEpoch(k) ==
  /\ PollDue(k)
  /\ store' = [store EXCEPT ![k].epoch = newId]
  /\ Begins(k, newId)
  /\ UNCHANGED <<pointer, rows, webhooks, retired, fence, rec, work, events, runs, lost, count>>

\* Mutant: the cursor the trigger moves is written at once, not held.
pollWritesThrough(k) ==
  /\ PollDue(k)
  /\ store' = [store EXCEPT ![k].epoch = EpochOf(k), ![k].cursor = events]
  /\ Begins(k, EpochOf(k))
  /\ UNCHANGED <<pointer, rows, webhooks, retired, fence, rec, work, events, runs, lost, count>>

(* pollActivation passes over an activation whose lock is held, whose last *)
(* apply did not finish, or whose trigger the version answering does not   *)
(* have.  An epoch is minted, to the store at once, if there is none.      *)
pollActivation(k) ==
  /\ PollDue(k)
  /\ store' = [store EXCEPT ![k].epoch = EpochOf(k)]
  /\ Begins(k, EpochOf(k))
  /\ UNCHANGED <<pointer, rows, webhooks, retired, fence, rec, work, events, runs, lost, count>>

(* An event's run is admitted under a name of the activation, its epoch    *)
(* and the event's key; a name that has a run admits nothing more.         *)
admitActivationRun ==
  /\ poll # None /\ poll.at = "admit" /\ poll.next <= poll.upto
  /\ runs' = runs \cup {[key |-> poll.key, epoch |-> poll.epoch, event |-> poll.next]}
  /\ poll' = [poll EXCEPT !.next = @ + 1]
  /\ UNCHANGED <<pointer, rows, store, webhooks, retired, fence, rec, work, events, lost, count>>

(* The held writes reach the store once every event is admitted: first the *)
(* cursor, last a fresh epoch.                                             *)
commitCursor ==
  /\ poll # None /\ poll.at = "admit" /\ poll.next > poll.upto
  /\ store' = [store EXCEPT ![poll.key].cursor = poll.upto]
  /\ poll' = [poll EXCEPT !.at = "epoch"]
  /\ UNCHANGED <<pointer, rows, webhooks, retired, fence, rec, work, events, runs, lost, count>>

commitEpoch ==
  /\ poll # None /\ poll.at = "epoch"
  /\ store' = [store EXCEPT ![poll.key].epoch = newId]
  /\ poll' = None
  /\ UNCHANGED <<pointer, rows, webhooks, retired, fence, rec, work, events, runs, lost, count>>

(* An admission fails: nothing held is written.                            *)
pollFails ==
  /\ poll # None /\ poll.at = "admit"
  /\ Failing
  /\ poll' = None
  /\ UNCHANGED <<pointer, rows, store, webhooks, retired, fence, rec, work, events, runs, lost>>

-----------------------------------------------------------------------------
(* The process dies: its locks, fence and queues are gone, and each delete *)
(* it had sent is made or not.                                             *)
Sent == {d.handle : d \in {f \in fence : f.by \in {"teardown", "late"}}}
          \cup {work[w].entry.handle : w \in {v \in Retrier : work[v].at = "send"}}

crash ==
  /\ count.crashes < MaxCrashes
  /\ Count("crashes")
  /\ \E gone \in SUBSET Sent : webhooks' = webhooks \ gone
  /\ rec' = NoWork
  /\ work' = [w \in Retrier |-> Resting]
  /\ fence' = {}
  /\ poll' = None
  /\ lost' = IF rec.at = "record" THEN lost \cup {rec.hook} ELSE lost
  /\ UNCHANGED <<pointer, rows, store, retired, events, runs>>

Init ==
  /\ pointer = None
  /\ rows = [k \in Key |-> None]
  /\ store = [k \in Key |-> EmptyStore]
  /\ webhooks = {} /\ retired = {} /\ fence = {}
  /\ rec = NoWork
  /\ work = [w \in Retrier |-> Resting]
  /\ poll = None /\ events = 0 /\ runs = {} /\ lost = {}
  /\ count = [moves |-> 0, failures |-> 0, crashes |-> 0]

Reconciling ==
  \/ reconcileOnce
  \/ \E k \in Key : applyCreate(k) \/ applyUpdate(k) \/ applyDelete(k)
  \/ queueRetries
  \/ unregisterWebhook \/ teardownDeleted \/ teardownTimesOut \/ clearStore \/ dropRow
  \/ enablePolling \/ registerWebhook \/ registerWebhookOnce \/ recordRegistration
  \/ standUp \/ awaitLanded \/ recordMaterialized
  \/ landPendingDeletesAt \/ landingEnds

Retry(w) ==
  \/ \E e \in work[w].todo : retryRetiredWebhook(w, e)
  \/ retryHeld(w) \/ retriedDelete(w) \/ retryDone(w)

Polling1 == (\E k \in Key : pollActivation(k)) \/ admitActivationRun \/ commitCursor \/ commitEpoch

Next ==
  \/ \E v \in Version \cup {None} : movePointer(v)
  \/ Reconciling
  \/ \E d \in fence : lateDeleteAnswered(d)
  \/ landingStarts
  \/ \E w \in Retrier : Retry(w)
  \/ newEvent \/ Polling1 \/ pollFails
  \/ crash

Spec == Init /\ [][Next]_vars

(* A reconcile of the workflow starts at every sweep, one job at a time;   *)
(* calls are answered or time out; the retries run by themselves.          *)
FairSpec ==
  /\ Spec
  /\ WF_vars(Reconciling)
  /\ WF_vars(\E d \in fence : lateDeleteAnswered(d))
  /\ WF_vars(landingStarts)
  /\ \A w \in Retrier : WF_vars(Retry(w))
  /\ WF_vars(Polling1)

-----------------------------------------------------------------------------
(* Properties.                                                             *)

TypeOK ==
  /\ pointer \in Version \cup {None}
  /\ rows \in [Key -> Row \cup {None}]
  /\ \A k \in Key : /\ store[k].cursor \in 0..events \cup {None}
                    /\ store[k].hook \in Handle \cup {None}
                    /\ rows[k] = None /\ ~Applying(k) => store[k] = EmptyStore
  /\ webhooks \subseteq Handle
  /\ retired \subseteq Entry
  /\ \A e, f \in retired : e.id = f.id => e = f
  /\ poll # None => ~Applying(poll.key)
  /\ \A w \in Retrier : work[w].at \in {"check", "send"} => [handle |-> work[w].entry.handle, by |-> w] \in fence

(* Every webhook at an app is on record, in a store or as a pending        *)
(* delete, or in the hand of the stand-up that registers it, so that none  *)
(* goes on delivering for good; but for those the code loses: registered   *)
(* by a process that died before the record, or by a call or a record that *)
(* failed; taken for held by a retry while they were torn down; or deleted *)
(* without success at an app that does not say so.                         *)
WebhooksAreKnown ==
  \A h \in webhooks :
    \/ \E k \in Key : store[k].hook = h
    \/ \E e \in retired : e.handle = h
    \/ rec.hook = h
    \/ h \in lost

(* No delete, late, retried or landed for a stand-up, takes down a webhook *)
(* that an activation records and nobody is applying.                      *)
DeletesSpareLive ==
  [][\A k \in Key : ~Applying(k) => store[k].hook \notin webhooks \ webhooks']_vars

(* A poll of an activation whose cursor is set never runs an event a       *)
(* second time, whatever failed between its admission and the cursor's     *)
(* move.                                                                   *)
EventRunsOnce ==
  [][\A r \in runs' \ runs : store[r.key].cursor # None =>
       \A q \in runs : q.key = r.key => q.event # r.event]_vars

(* The cursor moves only past events that are admitted.                    *)
NoEventSkipped ==
  [][\A k \in Key :
       LET c == store[k].cursor
       IN  c # None /\ store'[k].cursor # None /\ store'[k].cursor # c =>
             /\ store'[k].cursor > c
             /\ \A e \in (c + 1)..store'[k].cursor : \E r \in runs : r.key = k /\ r.event = e]_vars

(* Every pending delete is over in the end: made, or taken over.           *)
PendingDeletesEnd == <>[](retired = {})

(* What the pointer asks for is what is set up.                            *)
SetUp(k, s) ==
  /\ rows[k] # None /\ isLive(k, s)
  /\ IF s \in Polling THEN store[k].cursor # None ELSE store[k].hook \in webhooks
Converged ==
  \A k \in Key : LET s == deriveDesiredActivations(pointer)[k]
                 IN  IF s = None THEN rows[k] = None ELSE SetUp(k, s)

(* No two triggers want one address of an app that refuses: one would keep *)
(* the other out, and a stand-up that is kept out fails like any other.    *)
Uncontested ==
  \A v, w \in Version, j, k \in Key :
    LET s == TriggerOf[v][j]
        t == TriggerOf[w][k]
    IN  None \notin {s, t} /\ AppOf[s] = AppOf[t] /\ AppOf[s] \in Refuses /\ {s, t} \cap Polling = {}
          => j = k /\ s = t

OneFailure == count.crashes = 0 /\ count.failures <= 1

\* A webhook nobody knows of keeps every other out of its address.
Blocked == \E h \in webhooks \cap lost : h[1] \in Refuses

(* In the end every trigger the pointer asks for is set up, and no other,  *)
(* unless the process died or the apps failed more than once; of triggers  *)
(* that do not keep each other out, and where no lost webhook does.        *)
ConvergesAfterOneFailure ==
  Uncontested /\ <>[](OneFailure /\ ~Blocked) => <>[]Converged

(* The next reconcile re-converges, whatever failed before, as long as no  *)
(* webhook was lost.                                                       *)
Reconverges == <>[](lost = {}) => <>[]Converged
=============================================================================
