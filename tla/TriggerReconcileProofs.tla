------------------------ MODULE TriggerReconcileProofs ------------------------
(* Proofs about TriggerReconcile, for any number of triggers, versions,    *)
(* failures, crashes and events, and any apps.                             *)
EXTENDS TriggerReconcile, FiniteSetTheorems, TLAPS

-----------------------------------------------------------------------------
(* The inductive invariant, in parts.                                      *)

Unkeyed == {"idle", "plan"}
TearingDown == {"teardown", "deleting", "clear", "drop"}
Standing == {"materialize", "register", "record", "forget", "await", "live", "land", "landing"}

RecType == [at : Unkeyed \cup TearingDown \cup Standing, key : Key \cup {None},
            want : [Key -> Setup \cup {None}], todo : SUBSET Key, pending : SUBSET Entry,
            hook : Handle \cup {None}, finished : SUBSET Handle, awaits : SUBSET Delete, again : BOOLEAN]
WorkType == [at : {"rest", "await", "check", "send", "forget"}, entry : Entry \cup {None},
             todo : SUBSET Entry, app : App \cup {None}, awaits : SUBSET Delete]
StoreType == [cursor : Nat \cup {None}, epoch : Nat \cup {None}, hook : Handle \cup {None}]

Types ==
  /\ pointer \in Version \cup {None}
  /\ rows \in [Key -> Row \cup {None}]
  /\ store \in [Key -> StoreType]
  /\ webhooks \subseteq Handle /\ retired \subseteq Entry /\ fence \subseteq Delete
  /\ rec \in RecType /\ work \in [Retrier -> WorkType]
  /\ poll \in Poll \cup {None} /\ events \in Nat /\ runs \subseteq Run

Finite ==
  /\ IsFiniteSet(webhooks) /\ IsFiniteSet(retired) /\ IsFiniteSet(fence) /\ IsFiniteSet(runs)
  /\ IsFiniteSet(lost) /\ IsFiniteSet(rec.finished)
  /\ IsFiniteSet(rec.pending) /\ \A w \in Retrier : IsFiniteSet(work[w].todo)

(* A handle the app of the setup being stood up could have answered with.  *)
Answers(a, h) == h[1] = a /\ (a \in Upserts => h = <<a, 0>>)

(* What the reconcile knows of the activation it applies: a row, and what  *)
(* its store can hold at each point, which before a registration is on     *)
(* record is nothing, or the one handle of an app that upserts; and that a *)
(* node to create is desired.                                              *)
RecKnows ==
  /\ rec.key = None <=> rec.at \in Unkeyed
  /\ rec.key # None => rows[rec.key] # None
  /\ \A k \in rec.todo : k # rec.key /\ rows[k] = None => rec.want[k] # None
  /\ rec.hook # None <=> rec.at \in {"record", "forget"}
  /\ rec.hook # None => Answers(AppOf[Desired], rec.hook)
  /\ rec.at \in Standing =>
       /\ Desired \in Setup
       /\ store[rec.key].hook # None => Answers(AppOf[Desired], store[rec.key].hook)
  /\ rec.at = "deleting" => store[rec.key].hook # None
  /\ rec.at \in {"drop", "materialize"} => store[rec.key] = EmptyStore
  /\ rec.at \in Standing \ {"forget", "live"} /\ store[rec.key].hook # None => AppOf[Desired] \in Upserts
  /\ rec.at = "forget" => store[rec.key].hook = rec.hook

(* A webhook just made by an app that does not upsert is of a new handle:  *)
(* no delete of it is pending, or was made.                                *)
NewIsUnmet ==
  rec.at \in {"record", "forget"} /\ AppOf[Desired] \notin Upserts =>
    /\ rec.hook \notin rec.finished
    /\ \A d \in fence : d.handle # rec.hook
    /\ \A e \in retired : e.handle # rec.hook

(* Nothing is in a store that has no row.                                  *)
RowlessIsEmpty == \A k \in Key : rows[k] = None => store[k] = EmptyStore

(* An activation is polled or applied, and has a row while it is polled.   *)
PollLocks == poll # None => ~Applying(poll.key) /\ rows[poll.key] # None

EntriesDiffer == \A e, f \in retired : e.id = f.id => e = f

(* A retry is in the fence from its check until the app has answered.      *)
RetryFenced ==
  \A w \in Retrier :
    /\ work[w].at \in {"check", "send", "forget"} => work[w].entry # None
    /\ work[w].at \in {"check", "send"} => [handle |-> work[w].entry.handle, by |-> w] \in fence

(* A webhook is on a record that is not about to go: the store of an       *)
(* activation that is not being cleared, or a pending delete that no       *)
(* retrier is done with.                                                   *)
Forgetting == {work[w].entry : w \in {v \in Retrier : work[v].at = "forget"}}
Holds(k, h) == store[k].hook = h /\ ~(rec.at = "clear" /\ rec.key = k)
SurelyKnown(h) ==
  \/ \E k \in Key : Holds(k, h)
  \/ \E e \in retired \ Forgetting : e.handle = h
  \/ rec.hook = h
  \/ h \in lost
AllSurelyKnown == \A h \in webhooks : SurelyKnown(h)

(* A delete that the app has been sent, or may yet be.  None is of a       *)
(* webhook in a store, but for the activation that is being applied; and   *)
(* there none is, once its stand-up has seen the fence, but for those it   *)
(* waits for.                                                              *)
IsSent(d) == d.by \in Retrier => work[d.by].at = "send" /\ d.handle = work[d.by].entry.handle
Seen == {"register", "record", "live", "land", "landing"}
Spares ==
  \A d \in fence : IsSent(d) =>
    /\ \A k \in Key : ~Applying(k) => store[k].hook # d.handle
    /\ rec.at \in Seen => store[rec.key].hook # d.handle
    /\ rec.at = "await" /\ store[rec.key].hook = d.handle => d \in rec.awaits
DeletingIsFenced ==
  rec.at = "deleting" => [handle |-> store[rec.key].hook, by |-> "teardown"] \in fence

(* What has run of an activation whose cursor is set, past the cursor, ran *)
(* under the epoch in its store; and every event up to the one the poll is *)
(* at has run.                                                             *)
RunOf(k, e) == \E r \in runs : r.key = k /\ r.event = e
RunsPastCursor ==
  /\ \A r \in runs : r.event <= events
  /\ \A r \in runs : /\ store[r.key].cursor # None
                     /\ r.event > store[r.key].cursor
                     => r.epoch = store[r.key].epoch
CursorsInPast == \A k \in Key : store[k].cursor # None => store[k].cursor <= events
PollKnows ==
  poll # None =>
    /\ poll.upto <= events
    /\ \A r \in runs : r.key = poll.key => r.event <= poll.upto
    /\ poll.at = "admit" =>
         /\ store[poll.key].epoch = poll.epoch
         /\ CursorOf(poll.key) < poll.next
         /\ CursorOf(poll.key) < poll.upto
         /\ \A e \in (CursorOf(poll.key) + 1)..(poll.next - 1) : RunOf(poll.key, e)
    /\ poll.at = "epoch" => store[poll.key].cursor = poll.upto

IInv ==
  /\ Types /\ Finite
  /\ RecKnows /\ NewIsUnmet /\ RowlessIsEmpty /\ PollLocks
  /\ EntriesDiffer /\ RetryFenced
  /\ AllSurelyKnown
  /\ Spares /\ DeletingIsFenced
  /\ RunsPastCursor /\ CursorsInPast /\ PollKnows

-----------------------------------------------------------------------------
(* Names that are not in use.                                              *)

(* The numbers given to a finite set's members leave one out below its     *)
(* size: Unused finds it.                                                  *)
LEMMA UnusedIsFresh ==
  ASSUME NEW S, IsFiniteSet(S)
  PROVE  Unused(S) \in Nat /\ Unused(S) \notin S
<1>1. Cardinality(S) \in Nat
  BY FS_CardinalityType
<1>2. \E n \in 1..(Cardinality(S) + 1) : n \notin S
  <2> SUFFICES ASSUME 1..(Cardinality(S) + 1) \in SUBSET S PROVE FALSE
    OBVIOUS
  <2>1. Cardinality(1..(Cardinality(S) + 1)) = Cardinality(S) + 1
    BY <1>1, FS_Interval
  <2>2. Cardinality(1..(Cardinality(S) + 1)) <= Cardinality(S)
    BY FS_Subset
  <2> QED BY <1>1, <2>1, <2>2
<1> QED BY <1>1, <1>2 DEF Unused

(* The identifiers of finitely many entries are finitely many, and so are  *)
(* the handles of finitely many deletes, their numbers, the epochs ...     *)
LEMMA ImageIsFinite ==
  ASSUME NEW S, IsFiniteSet(S), NEW T, NEW f \in [S -> T], \A t \in T : \E s \in S : f[s] = t
  PROVE  IsFiniteSet(T)
<1>1. f \in Surjection(S, T)
  BY DEF Surjection
<1> QED BY <1>1, FS_Surjection

LEMMA FreshIdIsFresh ==
  ASSUME Types, Finite
  PROVE  FreshId \in Nat /\ \A e \in EntriesInUse : e.id # FreshId
<1>1. IsFiniteSet(EntriesInUse)
  <2>1. /\ IsFiniteSet(work["queue"].todo) /\ IsFiniteSet(work["landing"].todo)
        /\ IsFiniteSet({work["queue"].entry}) /\ IsFiniteSet({work["landing"].entry})
    BY FS_Singleton DEF Finite, Retrier
  <2>2. IsFiniteSet(retired) /\ IsFiniteSet(rec.pending)
    BY DEF Finite
  <2>3. IsFiniteSet((retired \cup rec.pending)
                    \cup (work["queue"].todo \cup {work["queue"].entry})
                    \cup (work["landing"].todo \cup {work["landing"].entry}))
    BY <2>1, <2>2, FS_Union
  <2>4. EntriesInUse = ((retired \cup rec.pending)
                    \cup (work["queue"].todo \cup {work["queue"].entry})
                    \cup (work["landing"].todo \cup {work["landing"].entry})) \ {None}
    BY DEF EntriesInUse, Retrier
  <2> QED BY <2>3, <2>4, FS_RemoveElement
<1> DEFINE ids == {e.id : e \in EntriesInUse}
           idOf == [e \in EntriesInUse |-> e.id]
<1>2. idOf \in [EntriesInUse -> ids] /\ \A n \in ids : \E e \in EntriesInUse : idOf[e] = n
  OBVIOUS
<1>3. IsFiniteSet(ids)
  <2> HIDE DEF ids, idOf
  <2> QED BY <1>1, <1>2, ImageIsFinite
<1> QED BY <1>3, UnusedIsFresh DEF FreshId

LEMMA FreshHandleIsFresh ==
  ASSUME Types, Finite, NEW a \in App
  PROVE  FreshHandle(a) \in Handle /\ FreshHandle(a) \notin HandlesInUse
<1> DEFINE held == {store[k].hook : k \in Key}
           holds == [k \in Key |-> store[k].hook]
           deleting == {d.handle : d \in fence}
           deletes == [d \in fence |-> d.handle]
           pending == {e.handle : e \in retired}
           names == [e \in retired |-> e.handle]
           used == {h[2] : h \in HandlesInUse}
           uses == [h \in HandlesInUse |-> h[2]]
<1>1. /\ holds \in [Key -> held] /\ \A h \in held : \E k \in Key : holds[k] = h
      /\ deletes \in [fence -> deleting] /\ \A h \in deleting : \E d \in fence : deletes[d] = h
      /\ names \in [retired -> pending] /\ \A h \in pending : \E e \in retired : names[e] = h
      /\ uses \in [HandlesInUse -> used] /\ \A n \in used : \E h \in HandlesInUse : uses[h] = n
  OBVIOUS
<1>2. HandlesInUse = ((webhooks \cup lost) \cup (rec.finished \cup pending) \cup (deleting \cup held)) \ {None}
  BY DEF HandlesInUse
<1>3. IsFiniteSet(used)
  <2> HIDE DEF held, holds, deleting, deletes, pending, names, used, uses
  <2>1. /\ IsFiniteSet(Key) /\ IsFiniteSet(fence) /\ IsFiniteSet(retired) /\ IsFiniteSet(webhooks)
        /\ IsFiniteSet(lost) /\ IsFiniteSet(rec.finished)
    BY SetupAssumption DEF Finite
  <2>2. IsFiniteSet(held) /\ IsFiniteSet(deleting) /\ IsFiniteSet(pending)
    BY <1>1, <2>1, ImageIsFinite
  <2>3. IsFiniteSet((webhooks \cup lost) \cup (rec.finished \cup pending) \cup (deleting \cup held))
    BY <2>1, <2>2, FS_Union
  <2>4. IsFiniteSet(HandlesInUse)
    BY <1>2, <2>3, FS_RemoveElement
  <2> QED BY <1>1, <2>4, ImageIsFinite
<1>4. Unused(used) \in Nat /\ Unused(used) \notin used
  <2> HIDE DEF used
  <2> QED BY <1>3, UnusedIsFresh
<1>5. FreshHandle(a) = <<a, Unused(used)>>
  BY DEF FreshHandle
<1>6. \A h \in HandlesInUse : h[2] \in used
  OBVIOUS
<1> HIDE DEF used
<1> QED BY <1>4, <1>5, <1>6 DEF Handle

LEMMA NewIdIsNat ==
  ASSUME Types, Finite
  PROVE  newId \in Nat
<1> DEFINE named == {r.epoch : r \in runs}
           names == [r \in runs |-> r.epoch]
           stored == {store[k].epoch : k \in Key}
           stores == [k \in Key |-> store[k].epoch]
<1>1. /\ names \in [runs -> named] /\ \A n \in named : \E r \in runs : names[r] = n
      /\ stores \in [Key -> stored] /\ \A n \in stored : \E k \in Key : stores[k] = n
  OBVIOUS
<1>2. IsFiniteSet(named) /\ IsFiniteSet(stored)
  <2> HIDE DEF named, names, stored, stores
  <2> QED BY <1>1, ImageIsFinite, SetupAssumption DEF Finite
<1>3. IsFiniteSet(Names)
  <2>1. Names = named \cup stored
    BY DEF Names
  <2> HIDE DEF named, stored
  <2> QED BY <1>2, <2>1, FS_Union
<1> QED BY <1>3, UnusedIsFresh DEF newId

-----------------------------------------------------------------------------
(* The initial state.                                                      *)
LEMMA InitIInv == Init => IInv
<1> SUFFICES ASSUME Init PROVE IInv
  OBVIOUS
<1>1. Types
  BY SMT, NoneAssumption
     DEF Init, Types, NoWork, Resting, EmptyStore, RecType, WorkType, StoreType, Unkeyed
<1>2. Finite
  BY FS_EmptySet DEF Init, Finite, NoWork, Resting, Retrier
<1> QED BY <1>1, <1>2, NoneAssumption
     DEF Init, IInv, NoWork, Resting, EmptyStore, RecKnows, RowlessIsEmpty, PollLocks, EntriesDiffer,
         NewIsUnmet, RetryFenced, AllSurelyKnown, Spares, DeletingIsFenced, RunsPastCursor, CursorsInPast,
         PollKnows, Unkeyed, Standing, Applying

-----------------------------------------------------------------------------
(* Types.                                                                  *)

(* What each action needs to know of the activation it applies.            *)
LEMMA RecTyped ==
  ASSUME Types, RecKnows
  PROVE  /\ rec.at \notin Unkeyed => /\ rec.key \in Key
                                    /\ rows[rec.key] \in Row
                                    /\ Desired \in Setup \cup {None}
         /\ rec.at \in Standing => Desired \in Setup
         /\ \A k \in Key : store[k].hook # None => store[k].hook \in Handle
         /\ rec.at = "deleting" => store[rec.key].hook \in Handle
         /\ \A k \in rec.todo \ {rec.key} : rows[k] = None => rec.want[k] \in Setup
<1>1. rec.at \notin Unkeyed => rec.key \in Key /\ rows[rec.key] \in Row
  BY DEF Types, RecKnows, RecType
<1>2. rec.want \in [Key -> Setup \cup {None}] /\ rec.todo \subseteq Key
  BY DEF Types, RecType
<1>3. \A k \in Key : store[k].hook \in Handle \cup {None}
  BY DEF Types, StoreType
<1>4. Standing \cap Unkeyed = {} /\ "deleting" \notin Unkeyed
  BY DEF Standing, Unkeyed
<1> QED BY <1>1, <1>2, <1>3, <1>4 DEF RecKnows, Desired

LEMMA RetireTyped ==
  ASSUME Types, Finite, NEW h \in Handle, retire(h)
  PROVE  retired' \subseteq Entry /\ IsFiniteSet(retired')
<1>1. [id |-> FreshId, handle |-> h] \in Entry
  BY FreshIdIsFresh DEF Entry
<1>2. IsFiniteSet(retired) /\ retired \subseteq Entry
  BY DEF Finite, Types
<1> QED BY <1>1, <1>2, FS_AddElement DEF retire

LEMMA AppliedTyped ==
  ASSUME Types, Applied
  PROVE  rec' \in RecType
  BY DEF Types, Applied, NoWork, RecType, Unkeyed

LEMMA RetryingTyped ==
  ASSUME Types, NEW w \in Retrier, NEW at \in {"rest", "check", "send", "forget"}, NEW e \in Entry \cup {None},
         Retrying(w, at, e)
  PROVE  /\ work' \in [Retrier -> WorkType]
         /\ work'[w].at = at /\ work'[w].entry = e /\ work'[w].todo \subseteq work[w].todo
         /\ \A v \in Retrier \ {w} : work'[v] = work[v]
<1>1. work[w] \in WorkType
  BY DEF Types
<1>2. work' = [work EXCEPT ![w] = [work[w] EXCEPT !.at = at, !.entry = e, !.todo = @ \ {work[w].entry, e}]]
  BY DEF Retrying, Types
<1>3. [work[w] EXCEPT !.at = at, !.entry = e, !.todo = @ \ {work[w].entry, e}] \in WorkType
  BY <1>1 DEF WorkType
<1> QED BY <1>1, <1>2, <1>3 DEF Types, WorkType

(* The reconcile moves on with the activation it applies.                  *)
LEMMA MovesTyped ==
  ASSUME Types, NEW at \in Unkeyed \cup TearingDown \cup Standing
  PROVE  /\ [rec EXCEPT !.at = at] \in RecType
         /\ \A k \in Key : [rec EXCEPT !.at = at, !.key = k] \in RecType
         /\ \A h \in Handle : [rec EXCEPT !.at = at, !.hook = h] \in RecType
         /\ [rec EXCEPT !.at = at, !.finished = {}] \in RecType
         /\ [rec EXCEPT !.at = at, !.again = TRUE] \in RecType
<1>1. rec \in RecType
  BY DEF Types
<1>2. [rec EXCEPT !.at = at] \in RecType
  BY <1>1 DEF RecType
<1>3. ASSUME NEW k \in Key PROVE [rec EXCEPT !.at = at, !.key = k] \in RecType
  BY <1>1 DEF RecType
<1>4. ASSUME NEW h \in Handle PROVE [rec EXCEPT !.at = at, !.hook = h] \in RecType
  BY <1>1 DEF RecType
<1>5. [rec EXCEPT !.at = at, !.finished = {}] \in RecType
  BY <1>1 DEF RecType
<1>6. [rec EXCEPT !.at = at, !.again = TRUE] \in RecType
  BY <1>1 DEF RecType
<1> QED BY <1>2, <1>3, <1>4, <1>5, <1>6

(* A registration that fails is given up, or goes on to its landing.       *)
LEMMA FailedRegistration ==
  ASSUME Types, RegistrationFails
  PROVE  \/ Applied
         \/ /\ rec' \in RecType
            /\ rec'.at = "land" /\ rec'.hook = None /\ rec'.finished = {}
            /\ rec'.key = rec.key /\ rec'.want = rec.want /\ rec'.todo = rec.todo
            /\ rec'.pending = rec.pending /\ Desired' = Desired
<1>1. CASE rec' = [rec EXCEPT !.at = "land", !.finished = {}, !.hook = None]
  BY <1>1 DEF Types, RecType, Standing, Desired
<1> QED BY <1>1 DEF RegistrationFails, standUpFails

LEMMA LandingWork ==
  ASSUME Types, landPendingDeletesAt, NEW w \in Retrier
  PROVE  \/ work'[w] = work[w]
         \/ work'[w].at = "await" /\ work'[w].entry = None /\ work'[w].todo = {}
<1> DEFINE landing == [Resting EXCEPT !.at = "await", !.app = AppOf[Desired],
                                      !.awaits = {d \in fence : d.handle[1] = AppOf[Desired]}]
<1>1. landing.at = "await" /\ landing.entry = None /\ landing.todo = {}
  BY DEF Resting
<1>2. work' = work \/ work' = [work EXCEPT !["landing"] = landing]
  BY DEF landPendingDeletesAt
<1>3. work \in [Retrier -> WorkType]
  BY DEF Types
<1> HIDE DEF landing
<1> QED BY <1>1, <1>2, <1>3

LEMMA ToldTyped ==
  ASSUME Types, NEW d, d.handle \in Handle, rec' = Told(rec, d)
  PROVE  rec' \in RecType
  BY DEF Types, Told, RecType

(* Types, but for those of the sets' sizes.                                *)
LEMMA TypesStep == IInv /\ [Next]_vars => Types'
<1> SUFFICES ASSUME IInv, [Next]_vars PROVE Types'
  OBVIOUS
<1> USE DEF Types
<1>t. Types /\ Finite /\ RecKnows /\ RetryFenced
  BY DEF IInv
<1>k. /\ rec.at \notin Unkeyed => rec.key \in Key /\ rows[rec.key] \in Row /\ Desired \in Setup \cup {None}
      /\ rec.at \in Standing => Desired \in Setup
      /\ \A k \in Key : store[k].hook # None => store[k].hook \in Handle
      /\ rec.at = "deleting" => store[rec.key].hook \in Handle
      /\ \A k \in rec.todo \ {rec.key} : rows[k] = None => rec.want[k] \in Setup
  BY <1>t, RecTyped
<1>1. ASSUME NEW v \in Version \cup {None}, movePointer(v) PROVE Types'
  BY <1>t, <1>k, <1>1 DEF movePointer
<1>2. ASSUME reconcileOnce PROVE Types'
  BY <1>t, <1>k, <1>2, SetupAssumption DEF reconcileOnce, deriveDesiredActivations, reconcileActivations, RecType, Unkeyed, TearingDown, Standing
<1>3. ASSUME NEW k \in Key, applyCreate(k) PROVE Types'
  <2>1. CASE rows' = [rows EXCEPT ![k] = [setup |-> rec.want[k], live |-> None]]
    <3>1. rec.key = None /\ rec.want[k] \in Setup
      BY <1>t, <1>k, <1>3, NoneAssumption DEF applyCreate, ToCreate, RecKnows, Unkeyed
    <3>2. rows' \in [Key -> Row \cup {None}]
      BY <1>t, <2>1, <3>1 DEF Row
    <3>3. rec' \in RecType
      <4>1. rec' = [rec EXCEPT !.at = "materialize", !.key = k] \/ rec' = [rec EXCEPT !.todo = @ \ {k}]
        BY <1>3 DEF applyCreate
      <4>2. [rec EXCEPT !.todo = @ \ {k}] \in RecType
        BY <1>t DEF RecType
      <4>3. [rec EXCEPT !.at = "materialize", !.key = k] \in RecType
        <5>1. "materialize" \in Standing
          BY DEF Standing
        <5> QED BY <1>t, <5>1, MovesTyped
      <4> QED BY <4>1, <4>2, <4>3
    <3> QED BY <1>t, <1>3, <3>2, <3>3 DEF applyCreate
  <2>2. CASE UNCHANGED rows
    <3>1. rec' = [rec EXCEPT !.at = "materialize", !.key = k] \/ rec' = [rec EXCEPT !.todo = @ \ {k}]
      BY <1>3 DEF applyCreate
    <3>2. [rec EXCEPT !.todo = @ \ {k}] \in RecType
      BY <1>t DEF RecType
    <3>3. rec' \in RecType
      <4>1. "materialize" \in Standing
        BY DEF Standing
      <4>2. [rec EXCEPT !.at = "materialize", !.key = k] \in RecType
        BY <1>t, <4>1, MovesTyped
      <4> QED BY <3>1, <3>2, <4>2
    <3> QED BY <1>t, <1>3, <2>2, <3>3 DEF applyCreate
  <2> QED BY <1>3, <2>1, <2>2 DEF applyCreate
<1>4. ASSUME NEW k \in Key, applyUpdate(k) PROVE Types'
  <2>1. rows[k] # None /\ rec.want[k] # None /\ k \in Key
    BY <1>4 DEF applyUpdate, ToUpdate
  <2>2. rec.want[k] \in Setup /\ rows[k] \in Row
    BY <1>t, <2>1 DEF RecType
  <2>3. [rows[k] EXCEPT !.setup = rec.want[k]] \in Row
    BY <2>2 DEF Row
  <2>4. rows' \in [Key -> Row \cup {None}]
    BY <1>t, <1>4, <2>3 DEF applyUpdate
  <2>5. rec' = [rec EXCEPT !.at = "teardown", !.key = k] /\ "teardown" \in TearingDown
    BY <1>4 DEF applyUpdate, TearingDown
  <2>6. rec' \in RecType
    BY <1>t, <2>5, MovesTyped
  <2> QED BY <1>t, <1>4, <2>4, <2>6 DEF applyUpdate
<1>5. ASSUME NEW k \in Key, applyDelete(k) PROVE Types'
  BY <1>t, <1>k, <1>5 DEF applyDelete, RecType, Unkeyed, TearingDown, Standing
<1>6. ASSUME queueRetries PROVE Types'
  BY <1>t, <1>k, <1>6, NoneAssumption DEF queueRetries, NoWork, WorkType, Retrier, RecType, Unkeyed, TearingDown, Standing
<1>7. ASSUME unregisterWebhook PROVE Types'
  BY <1>t, <1>k, <1>7 DEF unregisterWebhook, Next1, Delete, RecType, Unkeyed, TearingDown, Standing
<1>8. ASSUME teardownDeleted PROVE Types'
  BY <1>t, <1>k, <1>8, RetireTyped DEF teardownDeleted, Next1, Leaves, Deleted, Refused, Unreported, RecType, Unkeyed, TearingDown, Standing
<1>9. ASSUME teardownTimesOut PROVE Types'
  BY <1>t, <1>k, <1>9, RetireTyped DEF teardownTimesOut, Next1, Delete, RecType, Unkeyed, TearingDown, Standing
<1>10. ASSUME clearStore PROVE Types'
  BY <1>t, <1>k, <1>10 DEF clearStore, EmptyStore, StoreType, Next1, RecType, Unkeyed, TearingDown, Standing
<1>11. ASSUME dropRow PROVE Types'
  BY <1>t, <1>k, <1>11, NoneAssumption DEF dropRow, Applied, NoWork, RecType, Unkeyed, TearingDown, Standing
<1>12. ASSUME enablePolling PROVE Types'
  <2>1. rec' \in RecType
    BY <1>t, <1>12, AppliedTyped DEF enablePolling, Next1, standUpFails, RecType, Standing
  <2>2. store' \in [Key -> StoreType]
    BY <1>t, <1>12 DEF enablePolling, StoreType
  <2> QED BY <1>t, <1>12, <2>1, <2>2 DEF enablePolling
<1>13. ASSUME registerWebhook PROVE Types'
  BY <1>t, <1>k, <1>13 DEF registerWebhook, Next1, RecType, Unkeyed, TearingDown, Standing
<1>14. ASSUME registerWebhookOnce PROVE Types'
  <2>1. AppOf[Desired] \in App
    BY <1>k, <1>14 DEF registerWebhookOnce, Standing, App
  <2>2. Registered(AppOf[Desired]) \in Handle
    BY <2>1, <1>t, FreshHandleIsFresh DEF Registered, Handle
  <2>3. rec' \in RecType
    <3>1. \/ rec' = [rec EXCEPT !.at = "record", !.hook = Registered(AppOf[Desired])]
          \/ RegistrationFails
      BY <1>14 DEF registerWebhookOnce
    <3>2. "record" \in Standing
      BY DEF Standing
    <3>3. [rec EXCEPT !.at = "record", !.hook = Registered(AppOf[Desired])] \in RecType
      BY <1>t, <2>2, <3>2, MovesTyped
    <3> QED BY <1>t, <3>1, <3>3, FailedRegistration, AppliedTyped
  <2>4. webhooks' \subseteq Handle
    <3>1. webhooks' \subseteq webhooks \cup {Registered(AppOf[Desired])}
      BY <1>14 DEF registerWebhookOnce
    <3> QED BY <1>t, <2>2, <3>1
  <2>5. UNCHANGED <<pointer, rows, store, retired, fence, work, poll, events, runs>>
    BY <1>14 DEF registerWebhookOnce
  <2> QED BY <1>t, <2>3, <2>4, <2>5
<1>15. ASSUME recordRegistration PROVE Types'
  <2>1. rec' \in RecType
    <3>1. rec' = [rec EXCEPT !.at = "forget"] \/ RegistrationFails
      BY <1>15 DEF recordRegistration, Next1
    <3>2. "forget" \in Standing
      BY DEF Standing
    <3>3. [rec EXCEPT !.at = "forget"] \in RecType
      BY <1>t, <3>2, MovesTyped
    <3> QED BY <1>t, <3>1, <3>3, FailedRegistration, AppliedTyped
  <2>2. store' \in [Key -> StoreType]
    <3>1. rec.hook \in Handle \cup {None}
      BY <1>t DEF RecType
    <3>2. store' = store \/ store' = [store EXCEPT ![rec.key].hook = rec.hook]
      BY <1>15 DEF recordRegistration
    <3> QED BY <1>t, <3>1, <3>2 DEF StoreType
  <2> QED BY <1>t, <1>15, <2>1, <2>2 DEF recordRegistration
<1>16. ASSUME standUp PROVE Types'
  BY <1>t, <1>k, <1>16 DEF standUp, RecType, Unkeyed, TearingDown, Standing
<1>17. ASSUME awaitLanded PROVE Types'
  BY <1>t, <1>k, <1>17 DEF awaitLanded, RecType, Unkeyed, TearingDown, Standing
<1>18. ASSUME recordMaterialized PROVE Types'
  BY <1>t, <1>k, <1>18 DEF recordMaterialized, Row, Applied, NoWork, RecType, Unkeyed, TearingDown, Standing
<1>19. ASSUME landPendingDeletesAt PROVE Types'
  <2>1. AppOf[Desired] \in App
    BY <1>k, <1>19 DEF landPendingDeletesAt, Standing, App
  <2>2. rec' \in RecType
    BY <1>t, <1>19, AppliedTyped DEF landPendingDeletesAt, Next1, standUpFails, RecType, Standing
  <2>3. work' \in [Retrier -> WorkType]
    <3> DEFINE landing == [Resting EXCEPT !.at = "await", !.app = AppOf[Desired],
                                          !.awaits = {d \in fence : d.handle[1] = AppOf[Desired]}]
    <3>1. landing \in WorkType
      BY <1>t, <2>1 DEF Resting, WorkType
    <3>2. work' = work \/ work' = [work EXCEPT !["landing"] = landing]
      BY <1>19 DEF landPendingDeletesAt
    <3> HIDE DEF landing
    <3> QED BY <1>t, <3>1, <3>2
  <2> QED BY <1>t, <1>19, <2>2, <2>3 DEF landPendingDeletesAt
<1>20. ASSUME landingEnds PROVE Types'
  <2>1. rec' \in RecType
    BY <1>t, <1>20, AppliedTyped DEF landingEnds, standUpFails, RecType, Standing
  <2> QED BY <1>t, <1>20, <2>1 DEF landingEnds
<1>21. ASSUME NEW d \in fence, lateDeleteAnswered(d) PROVE Types'
  BY <1>t, <1>k, <1>21 DEF lateDeleteAnswered, Leaves, Told, Delete, Deleted, Refused, Unreported, RecType, Unkeyed, TearingDown, Standing
<1>22. ASSUME landingStarts PROVE Types'
  BY <1>t, <1>k, <1>22 DEF landingStarts, Resting, WorkType, Retrier, AtAddress
<1>23. ASSUME NEW w \in Retrier, NEW e \in work[w].todo, retryRetiredWebhook(w, e) PROVE Types'
  BY <1>t, <1>k, <1>23 DEF retryRetiredWebhook, Retrying, WorkType, Delete, Entry
<1>24. ASSUME NEW w \in Retrier, retryHeld(w) PROVE Types'
  <2>1. work[w].entry \in Entry
    BY <1>t, <1>24 DEF retryHeld, RetryFenced, WorkType
  <2>2. work' \in [Retrier -> WorkType]
    BY <1>t, <1>24, <2>1, RetryingTyped DEF retryHeld
  <2>3. rec' \in RecType /\ fence' \subseteq Delete
    BY <1>t, <1>24, <2>1, ToldTyped DEF retryHeld, EndsRetry, Leaves, Entry
  <2> QED BY <1>t, <1>24, <2>2, <2>3 DEF retryHeld
<1>25. ASSUME NEW w \in Retrier, retriedDelete(w) PROVE Types'
  <2>1. work[w].entry \in Entry
    BY <1>t, <1>25 DEF retriedDelete, RetryFenced, WorkType
  <2>2. work' \in [Retrier -> WorkType]
    BY <1>t, <1>25, <2>1, RetryingTyped DEF retriedDelete, RetriedNow
  <2>3. rec' \in RecType /\ fence' \subseteq Delete
    BY <1>t, <1>25, <2>1, ToldTyped DEF retriedDelete, EndsRetry, Leaves, Entry
  <2> QED BY <1>t, <1>25, <2>2, <2>3 DEF retriedDelete, Deleted, Refused, Unreported
<1>26. ASSUME NEW w \in Retrier, retryDone(w) PROVE Types'
  <2>1. work' \in [Retrier -> WorkType]
    BY <1>t, <1>26, RetryingTyped DEF retryDone, RetriedNow
  <2> QED BY <1>t, <1>26, <2>1 DEF retryDone
<1>27. ASSUME newEvent PROVE Types'
  BY <1>t, <1>k, <1>27 DEF newEvent
<1>28. ASSUME NEW k \in Key, pollActivation(k) PROVE Types'
  <2>1. EpochOf(k) \in Nat
    BY <1>t, NewIdIsNat DEF EpochOf, StoreType
  <2>2. CursorOf(k) \in Nat
    BY <1>t DEF CursorOf, StoreType
  <2> QED BY <1>t, <1>28, <2>1, <2>2 DEF pollActivation, Begins, Poll, StoreType
<1>29. ASSUME admitActivationRun PROVE Types'
  BY <1>t, <1>k, <1>29, NoneAssumption DEF admitActivationRun, Poll, Run
<1>30. ASSUME commitCursor PROVE Types'
  BY <1>t, <1>k, <1>30, NoneAssumption DEF commitCursor, Poll, StoreType
<1>31. ASSUME commitEpoch PROVE Types'
  BY <1>t, <1>k, <1>31, NewIdIsNat DEF commitEpoch, Poll, StoreType
<1>32. ASSUME pollFails PROVE Types'
  BY <1>t, <1>k, <1>32 DEF pollFails
<1>33. ASSUME crash PROVE Types'
  BY <1>t, <1>k, <1>33, NoneAssumption DEF crash, NoWork, Resting, WorkType, Retrier, RecType, Unkeyed, TearingDown, Standing
<1>34. CASE UNCHANGED vars
  BY <1>t, <1>34 DEF vars
<1> QED BY <1>1, <1>2, <1>3, <1>4, <1>5, <1>6, <1>7, <1>8, <1>9, <1>10, <1>11, <1>12, <1>13, <1>14, <1>15, <1>16, <1>17, <1>18, <1>19, <1>20, <1>21, <1>22, <1>23, <1>24, <1>25, <1>26, <1>27, <1>28, <1>29, <1>30, <1>31, <1>32, <1>33, <1>34 DEF Next, Reconciling, Retry, Polling1

(* What grows, grows by one, or takes in what is finite already.           *)
LEMMA GrowsByOne ==
  ASSUME IInv, Next
  PROVE  /\ \E h : webhooks' \subseteq webhooks \cup {h}
         /\ \E e : retired' \subseteq retired \cup {e}
         /\ \E d : fence' \subseteq fence \cup {d}
         /\ \E r : runs' \subseteq runs \cup {r}
         /\ \E h : lost' \subseteq lost \cup {h}
         /\ \E h : rec'.finished \subseteq rec.finished \cup {h}
         /\ rec'.pending \in {rec.pending, retired, {}}
         /\ \A w \in Retrier : work'[w].todo \subseteq work[w].todo \cup rec.pending \cup retired
<1>t. Types
  BY DEF IInv
<1> USE DEF Next, Reconciling, Retry, Polling1
<1>1. \E h : webhooks' \subseteq webhooks \cup {h}
  BY DEF movePointer, reconcileOnce, applyCreate, applyUpdate, applyDelete, queueRetries, unregisterWebhook,
         teardownDeleted, teardownTimesOut, clearStore, dropRow, enablePolling, registerWebhook,
         registerWebhookOnce, recordRegistration, standUp, awaitLanded, recordMaterialized,
         landPendingDeletesAt, landingEnds, lateDeleteAnswered, landingStarts, retryRetiredWebhook, retryHeld,
         retriedDelete, retryDone, newEvent, pollActivation, admitActivationRun, commitCursor, commitEpoch,
         pollFails, crash, Deleted, Refused, Unreported
<1>2. \E e : retired' \subseteq retired \cup {e}
  BY DEF movePointer, reconcileOnce, applyCreate, applyUpdate, applyDelete, queueRetries, unregisterWebhook,
         teardownDeleted, teardownTimesOut, clearStore, dropRow, enablePolling, registerWebhook,
         registerWebhookOnce, recordRegistration, standUp, awaitLanded, recordMaterialized,
         landPendingDeletesAt, landingEnds, lateDeleteAnswered, landingStarts, retryRetiredWebhook, retryHeld,
         retriedDelete, retryDone, newEvent, pollActivation, admitActivationRun, commitCursor, commitEpoch,
         pollFails, crash, retire
<1>3. \E d : fence' \subseteq fence \cup {d}
  BY DEF movePointer, reconcileOnce, applyCreate, applyUpdate, applyDelete, queueRetries, unregisterWebhook,
         teardownDeleted, teardownTimesOut, clearStore, dropRow, enablePolling, registerWebhook,
         registerWebhookOnce, recordRegistration, standUp, awaitLanded, recordMaterialized,
         landPendingDeletesAt, landingEnds, lateDeleteAnswered, landingStarts, retryRetiredWebhook, retryHeld,
         retriedDelete, retryDone, newEvent, pollActivation, admitActivationRun, commitCursor, commitEpoch,
         pollFails, crash, Leaves, EndsRetry
<1>4. \E r : runs' \subseteq runs \cup {r}
  BY DEF movePointer, reconcileOnce, applyCreate, applyUpdate, applyDelete, queueRetries, unregisterWebhook,
         teardownDeleted, teardownTimesOut, clearStore, dropRow, enablePolling, registerWebhook,
         registerWebhookOnce, recordRegistration, standUp, awaitLanded, recordMaterialized,
         landPendingDeletesAt, landingEnds, lateDeleteAnswered, landingStarts, retryRetiredWebhook, retryHeld,
         retriedDelete, retryDone, newEvent, pollActivation, admitActivationRun, commitCursor, commitEpoch,
         pollFails, crash
<1>5. rec'.pending \in {rec.pending, retired, {}}
  <2>1. CASE Reconciling
    <3>1. CASE Applied
      BY <3>1 DEF Applied, NoWork
    <3>2. CASE reconcileOnce \/ queueRetries
      <4>1. \A want, todo : rec' = [rec EXCEPT !.at = "plan", !.want = want, !.pending = retired, !.todo = todo]
                              => rec'.pending = retired
        BY <1>t DEF Types, RecType
      <4>2. CASE reconcileOnce
        <5> DEFINE want == deriveDesiredActivations(pointer)
        <5>1. rec' = [rec EXCEPT !.at = "plan", !.want = want, !.pending = retired,
                                 !.todo = reconcileActivations(want)]
          BY <4>2 DEF reconcileOnce
        <5> HIDE DEF want
        <5> QED BY <4>1, <5>1
      <4> QED BY <3>2, <4>2 DEF queueRetries, NoWork
    <3>3. CASE \E k \in Key : applyCreate(k) \/ applyUpdate(k) \/ applyDelete(k)
      BY <1>t, <3>3 DEF Types, RecType, applyCreate, applyUpdate, applyDelete
    <3>4. CASE \E at : Next1(at)
      BY <1>t, <3>4 DEF Types, RecType, Next1
    <3>5. CASE registerWebhookOnce \/ standUp \/ awaitLanded \/ landingEnds \/ RegistrationFails
      BY <1>t, <3>1, <3>5, FailedRegistration
         DEF Types, RecType, registerWebhookOnce, standUp, awaitLanded, landingEnds, standUpFails
    <3> QED
      BY <2>1, <3>1, <3>2, <3>3, <3>4, <3>5
         DEF unregisterWebhook, teardownDeleted, teardownTimesOut, clearStore, dropRow, enablePolling,
             registerWebhook, recordRegistration, recordMaterialized, landPendingDeletesAt, standUpFails
  <2>2. CASE \E d : rec' = Told(rec, d)
    BY <1>t, <2>2 DEF Types, RecType, Told
  <2>3. CASE UNCHANGED rec
    BY <2>3
  <2>4. CASE crash
    BY <2>4 DEF crash, NoWork
  <2> QED
    BY <2>1, <2>2, <2>3, <2>4
       DEF movePointer, lateDeleteAnswered, landingStarts, retryRetiredWebhook, retryHeld, retriedDelete,
           retryDone, newEvent, pollActivation, admitActivationRun, commitCursor, commitEpoch, pollFails,
           EndsRetry
<1>6. ASSUME NEW w \in Retrier
      PROVE  work'[w].todo \subseteq work[w].todo \cup rec.pending \cup retired
  <2>1. CASE \E v \in Retrier, at \in {"rest", "check", "send", "forget"}, e \in Entry \cup {None} : Retrying(v, at, e)
    BY <1>t, <2>1, RetryingTyped
  <2>2. CASE UNCHANGED work
    BY <2>2
  <2>3. CASE queueRetries
    BY <1>t, <2>3 DEF Types, WorkType, queueRetries
  <2>4. CASE landPendingDeletesAt \/ landingStarts \/ crash
    <3>1. CASE landPendingDeletesAt
      BY <1>t, <3>1, LandingWork
    <3>2. CASE landingStarts
      BY <1>t, <3>2 DEF Types, WorkType, landingStarts, Resting, AtAddress
    <3>3. CASE crash
      BY <3>3 DEF crash, Resting
    <3> QED BY <2>4, <3>1, <3>2, <3>3
  <2>5. ASSUME NEW v \in Retrier, Retry(v)
        PROVE  \E at \in {"rest", "check", "send", "forget"}, e \in Entry \cup {None} : Retrying(v, at, e)
    <3>1. work[v].entry \in Entry \cup {None} /\ work[v].todo \subseteq Entry
      BY <1>t DEF Types, WorkType
    <3> QED BY <2>5, <3>1 DEF retryRetiredWebhook, retryHeld, retriedDelete, retryDone, RetriedNow
  <2> QED
    BY <2>1, <2>2, <2>3, <2>4, <2>5
       DEF movePointer, reconcileOnce, applyCreate, applyUpdate, applyDelete, unregisterWebhook,
           teardownDeleted, teardownTimesOut, clearStore, dropRow, enablePolling, registerWebhook,
           registerWebhookOnce, recordRegistration, standUp, awaitLanded, recordMaterialized, landingEnds,
           lateDeleteAnswered, newEvent, pollActivation, admitActivationRun, commitCursor, commitEpoch,
           pollFails
<1>7. \E h : lost' \subseteq lost \cup {h}
  BY DEF movePointer, reconcileOnce, applyCreate, applyUpdate, applyDelete, queueRetries, unregisterWebhook,
         teardownDeleted, teardownTimesOut, clearStore, dropRow, enablePolling, registerWebhook,
         registerWebhookOnce, recordRegistration, standUp, awaitLanded, recordMaterialized,
         landPendingDeletesAt, landingEnds, lateDeleteAnswered, landingStarts, retryRetiredWebhook, retryHeld,
         retriedDelete, retryDone, newEvent, pollActivation, admitActivationRun, commitCursor, commitEpoch,
         pollFails, crash
<1>8. \E h : rec'.finished \subseteq rec.finished \cup {h}
  <2>1. CASE Reconciling
    <3>1. CASE Applied \/ rec' = NoWork
      <4>1. CASE Applied
        BY <4>1 DEF Applied, NoWork
      <4>2. CASE rec' = NoWork
        BY <4>2 DEF NoWork
      <4> QED BY <3>1, <4>1, <4>2
    <3>2. CASE reconcileOnce
      <4>1. \A want, todo : rec' = [rec EXCEPT !.at = "plan", !.want = want, !.pending = retired, !.todo = todo]
                              => rec'.finished = rec.finished
        BY <1>t DEF Types, RecType
      <4> DEFINE want == deriveDesiredActivations(pointer)
      <4>2. rec' = [rec EXCEPT !.at = "plan", !.want = want, !.pending = retired,
                               !.todo = reconcileActivations(want)]
        BY <3>2 DEF reconcileOnce
      <4> HIDE DEF want
      <4> QED BY <4>1, <4>2
    <3>3. CASE \E k \in Key : applyCreate(k) \/ applyUpdate(k) \/ applyDelete(k)
      BY <1>t, <3>3 DEF Types, RecType, applyCreate, applyUpdate, applyDelete
    <3>4. CASE \E at : Next1(at)
      BY <1>t, <3>4 DEF Types, RecType, Next1
    <3>5. CASE registerWebhookOnce \/ standUp \/ awaitLanded \/ landingEnds \/ RegistrationFails
      BY <1>t, <3>1, <3>5, FailedRegistration
         DEF Types, RecType, registerWebhookOnce, standUp, awaitLanded, landingEnds, standUpFails
    <3> QED
      BY <2>1, <3>1, <3>2, <3>3, <3>4, <3>5
         DEF Reconciling, queueRetries, unregisterWebhook, teardownDeleted, teardownTimesOut, clearStore,
             dropRow, enablePolling, registerWebhook, recordRegistration, recordMaterialized,
             landPendingDeletesAt, standUpFails
  <2>2. CASE \E d : rec' = Told(rec, d)
    BY <1>t, <2>2 DEF Types, RecType, Told
  <2>3. CASE UNCHANGED rec
    BY <2>3
  <2>4. CASE crash
    BY <2>4 DEF crash, NoWork
  <2> QED
    BY <2>1, <2>2, <2>3, <2>4
       DEF movePointer, lateDeleteAnswered, landingStarts, retryRetiredWebhook, retryHeld, retriedDelete,
           retryDone, newEvent, pollActivation, admitActivationRun, commitCursor, commitEpoch, pollFails,
           EndsRetry
<1> QED BY <1>1, <1>2, <1>3, <1>4, <1>5, <1>6, <1>7, <1>8

LEMMA FiniteStep == IInv /\ [Next]_vars => Finite'
<1> SUFFICES ASSUME IInv, [Next]_vars PROVE Finite'
  OBVIOUS
<1>1. Finite
  BY DEF IInv
<1>2. CASE Next
  <2>1. /\ IsFiniteSet(webhooks') /\ IsFiniteSet(retired') /\ IsFiniteSet(fence') /\ IsFiniteSet(runs')
        /\ IsFiniteSet(lost') /\ IsFiniteSet(rec'.finished)
    <3>1. \A S, T : \A x : IsFiniteSet(S) /\ T \subseteq S \cup {x} => IsFiniteSet(T)
      BY FS_AddElement, FS_Subset
    <3> QED BY <1>1, <1>2, <3>1, GrowsByOne DEF Finite
  <2>2. IsFiniteSet(rec'.pending)
    BY <1>1, <1>2, GrowsByOne, FS_EmptySet DEF Finite
  <2>3. ASSUME NEW w \in Retrier PROVE IsFiniteSet(work'[w].todo)
    <3>1. IsFiniteSet(work[w].todo \cup rec.pending \cup retired)
      BY <1>1, FS_Union DEF Finite
    <3> QED BY <1>2, <3>1, GrowsByOne, FS_Subset
  <2> QED BY <2>1, <2>2, <2>3 DEF Finite
<1>3. CASE UNCHANGED vars
  BY <1>1, <1>3 DEF Finite, vars
<1> QED BY <1>2, <1>3

-----------------------------------------------------------------------------
(* What the reconcile knows of the activation it applies.                  *)

(* A poll writes only to the store of the activation it locks.             *)
LEMMA PollStores ==
  ASSUME IInv, Polling1
  PROVE  /\ \E k \in Key : /\ ~Applying(k) /\ rows[k] # None
                           /\ \A j \in Key \ {k} : store'[j] = store[j]
         /\ \A k \in Key : store'[k].hook = store[k].hook
         /\ store' \in [Key -> StoreType]
         /\ UNCHANGED <<pointer, rows, webhooks, retired, fence, rec, work, lost>>
<1>t. Types /\ PollLocks /\ Finite
  BY DEF IInv
<1>1. ASSUME NEW k \in Key, pollActivation(k) PROVE EpochOf(k) \in Nat
  BY <1>t, NewIdIsNat DEF EpochOf, Types, StoreType
<1>2. CASE \E k \in Key : pollActivation(k)
  <2>1. PICK k \in Key : pollActivation(k)
    BY <1>2
  <2>2. store' = [store EXCEPT ![k].epoch = EpochOf(k)] /\ EpochOf(k) \in Nat
    BY <1>1, <2>1 DEF pollActivation
  <2>3. /\ \A j \in Key \ {k} : store'[j] = store[j]
        /\ \A j \in Key : store'[j].hook = store[j].hook
        /\ store' \in [Key -> StoreType]
    BY <1>t, <2>2 DEF Types, StoreType
  <2> QED BY <2>1, <2>3 DEF pollActivation, PollDue
<1>3. CASE admitActivationRun
  BY <1>t, <1>3 DEF admitActivationRun, PollLocks, Types, Poll, StoreType
<1>4. CASE commitCursor
  BY <1>t, <1>4 DEF commitCursor, PollLocks, Types, Poll, StoreType
<1>5. CASE commitEpoch
  BY <1>t, <1>5, NewIdIsNat DEF commitEpoch, PollLocks, Types, Poll, StoreType
<1> QED BY <1>2, <1>3, <1>4, <1>5 DEF Polling1

(* What the reconcile knows outlasts whatever leaves its activation alone. *)
LEMMA RecKnowsFrame ==
  ASSUME Types, RecKnows, UNCHANGED rows,
         rec' = rec \/ \E d : rec' = Told(rec, d),
         rec.key # None => store'[rec.key] = store[rec.key]
  PROVE  RecKnows'
<1>1. /\ rec'.at = rec.at /\ rec'.key = rec.key /\ rec'.want = rec.want /\ rec'.todo = rec.todo
      /\ rec'.hook = rec.hook
  BY DEF Told, Types, RecType
<1>2. rec.at \in Standing \cup {"deleting", "drop"} => rec.key # None
  BY DEF RecKnows, Standing, Unkeyed
<1> QED BY <1>1, <1>2 DEF RecKnows, Desired, Standing

LEMMA RecKnowsStep == IInv /\ [Next]_vars => RecKnows'
<1> SUFFICES ASSUME IInv, [Next]_vars PROVE RecKnows'
  OBVIOUS
<1>t. Types /\ Types' /\ RecKnows /\ NewIsUnmet /\ RowlessIsEmpty
  BY TypesStep DEF IInv
<1>k. /\ rec.at \notin Unkeyed => rec.key \in Key /\ rows[rec.key] \in Row /\ Desired \in Setup \cup {None}
      /\ rec.at \in Standing => Desired \in Setup
      /\ \A k \in Key : store[k].hook # None => store[k].hook \in Handle
      /\ \A k \in rec.todo \ {rec.key} : rows[k] = None => rec.want[k] \in Setup
  BY <1>t, RecTyped
<1> USE DEF RecType, Unkeyed, Standing, TearingDown
<1>2. ASSUME reconcileOnce PROVE RecKnows'
  BY <1>t, <1>2, NoneAssumption DEF reconcileOnce, reconcileActivations, RecKnows, Types, Desired
<1>3. ASSUME NEW k \in Key, applyCreate(k) PROVE RecKnows'
  <2>1. rec.key = None /\ rec.hook = None /\ k \in rec.todo /\ rows[k] = None /\ rec.want[k] \in Setup
    BY <1>t, <1>k, <1>3, NoneAssumption DEF applyCreate, ToCreate, RecKnows
  <2>2. store[k] = EmptyStore
    BY <1>t, <2>1 DEF RowlessIsEmpty
  <2>3. CASE /\ rows' = [rows EXCEPT ![k] = [setup |-> rec.want[k], live |-> None]]
             /\ rec' = [rec EXCEPT !.at = "materialize", !.key = k]
    <3>1. rows'[k] # None /\ \A j \in Key \ {k} : rows'[j] = rows[j]
      BY <1>t, <2>1, <2>3, NoneAssumption DEF Types, Row
    <3>2. /\ rec'.at = "materialize" /\ rec'.key = k /\ rec'.hook = None /\ rec'.todo = rec.todo
          /\ rec'.want = rec.want /\ UNCHANGED store
      BY <1>t, <1>3, <2>1, <2>3 DEF applyCreate, Types
    <3> QED BY <1>t, <2>1, <2>2, <3>1, <3>2, NoneAssumption DEF RecKnows, Desired, EmptyStore, Types
  <2>4. CASE rec' = [rec EXCEPT !.todo = @ \ {k}] /\ UNCHANGED rows
    BY <1>t, <1>3, <2>1, <2>4 DEF applyCreate, RecKnows, Types
  <2> QED BY <1>3, <2>3, <2>4 DEF applyCreate
<1>4. ASSUME NEW k \in Key, applyUpdate(k) PROVE RecKnows'
  <2>1. rec.key = None /\ rec.hook = None /\ k \in rec.todo /\ rows[k] # None
    BY <1>t, <1>4 DEF applyUpdate, ToUpdate, RecKnows
  <2>2. \A j \in Key : rows'[j] = None <=> rows[j] = None
    <3>1. rows' \in [Key -> Row \cup {None}] /\ rows' = [rows EXCEPT ![k].setup = rec.want[k]]
      BY <1>t, <1>4 DEF applyUpdate, Types
    <3>2. rec.want[k] \in Setup /\ rows[k] \in Row
      BY <1>t, <1>4, <2>1 DEF applyUpdate, ToUpdate, Types
    <3>3. rows'[k] = [rows[k] EXCEPT !.setup = rec.want[k]] /\ \A j \in Key \ {k} : rows'[j] = rows[j]
      BY <1>t, <3>1 DEF Types
    <3>4. rows'[k] \in Row
      BY <3>2, <3>3 DEF Row
    <3> QED BY <2>1, <3>3, <3>4, NoneAssumption
  <2>3. /\ rec'.at = "teardown" /\ rec'.key = k /\ rec'.hook = None /\ rec'.todo = rec.todo
        /\ rec'.want = rec.want /\ UNCHANGED store
    BY <1>t, <1>4, <2>1 DEF applyUpdate, Types
  <2> QED BY <1>t, <2>1, <2>2, <2>3, NoneAssumption DEF RecKnows, Types
<1>5. ASSUME NEW k \in Key, applyDelete(k) PROVE RecKnows'
  BY <1>t, <1>k, <1>5, NoneAssumption DEF applyDelete, ToDelete, RecKnows, Types, Desired
<1>6. ASSUME rec' = NoWork PROVE RecKnows'
  BY <1>6, NoneAssumption DEF NoWork, RecKnows
<1>7. ASSUME unregisterWebhook PROVE RecKnows'
  BY <1>t, <1>k, <1>7 DEF unregisterWebhook, Next1, RecKnows, Types, Desired
<1>8. ASSUME teardownDeleted \/ teardownTimesOut PROVE RecKnows'
  BY <1>t, <1>k, <1>8 DEF teardownDeleted, teardownTimesOut, Next1, RecKnows, Types, Desired
<1>9. ASSUME clearStore PROVE RecKnows'
  BY <1>t, <1>k, <1>9 DEF clearStore, EmptyStore, Next1, RecKnows, Types, Desired
<1>10. ASSUME dropRow PROVE RecKnows'
  BY <1>t, <1>k, <1>10, NoneAssumption DEF dropRow, Applied, NoWork, RecKnows, Types, Desired
<1>11. ASSUME Applied, UNCHANGED rows PROVE RecKnows'
  BY <1>t, <1>k, <1>11, NoneAssumption DEF Applied, NoWork, RecKnows, Types, Desired
<1>12. ASSUME enablePolling, ~Applied PROVE RecKnows'
  <2>1. /\ rec.at = "materialize" /\ rec.key \in Key /\ store[rec.key].hook = None /\ rec.hook = None
        /\ UNCHANGED <<rows, webhooks>>
    BY <1>t, <1>k, <1>12 DEF enablePolling, RecKnows, EmptyStore
  <2>2. /\ rec'.at = "live" /\ rec'.key = rec.key /\ rec'.hook = rec.hook /\ rec'.todo = rec.todo
        /\ rec'.want = rec.want /\ Desired' = Desired
    BY <1>t, <1>12 DEF enablePolling, standUpFails, Next1, Types, Desired
  <2>3. store'[rec.key].hook = None
    BY <1>t, <1>12, <2>1 DEF enablePolling, standUpFails, Types, StoreType
  <2> QED BY <1>t, <1>k, <2>1, <2>2, <2>3 DEF RecKnows
<1>13. ASSUME registerWebhook PROVE RecKnows'
  BY <1>t, <1>k, <1>13 DEF registerWebhook, Next1, RecKnows, Types, Desired
<1>n. ASSUME registerWebhookOnce, ~RegistrationFails PROVE RecKnows'
  <2> DEFINE a == AppOf[Desired]
             h == Registered(a)
  <2>1. Answers(a, h)
    BY DEF Registered, FreshHandle, Answers
  <2>2. rec.key \in Key /\ rows[rec.key] # None /\ rec.at = "register"
    BY <1>t, <1>k, <1>n DEF registerWebhookOnce, RecKnows
  <2>3. webhooks' = webhooks \cup {h} /\ rec' = [rec EXCEPT !.at = "record", !.hook = h]
    BY <1>n DEF registerWebhookOnce
  <2>4. /\ rec'.at = "record" /\ rec'.key = rec.key /\ rec'.hook = h /\ rec'.todo = rec.todo
        /\ rec'.want = rec.want /\ Desired' = Desired /\ UNCHANGED <<rows, store>>
    BY <1>t, <1>n, <2>3 DEF registerWebhookOnce, Types, Desired
  <2>5. h # None
    BY <1>t, <2>3, NoneAssumption DEF Types
  <2> HIDE DEF h
  <2> QED BY <1>t, <1>k, <2>1, <2>2, <2>4, <2>5 DEF RecKnows
<1>f. ASSUME RegistrationFails, ~Applied, rec.at \in {"register", "record"}, UNCHANGED <<rows, store>>
      PROVE  RecKnows'
  BY <1>t, <1>k, <1>f, FailedRegistration DEF RecKnows
<1>o. ASSUME recordRegistration, ~RegistrationFails PROVE RecKnows'
  <2>1. rec.key \in Key /\ rec.hook # None /\ Answers(AppOf[Desired], rec.hook)
    BY <1>t, <1>k, <1>o, NoneAssumption DEF recordRegistration, RecKnows
  <2>2. store'[rec.key].hook = rec.hook
    BY <1>t, <1>o, <2>1 DEF recordRegistration, Types, StoreType
  <2>3. /\ rec'.at = "forget" /\ rec'.key = rec.key /\ rec'.hook = rec.hook /\ rec'.todo = rec.todo
        /\ rec'.want = rec.want /\ Desired' = Desired /\ UNCHANGED <<rows, webhooks>>
    BY <1>t, <1>o DEF recordRegistration, Next1, Types, Desired
  <2> QED BY <1>t, <1>k, <1>o, <2>1, <2>2, <2>3, NoneAssumption DEF RecKnows, recordRegistration
<1>14. ASSUME registerWebhookOnce PROVE RecKnows'
  <2>1. rec.at = "register" /\ UNCHANGED <<rows, store>>
    BY <1>14 DEF registerWebhookOnce
  <2> QED BY <1>n, <1>f, <1>11, <1>14, <2>1
<1>15. ASSUME recordRegistration PROVE RecKnows'
  <2>1. CASE RegistrationFails
    <3>1. rec.at = "record" /\ UNCHANGED rows
      BY <1>15 DEF recordRegistration
    <3>2. rec'.at # "forget"
      <4>1. Applied => rec'.at = "plan"
        BY DEF Applied, NoWork
      <4> QED BY <1>t, <2>1, <4>1, FailedRegistration
    <3>3. UNCHANGED store
      BY <1>t, <1>15, <3>2 DEF recordRegistration, Next1, Types
    <3> QED BY <1>f, <1>11, <2>1, <3>1, <3>3
  <2> QED BY <1>o, <1>15, <2>1
<1>16. ASSUME standUp PROVE RecKnows'
  <2>1. /\ rec.at = "forget" /\ rec.key \in Key /\ rec'.key = rec.key /\ rec'.todo = rec.todo
        /\ rec'.want = rec.want /\ rec'.hook = None /\ Desired' = Desired /\ UNCHANGED <<rows, store>>
    BY <1>t, <1>k, <1>16 DEF standUp, Types, Desired
  <2>2. rec'.at = "live" \/ (rec'.at = "await" /\ AppOf[Desired] \in Upserts)
    BY <1>t, <1>16, <2>1 DEF standUp, NewIsUnmet, Types
  <2> QED BY <1>t, <1>k, <2>1, <2>2 DEF RecKnows
<1>17. ASSUME awaitLanded PROVE RecKnows'
  BY <1>t, <1>k, <1>17 DEF awaitLanded, RecKnows, Types, Desired
<1>18. ASSUME recordMaterialized PROVE RecKnows'
  BY <1>t, <1>k, <1>18, NoneAssumption DEF recordMaterialized, Applied, NoWork, RecKnows, Types, Desired, Row
<1>19. ASSUME landPendingDeletesAt \/ landingEnds, ~Applied PROVE RecKnows'
  <2>1. /\ rec.at \in {"land", "landing"}
        /\ \/ rec' = [rec EXCEPT !.at = "landing"]
           \/ rec' = [rec EXCEPT !.at = "register", !.again = TRUE]
        /\ UNCHANGED <<rows, store, webhooks>>
    BY <1>19 DEF landPendingDeletesAt, landingEnds, Next1, standUpFails
  <2>2. rec \in RecType
    BY <1>t DEF Types
  <2>3. /\ rec'.at \in {"landing", "register"} /\ rec'.key = rec.key /\ rec'.hook = rec.hook
        /\ rec'.todo = rec.todo /\ rec'.want = rec.want
    BY <2>1, <2>2 DEF RecType
  <2>4. Desired' = Desired
    BY <2>1, <2>3 DEF Desired
  <2> QED BY <1>t, <1>k, <2>1, <2>3, <2>4 DEF RecKnows, Unkeyed, Standing
<1>20. CASE Reconciling
  BY <1>2, <1>3, <1>4, <1>5, <1>6, <1>7, <1>8, <1>9, <1>10, <1>11, <1>12, <1>13, <1>14, <1>15, <1>16, <1>17,
     <1>18, <1>19, <1>20
     DEF Reconciling, queueRetries, enablePolling, landPendingDeletesAt, landingEnds
<1>21. ASSUME rec' = rec \/ \E d : rec' = Told(rec, d), UNCHANGED <<rows, store>>
       PROVE  RecKnows'
  BY <1>t, <1>21, RecKnowsFrame
<1>22. CASE Polling1
  BY <1>t, <1>22, PollStores, RecKnowsFrame DEF Applying, Types
<1> QED
  BY <1>6, <1>20, <1>21, <1>22
     DEF Next, vars, Retry, movePointer, lateDeleteAnswered, landingStarts, retryRetiredWebhook, retryHeld,
         retriedDelete, retryDone, newEvent, pollFails, crash, EndsRetry

LEMMA RowlessIsEmptyStep == IInv /\ [Next]_vars => RowlessIsEmpty'
<1> SUFFICES ASSUME IInv, [Next]_vars PROVE RowlessIsEmpty'
  OBVIOUS
<1>t. Types /\ Types' /\ RecKnows /\ RowlessIsEmpty
  BY TypesStep DEF IInv
<1>k. rec.at \notin Unkeyed => rec.key \in Key /\ rows[rec.key] # None
  BY <1>t DEF Types, RecType, RecKnows
<1> USE DEF Unkeyed
<1>1. CASE UNCHANGED <<rows, store>>
  BY <1>t, <1>1 DEF RowlessIsEmpty
<1>2. CASE Polling1
  BY <1>t, <1>2, PollStores DEF RowlessIsEmpty
<1>3. CASE clearStore \/ enablePolling \/ recordRegistration
  <2>1. /\ rec.key \in Key /\ rows[rec.key] # None /\ UNCHANGED rows
        /\ \A k \in Key \ {rec.key} : store'[k] = store[k]
    BY <1>t, <1>k, <1>3 DEF clearStore, enablePolling, recordRegistration, Types
  <2> QED BY <1>t, <2>1 DEF RowlessIsEmpty
<1>4. CASE dropRow
  BY <1>t, <1>k, <1>4, NoneAssumption DEF dropRow, RowlessIsEmpty, RecKnows, Types
<1>5. ASSUME NEW k \in Key, NEW row \in Row, rows' = [rows EXCEPT ![k] = row], UNCHANGED store
      PROVE  RowlessIsEmpty'
  BY <1>t, <1>5, NoneAssumption DEF RowlessIsEmpty, Types
<1>6. ASSUME NEW k \in Key, applyCreate(k) PROVE RowlessIsEmpty'
  <2>1. k \in rec.todo \ {rec.key} /\ rows[k] = None
    BY <1>t, <1>6, NoneAssumption DEF applyCreate, ToCreate, RecKnows
  <2>2. [setup |-> rec.want[k], live |-> None] \in Row
    BY <1>t, <2>1, RecTyped DEF Row
  <2> QED BY <1>1, <1>5, <1>6, <2>2 DEF applyCreate
<1>7. ASSUME NEW k \in Key, applyUpdate(k) PROVE RowlessIsEmpty'
  <2>1. rows[k] \in Row /\ rec.want[k] \in Setup
    BY <1>t, <1>7 DEF applyUpdate, ToUpdate, Types, RecType
  <2>2. [rows[k] EXCEPT !.setup = rec.want[k]] \in Row
    BY <2>1 DEF Row
  <2>3. rows' = [rows EXCEPT ![k] = [rows[k] EXCEPT !.setup = rec.want[k]]]
    BY <1>t, <1>7 DEF applyUpdate, Types
  <2> QED BY <1>5, <1>7, <2>2, <2>3 DEF applyUpdate
<1>8. CASE recordMaterialized
  <2>1. rec.key \in Key /\ rows[rec.key] \in Row /\ Desired \in Setup
    BY <1>t, <1>8, RecTyped DEF recordMaterialized, Standing
  <2>2. [rows[rec.key] EXCEPT !.live = Desired] \in Row
    BY <2>1 DEF Row
  <2>3. rows' = [rows EXCEPT ![rec.key] = [rows[rec.key] EXCEPT !.live = Desired]]
    BY <1>t, <1>8 DEF recordMaterialized, Types
  <2> QED BY <1>5, <1>8, <2>1, <2>2, <2>3 DEF recordMaterialized
<1> QED
  BY <1>1, <1>2, <1>3, <1>4, <1>6, <1>7, <1>8
     DEF Next, vars, Reconciling, Retry, movePointer, reconcileOnce, applyDelete, queueRetries,
         unregisterWebhook, teardownDeleted, teardownTimesOut, registerWebhook, registerWebhookOnce, standUp,
         awaitLanded, landPendingDeletesAt, landingEnds, lateDeleteAnswered, landingStarts,
         retryRetiredWebhook, retryHeld, retriedDelete, retryDone, newEvent, pollFails, crash

(* The lock of the activation that is applied: what becomes of it.         *)
LEMMA LockStep ==
  ASSUME IInv, Next
  PROVE  \/ rec'.key = rec.key
         \/ rec'.key = None
         \/ \E k \in Key : /\ rec'.key = k
                           /\ UNCHANGED poll
                           /\ ~Polled(k) \/ rows[k] = None
<1>t. Types /\ RecKnows
  BY DEF IInv
<1>1. CASE Reconciling
  <2>1. CASE Applied \/ rec' = NoWork
    <3>1. rec'.key = None
      <4>1. CASE Applied
        BY <4>1 DEF Applied, NoWork
      <4>2. CASE rec' = NoWork
        BY <4>2 DEF NoWork
      <4> QED BY <2>1, <4>1, <4>2
    <3> QED BY <3>1
  <2>2. CASE \E at : Next1(at)
    BY <1>t, <2>2 DEF Types, RecType, Next1
  <2>3. CASE \E k \in Key : applyCreate(k)
    BY <1>t, <2>3 DEF Types, RecType, applyCreate, ToCreate
  <2>4. CASE \E k \in Key : applyUpdate(k) \/ applyDelete(k)
    BY <1>t, <2>4 DEF Types, RecType, applyUpdate, applyDelete
  <2>5. CASE reconcileOnce
    <3>1. \A want, todo : rec' = [rec EXCEPT !.at = "plan", !.want = want, !.pending = retired, !.todo = todo]
                            => rec'.key = rec.key
      BY <1>t DEF Types, RecType
    <3> DEFINE want == deriveDesiredActivations(pointer)
    <3>2. rec' = [rec EXCEPT !.at = "plan", !.want = want, !.pending = retired,
                             !.todo = reconcileActivations(want)]
      BY <2>5 DEF reconcileOnce
    <3> HIDE DEF want
    <3> QED BY <3>1, <3>2
  <2>6. CASE (registerWebhookOnce \/ recordRegistration \/ standUp \/ awaitLanded \/ landingEnds) /\ ~Applied
    BY <1>t, <2>6, FailedRegistration
       DEF Types, RecType, registerWebhookOnce, recordRegistration, Next1, standUp, awaitLanded, landingEnds,
           standUpFails
  <2> QED
    BY <1>1, <2>1, <2>2, <2>3, <2>4, <2>5, <2>6
       DEF Reconciling, queueRetries, unregisterWebhook, teardownDeleted, teardownTimesOut, clearStore,
           dropRow, enablePolling, registerWebhook, recordRegistration, recordMaterialized,
           landPendingDeletesAt, standUpFails, registerWebhookOnce, landingEnds
<1>2. CASE \E d : rec' = Told(rec, d)
  BY <1>t, <1>2 DEF Types, RecType, Told
<1>3. CASE crash
  BY <1>3 DEF crash, NoWork
<1> QED
  BY <1>1, <1>2, <1>3, PollStores
     DEF Next, Retry, movePointer, lateDeleteAnswered, landingStarts, retryRetiredWebhook, retryHeld,
         retriedDelete, retryDone, newEvent, pollFails, EndsRetry

LEMMA PollLocksStep == IInv /\ [Next]_vars => PollLocks'
<1> SUFFICES ASSUME IInv, [Next]_vars PROVE PollLocks'
  OBVIOUS
<1>t. Types /\ Types' /\ RecKnows /\ PollLocks /\ Finite
  BY TypesStep DEF IInv
<1>1. CASE \E k \in Key : pollActivation(k)
  BY <1>t, <1>1, NoneAssumption DEF pollActivation, PollDue, Begins, PollLocks, Applying
<1>2. CASE admitActivationRun \/ commitCursor \/ commitEpoch \/ pollFails
  BY <1>t, <1>2 DEF admitActivationRun, commitCursor, commitEpoch, pollFails, PollLocks, Applying, Types, Poll
<1>3. CASE crash
  BY <1>3 DEF crash, PollLocks
<1>4. CASE UNCHANGED poll /\ Next
  <2> SUFFICES ASSUME poll # None PROVE ~Applying(poll.key)' /\ rows'[poll.key] # None
    BY <1>4 DEF PollLocks, Applying
  <2>1. poll.key \in Key /\ ~Applying(poll.key) /\ rows[poll.key] # None
    BY <1>t DEF PollLocks, Types, Poll
  <2>2. rec'.key # poll.key
    BY <2>1, <1>4, LockStep, NoneAssumption DEF Applying, Polled
  <2>3. rows'[poll.key] # None
    <3>1. CASE UNCHANGED rows
      BY <2>1, <3>1
    <3>2. CASE \E k \in Key : applyCreate(k) \/ applyUpdate(k)
      <4>1. PICK k \in Key : applyCreate(k) \/ applyUpdate(k)
        BY <3>2
      <4>2. rec'.key = k \/ UNCHANGED rows
        BY <1>t, <4>1 DEF applyCreate, applyUpdate, Types, RecType
      <4>3. \A j \in Key \ {k} : rows'[j] = rows[j]
        BY <1>t, <4>1 DEF applyCreate, applyUpdate, Types
      <4> QED BY <2>1, <2>2, <4>2, <4>3
    <3>3. CASE dropRow \/ recordMaterialized
      BY <1>t, <2>1, <3>3 DEF dropRow, recordMaterialized, Types, Applying
    <3> QED
      BY <1>4, <3>1, <3>2, <3>3, PollStores
         DEF Next, Reconciling, Retry, movePointer, reconcileOnce, applyDelete, queueRetries,
             unregisterWebhook, teardownDeleted, teardownTimesOut, clearStore, enablePolling, registerWebhook,
             registerWebhookOnce, recordRegistration, standUp, awaitLanded, landPendingDeletesAt, landingEnds,
             lateDeleteAnswered, landingStarts, retryRetiredWebhook, retryHeld, retriedDelete, retryDone,
             newEvent, pollFails, crash
  <2> QED BY <1>4, <2>2, <2>3 DEF Applying
<1>5. CASE UNCHANGED vars
  BY <1>t, <1>5 DEF vars, PollLocks, Applying
<1> QED
  BY <1>1, <1>2, <1>3, <1>4, <1>5
     DEF Next, Reconciling, Retry, Polling1, movePointer, reconcileOnce, applyCreate, applyUpdate, applyDelete,
         queueRetries, unregisterWebhook, teardownDeleted, teardownTimesOut, clearStore, dropRow, enablePolling,
         registerWebhook, registerWebhookOnce, recordRegistration, standUp, awaitLanded, recordMaterialized,
         landPendingDeletesAt, landingEnds, lateDeleteAnswered, landingStarts, retryRetiredWebhook, retryHeld,
         retriedDelete, retryDone, newEvent

-----------------------------------------------------------------------------
(* Pending deletes and their retries.                                      *)

LEMMA EntriesDifferStep == IInv /\ [Next]_vars => EntriesDiffer'
<1> SUFFICES ASSUME IInv, [Next]_vars PROVE EntriesDiffer'
  OBVIOUS
<1>t. Types /\ Finite /\ RecKnows /\ EntriesDiffer
  BY DEF IInv
<1>1. CASE retired' \subseteq retired
  BY <1>t, <1>1 DEF EntriesDiffer
<1>2. ASSUME NEW h, retire(h) PROVE EntriesDiffer'
  <2>1. \A e \in retired : e.id # FreshId
    BY <1>t, FreshIdIsFresh, NoneAssumption DEF EntriesInUse, Types
  <2> QED BY <1>t, <1>2, <2>1 DEF retire, EntriesDiffer
<1> QED
  BY <1>1, <1>2, PollStores
     DEF Next, vars, Reconciling, Retry, movePointer, reconcileOnce, applyCreate, applyUpdate, applyDelete,
         queueRetries, unregisterWebhook, teardownDeleted, teardownTimesOut, clearStore, dropRow,
         enablePolling, registerWebhook, registerWebhookOnce, recordRegistration, standUp, awaitLanded,
         recordMaterialized, landPendingDeletesAt, landingEnds, lateDeleteAnswered, landingStarts,
         retryRetiredWebhook, retryHeld, retriedDelete, retryDone, newEvent, pollFails, crash

(* A retrier's step leaves the other alone.                                *)
LEMMA OtherRetriers ==
  ASSUME IInv, NEW w \in Retrier, Retry(w)
  PROVE  \A v \in Retrier \ {w} : work'[v] = work[v]
<1>1. PICK at \in {"rest", "check", "send", "forget"}, e \in Entry \cup {None} : Retrying(w, at, e)
  <2>1. work[w].entry \in Entry \cup {None} /\ work[w].todo \subseteq Entry
    BY DEF IInv, Types, WorkType
  <2> QED BY <2>1 DEF Retry, retryRetiredWebhook, retryHeld, retriedDelete, retryDone, RetriedNow
<1> QED BY <1>1, RetryingTyped DEF IInv

(* What becomes of a retrier, unless it takes a step of its own: it keeps  *)
(* to what it is at, or rests.                                             *)
LEMMA RetrierStep ==
  ASSUME IInv, Next, NEW w \in Retrier
  PROVE  \/ Retry(w)
         \/ work'[w].at = work[w].at /\ work'[w].entry = work[w].entry
         \/ work'[w].at \in {"rest", "await"}
<1>t. Types
  BY DEF IInv
<1>1. CASE queueRetries
  BY <1>t, <1>1 DEF queueRetries, Types, WorkType
<1>2. CASE landPendingDeletesAt
  BY <1>t, <1>2, LandingWork
<1>3. CASE landingStarts
  BY <1>t, <1>3 DEF landingStarts, Types, WorkType, Resting
<1>4. CASE crash
  BY <1>4 DEF crash, Resting
<1>5. ASSUME NEW v \in Retrier \ {w}, Retry(v) PROVE work'[w] = work[w]
  BY <1>5, OtherRetriers
<1>6. CASE UNCHANGED work
  BY <1>6
<1> QED
  BY <1>1, <1>2, <1>3, <1>4, <1>5, <1>6, PollStores
     DEF Next, Reconciling, movePointer, reconcileOnce, applyCreate, applyUpdate, applyDelete,
         unregisterWebhook, teardownDeleted, teardownTimesOut, clearStore, dropRow, enablePolling,
         registerWebhook, registerWebhookOnce, recordRegistration, standUp, awaitLanded, recordMaterialized,
         landingEnds, lateDeleteAnswered, newEvent, pollFails

(* The step of a retrier, by where it was.                                 *)
LEMMA RetryStep ==
  ASSUME IInv, NEW w \in Retrier, Retry(w)
  PROVE  LET e == work[w].entry
             d == [handle |-> e.handle, by |-> w]
         IN  \/ /\ work'[w].at = "rest" /\ UNCHANGED <<fence, rec, retired, webhooks, lost>>
             \/ /\ work'[w].at = "check" /\ work'[w].entry \in retired
                /\ fence' = fence \cup {[handle |-> work'[w].entry.handle, by |-> w]}
                /\ UNCHANGED <<rec, retired, webhooks, lost>>
             \/ /\ work[w].at = "check" /\ work'[w].at = "send" /\ work'[w].entry = e
                /\ ~registrationHeld(e.handle, None)
                /\ UNCHANGED <<fence, rec, retired, webhooks, lost>>
             \/ /\ work[w].at = "check" /\ work'[w].at = "forget" /\ work'[w].entry = e
                /\ registrationHeld(e.handle, None)
                /\ fence' = fence \ {d} /\ rec' = Told(rec, d)
                /\ lost \subseteq lost'
                /\ rec.at = "clear" /\ ~registrationHeld(e.handle, rec.key) => e.handle \in lost'
                /\ UNCHANGED <<retired, webhooks>>
             \/ /\ work[w].at = "send" /\ work'[w].at = "forget" /\ work'[w].entry = e
                /\ fence' = fence \ {d} /\ rec' = Told(rec, d)
                /\ \/ webhooks' = webhooks \ {e.handle} /\ UNCHANGED lost
                   \/ UNCHANGED webhooks /\ lost' = lost \cup {e.handle}
                /\ UNCHANGED retired
             \/ /\ work[w].at = "send" /\ work'[w].at = "rest"
                /\ fence' = fence \ {d} /\ rec' = Told(rec, d)
                /\ webhooks' \in {webhooks, webhooks \ {e.handle}}
                /\ UNCHANGED <<retired, lost>>
             \/ /\ work[w].at = "forget" /\ work'[w].at = "rest"
                /\ retired' = retired \ {e}
                /\ UNCHANGED <<fence, rec, webhooks, lost>>
<1>t. Types /\ RetryFenced
  BY DEF IInv
<1>0. work[w].entry \in Entry \cup {None} /\ work[w].todo \subseteq Entry
  BY <1>t DEF Types, WorkType
<1>1. ASSUME NEW e \in work[w].todo, retryRetiredWebhook(w, e)
      PROVE  \/ /\ work'[w].at = "rest" /\ UNCHANGED <<fence, rec, retired, webhooks, lost>>
             \/ /\ work'[w].at = "check" /\ work'[w].entry \in retired
                /\ fence' = fence \cup {[handle |-> work'[w].entry.handle, by |-> w]}
                /\ UNCHANGED <<rec, retired, webhooks, lost>>
  <2>1. CASE e \notin retired /\ Retrying(w, "rest", e)
    BY <1>t, <1>0, <1>1, <2>1, RetryingTyped DEF retryRetiredWebhook
  <2>2. CASE /\ e \in retired /\ Retrying(w, "check", e)
             /\ fence' = fence \cup {[handle |-> e.handle, by |-> w]}
    BY <1>t, <1>0, <1>1, <2>2, RetryingTyped DEF retryRetiredWebhook
  <2> QED BY <1>1, <2>1, <2>2 DEF retryRetiredWebhook
<1>2. CASE retryHeld(w)
  <2>1. work[w].at = "check" /\ UNCHANGED <<retired, webhooks>>
    BY <1>2 DEF retryHeld
  <2>2. CASE registrationHeld(work[w].entry.handle, None)
    BY <1>t, <1>0, <1>2, <2>1, <2>2, RetryingTyped DEF retryHeld, EndsRetry, Leaves
  <2>3. CASE ~registrationHeld(work[w].entry.handle, None)
    BY <1>t, <1>0, <1>2, <2>1, <2>3, RetryingTyped DEF retryHeld
  <2> QED BY <2>2, <2>3
<1>3. CASE retriedDelete(w)
  BY <1>t, <1>0, <1>3, RetryingTyped DEF retriedDelete, EndsRetry, Leaves, Deleted, Refused, Unreported, RetriedNow
<1>4. CASE retryDone(w)
  BY <1>t, <1>0, <1>4, RetryingTyped DEF retryDone, RetriedNow
<1> QED BY <1>1, <1>2, <1>3, <1>4 DEF Retry

LEMMA RetryFencedStep == IInv /\ [Next]_vars => RetryFenced'
<1> SUFFICES ASSUME IInv, [Next]_vars, NEW w \in Retrier
             PROVE  /\ work'[w].at \in {"check", "send", "forget"} => work'[w].entry # None
                    /\ work'[w].at \in {"check", "send"} => [handle |-> work'[w].entry.handle, by |-> w] \in fence'
  BY DEF RetryFenced
<1>t. Types /\ RetryFenced
  BY DEF IInv
<1>1. CASE Retry(w)
  <2>1. retired \subseteq Entry
    BY <1>t DEF Types
  <2> QED BY <1>t, <1>1, <2>1, RetryStep, NoneAssumption DEF RetryFenced
<1>2. CASE Next /\ ~Retry(w)
  <2>1. \/ work'[w].at = work[w].at /\ work'[w].entry = work[w].entry
        \/ work'[w].at \in {"rest", "await"}
    BY <1>2, RetrierStep
  <2>2. CASE \A d \in fence : d.by = w => d \in fence'
    BY <1>t, <2>1, <2>2 DEF RetryFenced
  <2>3. CASE crash
    BY <2>3 DEF crash, Resting
  <2>4. ASSUME NEW v \in Retrier \ {w}, Retry(v) PROVE \A d \in fence : d.by = w => d \in fence'
    <3>1. \E h : fence \ {[handle |-> h, by |-> v]} \subseteq fence'
      BY <2>4, RetryStep, Zenon
    <3> QED BY <3>1
  <2>5. CASE \E h : fence \ {[handle |-> h, by |-> "teardown"]} \subseteq fence'
    BY <2>2, <2>5 DEF Retrier
  <2>6. CASE \E d \in fence : lateDeleteAnswered(d)
    BY <2>2, <2>6 DEF lateDeleteAnswered, Leaves, Retrier
  <2>7. CASE UNCHANGED fence
    BY <2>2, <2>7
  <2> QED
    BY <1>2, <2>2, <2>3, <2>4, <2>5, <2>6, <2>7, PollStores
       DEF Next, Reconciling, movePointer, reconcileOnce, applyCreate, applyUpdate, applyDelete, queueRetries,
           unregisterWebhook, teardownDeleted, teardownTimesOut, clearStore, dropRow, enablePolling,
           registerWebhook, registerWebhookOnce, recordRegistration, standUp, awaitLanded,
           recordMaterialized, landPendingDeletesAt, landingEnds, landingStarts, newEvent, pollFails, Leaves
<1>3. CASE UNCHANGED vars
  BY <1>t, <1>3 DEF vars, RetryFenced
<1> QED BY <1>1, <1>2, <1>3

-----------------------------------------------------------------------------
(* A webhook just made is met by no delete.                                *)

LEMMA NewIsUnmetStep == IInv /\ [Next]_vars => NewIsUnmet'
<1> SUFFICES ASSUME IInv, [Next]_vars PROVE NewIsUnmet'
  OBVIOUS
<1>t. Types /\ Finite /\ RecKnows /\ NewIsUnmet /\ RetryFenced
  BY DEF IInv
<1>1. CASE rec'.at \notin {"record", "forget"}
  BY <1>1 DEF NewIsUnmet
<1>2. CASE UNCHANGED <<rec, fence, retired>>
  BY <1>t, <1>2 DEF NewIsUnmet, Desired
(* A delete of the fence leaves it, and the stand-up is told.              *)
<1>3. ASSUME NEW d \in fence, fence' = fence \ {d}, UNCHANGED retired, rec' = Told(rec, d)
      PROVE  NewIsUnmet'
  <2>1. /\ rec'.at = rec.at /\ rec'.hook = rec.hook /\ Desired' = Desired
        /\ rec'.finished \subseteq rec.finished \cup {d.handle}
    BY <1>t, <1>3 DEF Told, Types, RecType, Desired
  <2> QED BY <1>t, <1>3, <2>1 DEF NewIsUnmet
<1>4. CASE \E d \in fence : lateDeleteAnswered(d)
  BY <1>3, <1>4 DEF lateDeleteAnswered, Leaves
<1>5. CASE \E w \in Retrier : Retry(w)
  <2>1. PICK w \in Retrier : Retry(w)
    BY <1>5
  <2> DEFINE e == work[w].entry
             d == [handle |-> e.handle, by |-> w]
  <2>2. CASE fence' = fence \ {d} /\ rec' = Told(rec, d) /\ UNCHANGED retired /\ work[w].at \in {"check", "send"}
    <3>1. d \in fence
      BY <1>t, <2>2 DEF RetryFenced
    <3> HIDE DEF d
    <3> QED BY <1>3, <2>2, <3>1
  <2>3. CASE UNCHANGED <<rec, fence>> /\ retired' \subseteq retired
    BY <1>t, <2>3 DEF NewIsUnmet, Desired
  <2>4. CASE /\ UNCHANGED <<rec, retired>> /\ work'[w].entry \in retired
             /\ fence' = fence \cup {[handle |-> work'[w].entry.handle, by |-> w]}
    BY <1>t, <2>4 DEF NewIsUnmet, Desired
  <2> HIDE DEF d, e
  <2>5. \/ UNCHANGED <<rec, fence>> /\ retired' \subseteq retired
        \/ fence' = fence \ {d} /\ rec' = Told(rec, d) /\ UNCHANGED retired /\ work[w].at \in {"check", "send"}
        \/ /\ UNCHANGED <<rec, retired>> /\ work'[w].entry \in retired
           /\ fence' = fence \cup {[handle |-> work'[w].entry.handle, by |-> w]}
    BY <2>1, RetryStep DEF d, e
  <2> QED BY <2>2, <2>3, <2>4, <2>5
<1>6. CASE Reconciling
  <2>1. CASE registerWebhookOnce
    <3> DEFINE a == AppOf[Desired]
               h == Registered(a)
    <3>1. SUFFICES ASSUME rec' = [rec EXCEPT !.at = "record", !.hook = h], a \notin Upserts
                   PROVE  NewIsUnmet'
      <4>1. Applied => rec'.at = "plan"
        BY DEF Applied, NoWork
      <4>2. \/ rec' = [rec EXCEPT !.at = "record", !.hook = h]
            \/ RegistrationFails
        BY <2>1 DEF registerWebhookOnce
      <4>3. rec' = [rec EXCEPT !.at = "record", !.hook = h] => Desired' = Desired
        BY <1>t DEF Types, RecType, Desired
      <4> QED BY <1>t, <1>1, <4>1, <4>2, <4>3, FailedRegistration DEF NewIsUnmet
    <3>2. UNCHANGED <<fence, retired>> /\ rec'.hook = h /\ rec'.finished = rec.finished
      BY <1>t, <2>1, <3>1 DEF registerWebhookOnce, Types, RecType
    <3>3. a \in App
      BY <1>t, <2>1, RecTyped DEF registerWebhookOnce, Standing, App
    <3>4. h \in Handle /\ h \notin HandlesInUse
      BY <1>t, <3>1, <3>3, FreshHandleIsFresh DEF Registered
    <3>5. h # None
      BY <3>4, NoneAssumption
    <3> HIDE DEF h
    <3> QED BY <3>2, <3>4, <3>5 DEF NewIsUnmet, HandlesInUse
  <2>2. CASE recordRegistration
    <3>1. CASE RegistrationFails
      <4>1. Applied => rec'.at = "plan"
        BY DEF Applied, NoWork
      <4> QED BY <1>t, <1>1, <3>1, <4>1, FailedRegistration
    <3>2. CASE Next1("forget")
      <4>1. /\ rec'.hook = rec.hook /\ rec'.finished = rec.finished /\ Desired' = Desired /\ rec.at = "record"
            /\ UNCHANGED <<fence, retired>>
        BY <1>t, <2>2, <3>2 DEF recordRegistration, Next1, Types, RecType, Desired
      <4> QED BY <1>t, <4>1 DEF NewIsUnmet
    <3> QED BY <2>2, <3>1, <3>2 DEF recordRegistration
  <2>3. CASE Applied \/ rec' = NoWork
    <3>1. CASE Applied
      BY <1>1, <3>1 DEF Applied, NoWork
    <3>2. CASE rec' = NoWork
      BY <1>1, <3>2 DEF NoWork
    <3> QED BY <2>3, <3>1, <3>2
  <2>4. CASE reconcileOnce
    <3>1. \A want, todo : rec' = [rec EXCEPT !.at = "plan", !.want = want, !.pending = retired, !.todo = todo]
                            => rec'.at = "plan"
      BY <1>t DEF Types, RecType
    <3> DEFINE want == deriveDesiredActivations(pointer)
    <3>2. rec' = [rec EXCEPT !.at = "plan", !.want = want, !.pending = retired,
                             !.todo = reconcileActivations(want)]
      BY <2>4 DEF reconcileOnce
    <3> HIDE DEF want
    <3> QED BY <1>1, <3>1, <3>2
  <2>5. CASE \E k \in Key : applyCreate(k) \/ applyUpdate(k) \/ applyDelete(k)
    <3>1. PICK k \in Key : applyCreate(k) \/ applyUpdate(k) \/ applyDelete(k)
      BY <2>5
    <3>2. rec'.at \in {"materialize", "teardown", "plan"}
      BY <1>t, <3>1 DEF applyCreate, applyUpdate, applyDelete, Types, RecType
    <3> QED BY <1>1, <3>2
  <2>6. ASSUME NEW at, at \notin {"record", "forget"}, Next1(at) PROVE NewIsUnmet'
    BY <1>t, <1>1, <2>6 DEF Next1, Types, RecType
  <2>7. CASE (standUp \/ awaitLanded \/ landingEnds) /\ ~Applied
    BY <1>t, <1>1, <2>7 DEF standUp, awaitLanded, landingEnds, standUpFails, Types, RecType
  <2> QED
    BY <1>6, <2>1, <2>2, <2>3, <2>4, <2>5, <2>6, <2>7
       DEF Reconciling, queueRetries, unregisterWebhook, teardownDeleted, teardownTimesOut, clearStore,
           dropRow, enablePolling, registerWebhook, recordMaterialized, landPendingDeletesAt, landingEnds,
           standUpFails
<1>7. CASE crash
  BY <1>1, <1>7 DEF crash, NoWork
<1> QED
  BY <1>2, <1>4, <1>5, <1>6, <1>7, PollStores
     DEF Next, vars, movePointer, landingStarts, newEvent, pollFails

-----------------------------------------------------------------------------
(* Every webhook is surely known.                                          *)

LEMMA ForgettingStep ==
  ASSUME IInv, Next
  PROVE  /\ (\A w \in Retrier : ~Retry(w)) => Forgetting' \subseteq Forgetting
         /\ \A w \in Retrier : Retry(w) =>
              /\ Forgetting' \subseteq Forgetting \cup {work'[w].entry}
              /\ work'[w].at # "forget" => Forgetting' \subseteq Forgetting
<1>1. ASSUME \A w \in Retrier : ~Retry(w) PROVE Forgetting' \subseteq Forgetting
  BY <1>1, RetrierStep DEF Forgetting
<1>2. ASSUME NEW w \in Retrier, Retry(w), NEW v \in Retrier \ {w} PROVE work'[v] = work[v]
  BY <1>2, OtherRetriers
<1> QED BY <1>1, <1>2 DEF Forgetting

(* What touches no record keeps what is known.                                   *)
LEMMA KnownKept ==
  ASSUME IInv, webhooks' \subseteq webhooks, retired' = retired, Forgetting' \subseteq Forgetting,
         lost \subseteq lost', rec'.hook = rec.hook,
         \A k \in Key : store'[k].hook = store[k].hook,
         rec'.at = "clear" => rec.at = "clear" /\ rec'.key = rec.key
  PROVE  AllSurelyKnown'
  BY DEF IInv, AllSurelyKnown, SurelyKnown, Holds

LEMMA RetryKnown ==
  ASSUME IInv, Next, NEW w \in Retrier, Retry(w)
  PROVE  AllSurelyKnown'
<1> DEFINE e == work[w].entry
<1>t. Types /\ AllSurelyKnown /\ retired \subseteq Entry
  BY DEF IInv, Types
<1>1. UNCHANGED store /\ lost \subseteq lost' /\ webhooks' \subseteq webhooks
  BY RetryStep
     DEF Retry, retryRetiredWebhook, retryHeld, retriedDelete, retryDone, Deleted, Refused, Unreported
<1>2. rec'.at = rec.at /\ rec'.key = rec.key /\ rec'.hook = rec.hook
  <2>1. rec' = rec \/ \E d : rec' = Told(rec, d)
    BY RetryStep
  <2> QED BY <1>t, <2>1 DEF Told, Types, RecType
<1>3. /\ Forgetting' \subseteq Forgetting \cup {work'[w].entry}
      /\ work'[w].at # "forget" => Forgetting' \subseteq Forgetting
  BY ForgettingStep
<1>4. \A k \in Key : \A h : Holds(k, h) => Holds(k, h)'
  BY <1>1, <1>2 DEF Holds
<1>5. CASE UNCHANGED retired /\ work'[w].at # "forget"
  BY <1>1, <1>2, <1>3, <1>5, KnownKept
<1>6. CASE work[w].at = "forget" /\ retired' = retired \ {e} /\ work'[w].at = "rest"
  <2>1. e \in Forgetting
    BY <1>6 DEF Forgetting
  <2> QED BY <1>t, <1>1, <1>2, <1>3, <1>4, <1>6, <2>1 DEF AllSurelyKnown, SurelyKnown
<1>7. CASE UNCHANGED retired /\ work'[w].entry = e /\ (e.handle \notin webhooks' \/ e.handle \in lost')
  BY <1>t, <1>1, <1>2, <1>3, <1>4, <1>7 DEF AllSurelyKnown, SurelyKnown
<1>8. CASE /\ UNCHANGED retired /\ work'[w].entry = e
           /\ registrationHeld(e.handle, None)
           /\ rec.at = "clear" /\ ~registrationHeld(e.handle, rec.key) => e.handle \in lost'
  <2> PICK g : g = e.handle
    OBVIOUS
  <2>1. g \in lost' \/ \E k \in Key : Holds(k, g)
    BY <1>8 DEF registrationHeld, Holds
  <2>2. SurelyKnown(g)'
    BY <1>4, <2>1 DEF SurelyKnown
  <2>3. \A h \in webhooks' : h # g => SurelyKnown(h)'
    BY <1>t, <1>1, <1>2, <1>3, <1>4, <1>8 DEF AllSurelyKnown, SurelyKnown
  <2> QED BY <2>2, <2>3 DEF AllSurelyKnown
<1> QED
  <2> HIDE DEF e
  <2>1. \/ UNCHANGED retired /\ work'[w].at \in {"rest", "check", "send"}
        \/ UNCHANGED retired /\ work'[w].entry = e /\ (e.handle \notin webhooks' \/ e.handle \in lost')
        \/ /\ UNCHANGED retired /\ work'[w].entry = e
           /\ registrationHeld(e.handle, None)
           /\ rec.at = "clear" /\ ~registrationHeld(e.handle, rec.key) => e.handle \in lost'
        \/ work[w].at = "forget" /\ retired' = retired \ {e} /\ work'[w].at = "rest"
    BY RetryStep DEF e
  <2> QED BY <1>5, <1>6, <1>7, <1>8, <2>1

LEMMA SurelyKnownStep == IInv /\ [Next]_vars => AllSurelyKnown'
<1> SUFFICES ASSUME IInv, [Next]_vars PROVE AllSurelyKnown'
  OBVIOUS
<1>t. Types /\ Types' /\ Finite /\ RecKnows /\ RecKnows' /\ AllSurelyKnown
  BY TypesStep, RecKnowsStep DEF IInv
<1>1. CASE UNCHANGED vars
  BY <1>1, KnownKept DEF vars, Forgetting
<1>2. CASE Next /\ \E w \in Retrier : Retry(w)
  BY <1>2, RetryKnown
<1>3. CASE Next /\ \A w \in Retrier : ~Retry(w)
  <2>f. Forgetting' \subseteq Forgetting
    BY <1>3, ForgettingStep
  <2>k. rec.at \notin Unkeyed => rec.key \in Key
    BY <1>t DEF Types, RecType, RecKnows
  <2>n. None \notin webhooks /\ None \notin webhooks'
    BY <1>t, NoneAssumption DEF Types
  <2> USE DEF Unkeyed
  <2>1. CASE UNCHANGED <<store, webhooks, retired, lost, rec>>
    BY <2>f, <2>1, KnownKept
  <2>2. CASE Polling1
    BY <2>f, <2>2, PollStores, KnownKept
  <2>3. CASE reconcileOnce \/ queueRetries \/ \E k \in Key : applyCreate(k) \/ applyUpdate(k) \/ applyDelete(k)
    <3>1. rec.hook = None /\ rec'.at \notin {"clear", "record", "forget"}
      <4>1. rec.at \in {"idle", "plan"}
        BY <2>3 DEF reconcileOnce, queueRetries, applyCreate, applyUpdate, applyDelete
      <4>2. CASE reconcileOnce
        <5>1. \A want, todo : rec' = [rec EXCEPT !.at = "plan", !.want = want, !.pending = retired, !.todo = todo]
                                => rec'.at = "plan"
          BY <1>t DEF Types, RecType
        <5> DEFINE want == deriveDesiredActivations(pointer)
        <5>2. rec' = [rec EXCEPT !.at = "plan", !.want = want, !.pending = retired,
                                 !.todo = reconcileActivations(want)]
          BY <4>2 DEF reconcileOnce
        <5> HIDE DEF want
        <5> QED BY <1>t, <4>1, <5>1, <5>2 DEF RecKnows
      <4>3. CASE queueRetries
        BY <1>t, <4>1, <4>3 DEF queueRetries, RecKnows, NoWork
      <4>4. CASE \E k \in Key : applyCreate(k) \/ applyUpdate(k) \/ applyDelete(k)
        BY <1>t, <4>1, <4>4 DEF applyCreate, applyUpdate, applyDelete, RecKnows, Types, RecType
      <4> QED BY <2>3, <4>2, <4>3, <4>4
    <3>2. UNCHANGED <<store, webhooks, retired, lost>>
      BY <2>3 DEF reconcileOnce, queueRetries, applyCreate, applyUpdate, applyDelete
    <3> QED BY <1>t, <2>f, <3>1, <3>2, KnownKept DEF RecKnows
  <2>4. CASE Applied /\ UNCHANGED <<store, webhooks, retired, lost>> /\ rec.hook = None
    <3>1. rec'.hook = None /\ rec'.at = "plan"
      BY <2>4 DEF Applied, NoWork
    <3> QED BY <2>f, <2>4, <3>1, KnownKept
  <2>5. CASE unregisterWebhook
    <3>1. /\ UNCHANGED <<store, webhooks, retired, lost>> /\ rec'.hook = rec.hook /\ rec'.key = rec.key
          /\ rec.at = "teardown" /\ rec'.at \in {"clear", "deleting"}
      BY <1>t, <2>5 DEF unregisterWebhook, Next1, Types, RecType
    <3>2. CASE rec'.at = "deleting"
      BY <2>f, <3>1, <3>2, KnownKept
    <3>3. CASE store[rec.key].hook = None \/ registrationHeld(store[rec.key].hook, rec.key)
      <4>1. \A k \in Key : \A h \in webhooks : Holds(k, h) => \E j \in Key \ {rec.key} : store[j].hook = h
        BY <2>n, <3>3 DEF Holds, registrationHeld
      <4> QED BY <1>t, <2>f, <3>1, <4>1 DEF AllSurelyKnown, SurelyKnown, Holds
    <3> QED BY <1>t, <2>5, <3>1, <3>2, <3>3 DEF unregisterWebhook, Next1, Types, RecType
  <2>6. CASE teardownDeleted \/ teardownTimesOut
    <3> DEFINE h == store[rec.key].hook
    <3>1. /\ UNCHANGED store /\ rec'.hook = rec.hook /\ rec'.key = rec.key /\ webhooks' \subseteq webhooks
          /\ rec.at = "deleting" /\ retired \subseteq retired' /\ lost \subseteq lost'
          /\ h \notin webhooks' \/ h \in lost' \/ retire(h)
      BY <1>t, <2>6
         DEF teardownDeleted, teardownTimesOut, Next1, Types, RecType, Deleted, Refused, Unreported, retire
    <3>2. ASSUME retire(h) PROVE \E e \in retired' \ Forgetting' : e.handle = h
      <4>1. [id |-> FreshId, handle |-> h] \notin Forgetting
        <5>1. \A e \in EntriesInUse : e.id # FreshId
          BY <1>t, FreshIdIsFresh
        <5>2. \A e \in Forgetting : e = None \/ e \in EntriesInUse
          BY DEF Forgetting, EntriesInUse
        <5>3. [id |-> FreshId, handle |-> h] \in Entry
          BY <1>t, <3>1, <3>2 DEF retire, Types
        <5> QED BY <5>1, <5>2, <5>3, NoneAssumption
      <4> QED BY <2>f, <3>2, <4>1 DEF retire
    <3>3. \A k \in Key : \A g \in webhooks' : Holds(k, g) => Holds(k, g)' \/ g = h
      BY <3>1 DEF Holds
    <3> QED BY <1>t, <2>f, <3>1, <3>2, <3>3 DEF AllSurelyKnown, SurelyKnown
  <2>7. CASE clearStore
    <3>1. /\ UNCHANGED <<webhooks, retired, lost>> /\ rec'.hook = rec.hook /\ rec'.at # "clear"
          /\ rec.at = "clear" /\ \A k \in Key \ {rec.key} : store'[k] = store[k]
      BY <1>t, <2>7 DEF clearStore, Next1, Types, RecType
    <3> QED BY <1>t, <2>f, <3>1 DEF AllSurelyKnown, SurelyKnown, Holds
  <2>8. CASE dropRow \/ recordMaterialized
    BY <1>t, <2>4, <2>8 DEF dropRow, recordMaterialized, RecKnows
  <2>9. CASE enablePolling
    <3>1. CASE Applied
      <4>1. rec.hook = None /\ UNCHANGED <<webhooks, retired, lost>>
        BY <1>t, <2>9 DEF enablePolling, RecKnows
      <4>2. ~Next1("live")
        BY <1>t, <3>1 DEF Next1, Applied, NoWork, Types, RecType
      <4>3. UNCHANGED store
        BY <2>9, <4>2 DEF enablePolling
      <4> QED BY <2>4, <3>1, <4>1, <4>3
    <3>2. CASE /\ store' = [store EXCEPT ![rec.key].cursor = events] /\ Next1("live")
      BY <1>t, <2>f, <2>9, <3>2, KnownKept DEF enablePolling, Next1, Types, RecType, StoreType
    <3> QED BY <2>9, <3>1, <3>2 DEF enablePolling, standUpFails
  <2>10. CASE registerWebhook \/ awaitLanded \/ ((landPendingDeletesAt \/ landingEnds) /\ ~Applied)
    BY <1>t, <2>f, <2>10, KnownKept
       DEF registerWebhook, awaitLanded, landPendingDeletesAt, landingEnds, Next1, Types, RecType, standUpFails
  <2>f1. ASSUME RegistrationFails, UNCHANGED <<store, retired>>, lost \subseteq lost',
                \A h \in webhooks' : h \in webhooks \cup lost', rec.hook # None => rec.hook \in lost',
                rec.at # "clear"
         PROVE  AllSurelyKnown'
    <3>1. rec'.at # "clear"
      <4>1. Applied => rec'.at = "plan"
        BY DEF Applied, NoWork
      <4> QED BY <1>t, <2>f1, <4>1, FailedRegistration
    <3> QED BY <1>t, <2>f, <2>n, <2>f1, <3>1 DEF AllSurelyKnown, SurelyKnown, Holds
  <2>11. CASE registerWebhookOnce
    <3>0. rec.hook = None /\ UNCHANGED <<store, retired>> /\ rec.at = "register"
      BY <1>t, <2>11 DEF registerWebhookOnce, RecKnows
    <3>1. CASE RegistrationFails
      <4>1. lost \subseteq lost' /\ \A h \in webhooks' : h \in webhooks \cup lost'
        <5>1. rec'.at # "record"
          <6>1. Applied => rec'.at = "plan"
            BY DEF Applied, NoWork
          <6> QED BY <1>t, <3>1, <6>1, FailedRegistration
        <5> QED BY <1>t, <2>11, <5>1 DEF registerWebhookOnce, Types, RecType
      <4> QED BY <2>f1, <3>0, <3>1, <4>1
    <3>2. ASSUME NEW h, webhooks' = webhooks \cup {h}, rec' = [rec EXCEPT !.at = "record", !.hook = h],
                 UNCHANGED lost
          PROVE  AllSurelyKnown'
      <4>1. rec'.at = "record" /\ rec'.hook = h
        BY <1>t, <3>2 DEF Types, RecType
      <4> QED BY <1>t, <2>f, <2>n, <3>0, <3>2, <4>1 DEF AllSurelyKnown, SurelyKnown, Holds
    <3> QED BY <2>11, <3>1, <3>2 DEF registerWebhookOnce
  <2>12. CASE recordRegistration
    <3>0. /\ UNCHANGED <<webhooks, retired>> /\ rec.at = "record" /\ rec.key \in Key
          /\ store[rec.key].hook \in {None, rec.hook}
      BY <1>t, <2>k, <2>12 DEF recordRegistration, RecKnows, Answers, Standing
    <3>1. CASE RegistrationFails /\ UNCHANGED store /\ lost' = lost \cup {rec.hook}
      BY <2>f1, <3>0, <3>1
    <3>2. CASE /\ store' = [store EXCEPT ![rec.key].hook = rec.hook] /\ lost' = lost \ {rec.hook}
               /\ Next1("forget")
      <4>1. /\ rec'.hook = rec.hook /\ rec'.at = "forget"
            /\ store'[rec.key].hook = rec.hook
            /\ \A k \in Key \ {rec.key} : store'[k] = store[k]
        BY <1>t, <3>0, <3>2 DEF Next1, Types, RecType, StoreType
      <4> QED BY <1>t, <2>f, <2>n, <3>0, <3>2, <4>1 DEF AllSurelyKnown, SurelyKnown, Holds
    <3> QED BY <2>12, <3>1, <3>2 DEF recordRegistration
  <2>13. CASE standUp
    <3>1. /\ UNCHANGED <<webhooks, store, lost>> /\ rec'.at # "clear" /\ rec.at = "forget"
          /\ retired' = {e \in retired : e.handle # rec.hook}
          /\ rec.key \in Key /\ store[rec.key].hook = rec.hook
      BY <1>t, <2>k, <2>13 DEF standUp, Types, RecType, RecKnows
    <3> QED BY <1>t, <2>f, <3>1 DEF AllSurelyKnown, SurelyKnown, Holds
  <2>14. CASE \E d \in fence : lateDeleteAnswered(d)
    BY <1>t, <2>f, <2>14, KnownKept DEF lateDeleteAnswered, Told, Deleted, Refused, Unreported, Types, RecType
  <2>15. CASE crash
    <3>1. /\ webhooks' \subseteq webhooks /\ UNCHANGED <<store, retired>> /\ lost \subseteq lost'
          /\ rec'.at # "clear"
          /\ rec.at = "record" => rec.hook \in lost'
      BY <2>15 DEF crash, NoWork
    <3>2. rec.hook \in webhooks => rec.hook \in lost' \/ \E k \in Key : store[k].hook = rec.hook
      BY <1>t, <2>k, <2>n, <3>1 DEF RecKnows
    <3> QED BY <1>t, <2>f, <3>1, <3>2 DEF AllSurelyKnown, SurelyKnown, Holds
  <2> QED
    BY <1>3, <2>1, <2>2, <2>3, <2>4, <2>5, <2>6, <2>7, <2>8, <2>9, <2>10, <2>11, <2>12, <2>13, <2>14, <2>15, <1>t
       DEF Next, Reconciling, movePointer, landPendingDeletesAt, landingEnds, landingStarts, newEvent, pollFails,
           RecKnows
<1> QED BY <1>1, <1>2, <1>3

-----------------------------------------------------------------------------
(* No delete that is sent is of a webhook in a store nobody applies.       *)

(* What deletes a step sends: none, but for a retry's own.                 *)
LEMMA SentStep ==
  ASSUME IInv, Next, NEW d
  PROVE  /\ (\A w \in Retrier : ~Retry(w)) => (IsSent(d)' => IsSent(d))
         /\ \A w \in Retrier \ {d.by} : Retry(w) => (IsSent(d)' => IsSent(d))
<1>1. ASSUME \A w \in Retrier : ~Retry(w), IsSent(d)' PROVE IsSent(d)
  <2>1. CASE d.by \in Retrier
    <3>1. work'[d.by].at = "send" /\ d.handle = work'[d.by].entry.handle
      BY <1>1, <2>1 DEF IsSent
    <3> QED BY <1>1, <2>1, <3>1, RetrierStep DEF IsSent
  <2> QED BY <2>1 DEF IsSent
<1>2. ASSUME NEW w \in Retrier \ {d.by}, Retry(w), IsSent(d)' PROVE IsSent(d)
  <2>1. \A v \in Retrier \ {w} : work'[v] = work[v]
    BY <1>2, OtherRetriers
  <2> QED BY <1>2, <2>1 DEF IsSent
<1> QED BY <1>1, <1>2

LEMMA RetrySpares ==
  ASSUME IInv, Next, NEW w \in Retrier, Retry(w)
  PROVE  Spares'
<1> DEFINE e == work[w].entry
<1>t. Types /\ Spares /\ RetryFenced
  BY DEF IInv
<1>1. UNCHANGED store
  BY DEF Retry, retryRetiredWebhook, retryHeld, retriedDelete, retryDone
<1>2. rec'.at = rec.at /\ rec'.key = rec.key /\ rec'.awaits = rec.awaits
  <2>1. rec' = rec \/ \E d : rec' = Told(rec, d)
    BY RetryStep, Zenon
  <2> QED BY <1>t, <2>1 DEF Told, Types, RecType
<1>3. \A d \in fence' : d \in fence \/ d.by = w
  <2>1. \E g : fence' \subseteq fence \cup {[handle |-> g, by |-> w]}
    BY RetryStep
  <2> QED BY <2>1
<1>4. \/ work'[w].at # "send"
      \/ /\ work[w].at = "check" /\ work'[w].entry = e
         /\ ~registrationHeld(e.handle, None)
  BY RetryStep
<1>5. \A d \in fence' : IsSent(d)' =>
        \/ d \in fence /\ IsSent(d)
        \/ \A k \in Key : store[k].hook # d.handle
  <2> SUFFICES ASSUME NEW d \in fence', IsSent(d)'
               PROVE  \/ d \in fence /\ IsSent(d)
                      \/ \A k \in Key : store[k].hook # d.handle
    OBVIOUS
  <2>1. CASE d.by # w
    BY <1>3, <2>1, SentStep
  <2>2. CASE d.by = w
    <3>1. work'[w].at = "send" /\ d.handle = work'[w].entry.handle
      BY <2>2 DEF IsSent
    <3>2. \A k \in Key \ {None} : store[k].hook # d.handle
      BY <1>4, <3>1 DEF registrationHeld
    <3> QED BY <3>2, NoneAssumption
  <2> QED BY <2>1, <2>2
<1>6. rec.at \in Seen \cup {"await"} => rec.key \in Key
  BY <1>t DEF IInv, RecKnows, Types, RecType, Seen, Unkeyed
<1> QED BY <1>t, <1>1, <1>2, <1>5, <1>6 DEF Spares, Applying

LEMMA SparesStep == IInv /\ [Next]_vars => Spares'
<1> SUFFICES ASSUME IInv, [Next]_vars PROVE Spares'
  OBVIOUS
<1>t. Types /\ Types' /\ RecKnows /\ Spares /\ DeletingIsFenced
  BY TypesStep DEF IInv
<1>k. rec.at \notin {"idle", "plan"} <=> rec.key \in Key
  BY <1>t, NoneAssumption DEF Types, RecType, RecKnows, Unkeyed
<1>n. \A d \in fence \cup fence' : d.handle # None
  BY <1>t, NoneAssumption DEF Types, Delete
<1>1. CASE UNCHANGED vars
  BY <1>t, <1>1 DEF vars, Spares, Applying, IsSent
<1>2. CASE Next /\ \E w \in Retrier : Retry(w)
  BY <1>2, RetrySpares
<1>3. CASE Next /\ \A w \in Retrier : ~Retry(w)
  <2>s. \A d : IsSent(d)' => IsSent(d)
    BY <1>3, SentStep
  <2>1. ASSUME fence' \subseteq fence, \A k \in Key : store'[k].hook = store[k].hook, rec'.key = rec.key,
               rec'.at \in Seen => rec.at \in Seen \cup {"materialize"},
               rec'.at = "await" => rec.at = "await" /\ rec'.awaits = rec.awaits
        PROVE  Spares'
    <3>1. rec.at = "materialize" => store[rec.key].hook = None
      BY <1>t DEF RecKnows, EmptyStore
    <3>2. rec'.at \in Seen \cup {"await"} => rec.key \in Key
      BY <1>k, <2>1 DEF Seen
    <3> QED BY <1>t, <1>n, <2>s, <2>1, <3>1, <3>2 DEF Spares, Applying
  <2>2. ASSUME UNCHANGED <<fence, store>>, rec'.at \notin Seen \cup {"await"}, rec.key = None PROVE Spares'
    BY <1>t, <2>s, <2>2, NoneAssumption DEF Spares, Applying
  <2>3. ASSUME UNCHANGED <<fence, store>>, Applied,
               \A d \in fence : IsSent(d) => store[rec.key].hook # d.handle
        PROVE  Spares'
    <3>1. rec'.at = "plan"
      BY <2>3 DEF Applied, NoWork
    <3> QED BY <1>t, <2>s, <2>3, <3>1 DEF Spares, Applying, Seen
  <2>4. CASE UNCHANGED <<store, rec>> /\ fence' \subseteq fence
    BY <2>1, <2>4
  <2>5. CASE Polling1
    BY <2>1, <2>5, PollStores
  <2>6. CASE reconcileOnce \/ queueRetries \/ \E k \in Key : applyCreate(k) \/ applyUpdate(k) \/ applyDelete(k)
    <3>1. rec.key = None
      BY <1>t, <2>6 DEF reconcileOnce, queueRetries, applyCreate, applyUpdate, applyDelete, RecKnows, Unkeyed
    <3>2. rec'.at \notin Seen \cup {"await"}
      <4>1. CASE reconcileOnce
        <5>1. \A want, todo : rec' = [rec EXCEPT !.at = "plan", !.want = want, !.pending = retired, !.todo = todo]
                                => rec'.at = "plan"
          BY <1>t DEF Types, RecType
        <5> DEFINE want == deriveDesiredActivations(pointer)
        <5>2. rec' = [rec EXCEPT !.at = "plan", !.want = want, !.pending = retired,
                                 !.todo = reconcileActivations(want)]
          BY <4>1 DEF reconcileOnce
        <5> HIDE DEF want
        <5> QED BY <5>1, <5>2 DEF Seen
      <4>2. CASE queueRetries
        BY <4>2 DEF queueRetries, NoWork, Seen
      <4>3. CASE \E k \in Key : applyCreate(k) \/ applyUpdate(k) \/ applyDelete(k)
        <5>1. PICK k \in Key : applyCreate(k) \/ applyUpdate(k) \/ applyDelete(k)
          BY <4>3
        <5>2. \/ rec' = [rec EXCEPT !.at = "materialize", !.key = k]
              \/ rec' = [rec EXCEPT !.at = "teardown", !.key = k]
              \/ rec' = [rec EXCEPT !.todo = @ \ {k}] /\ rec.at = "plan"
          BY <5>1 DEF applyCreate, applyUpdate, applyDelete
        <5>3. \A at : [rec EXCEPT !.at = at, !.key = k].at = at
          BY <1>t DEF Types, RecType
        <5>4. [rec EXCEPT !.todo = @ \ {k}].at = rec.at
          BY <1>t DEF Types, RecType
        <5>5. rec'.at \in {"materialize", "teardown", "plan"}
          BY <5>2, <5>3, <5>4
        <5> QED BY <5>5 DEF Seen
      <4> QED BY <2>6, <4>1, <4>2, <4>3
    <3>3. UNCHANGED <<fence, store>>
      <4>1. reconcileOnce => UNCHANGED <<fence, store>>
        BY DEF reconcileOnce
      <4>2. queueRetries => UNCHANGED <<fence, store>>
        BY DEF queueRetries
      <4>3. \A k \in Key : applyCreate(k) \/ applyUpdate(k) \/ applyDelete(k) => UNCHANGED <<fence, store>>
        BY DEF applyCreate, applyUpdate, applyDelete
      <4> QED BY <2>6, <4>1, <4>2, <4>3
    <3> QED BY <2>2, <3>1, <3>2, <3>3
  <2>7. CASE unregisterWebhook
    <3> DEFINE h == store[rec.key].hook
    <3>1. UNCHANGED store /\ rec'.at \in {"clear", "deleting"} /\ rec'.key = rec.key
      BY <1>t, <2>7 DEF unregisterWebhook, Next1, Types, RecType
    <3>2. \/ fence' = fence
          \/ fence' = fence \cup {[handle |-> h, by |-> "teardown"]} /\ ~registrationHeld(h, rec.key)
      BY <2>7 DEF unregisterWebhook
    <3> QED BY <1>t, <2>s, <3>1, <3>2 DEF Spares, Applying, Seen, registrationHeld
  <2>8. CASE teardownDeleted \/ teardownTimesOut
    <3> DEFINE d == [handle |-> store[rec.key].hook, by |-> "teardown"]
               late == [handle |-> store[rec.key].hook, by |-> "late"]
    <3>1. UNCHANGED store /\ rec'.at = "clear" /\ rec'.key = rec.key /\ rec.at = "deleting"
      BY <1>t, <2>8 DEF teardownDeleted, teardownTimesOut, Next1, Types, RecType
    <3>2. fence' \subseteq fence \cup {late}
      BY <2>8 DEF teardownDeleted, teardownTimesOut, Leaves
    <3>3. d \in fence /\ IsSent(d)
      BY <1>t, <3>1 DEF DeletingIsFenced, IsSent, Retrier
    <3>4. \A k \in Key : ~Applying(k) => store[k].hook # late.handle
      BY <1>t, <3>3 DEF Spares
    <3> QED BY <1>t, <2>s, <3>1, <3>2, <3>4 DEF Spares, Applying, Seen
  <2>9. CASE clearStore
    <3>1. /\ UNCHANGED fence /\ rec'.at \in {"drop", "materialize"} /\ rec'.key = rec.key
          /\ \A k \in Key \ {rec.key} : store'[k] = store[k]
      BY <1>t, <2>9 DEF clearStore, Next1, Types, RecType
    <3> QED BY <1>t, <2>s, <3>1 DEF Spares, Applying, Seen
  <2>10. CASE dropRow \/ recordMaterialized
    <3>1. \A d \in fence : IsSent(d) => store[rec.key].hook # d.handle
      BY <1>t, <1>n, <2>10 DEF dropRow, recordMaterialized, RecKnows, EmptyStore, Spares, Seen
    <3> QED BY <2>3, <2>10, <3>1 DEF dropRow, recordMaterialized
  <2>11. CASE enablePolling
    <3>1. rec.at = "materialize" /\ UNCHANGED fence /\ store[rec.key].hook = None
      BY <1>t, <2>11 DEF enablePolling, RecKnows, EmptyStore
    <3>2. CASE Applied /\ UNCHANGED store
      BY <1>n, <2>3, <3>1, <3>2
    <3>3. CASE store' = [store EXCEPT ![rec.key].cursor = events] /\ Next1("live")
      <4>1. rec'.at = "live" /\ rec'.key = rec.key
        BY <1>t, <3>3 DEF Next1, Types, RecType
      <4>2. \A k \in Key : store'[k].hook = store[k].hook
        BY <1>t, <3>3 DEF Types, StoreType
      <4> QED BY <2>1, <3>1, <4>1, <4>2
    <3> QED BY <2>11, <3>2, <3>3 DEF enablePolling, standUpFails
  <2>12. CASE registerWebhook
    <3>1. UNCHANGED <<store, fence>> /\ rec.at = "materialize" /\ rec'.at = "register" /\ rec'.key = rec.key
      BY <1>t, <2>12 DEF registerWebhook, Next1, Types, RecType
    <3> QED BY <2>1, <3>1
  <2>13. CASE registerWebhookOnce
    <3>1. UNCHANGED <<store, fence>> /\ rec.at = "register"
      BY <2>13 DEF registerWebhookOnce
    <3>2. CASE Applied
      BY <1>t, <2>3, <3>1, <3>2 DEF Spares, Seen
    <3>3. CASE ~Applied
      <4>1. rec'.at \in {"record", "land"} /\ rec'.key = rec.key
        BY <1>t, <2>13, <3>3, FailedRegistration DEF registerWebhookOnce, Types, RecType
      <4> QED BY <2>1, <3>1, <4>1 DEF Seen
    <3> QED BY <3>2, <3>3
  <2>14. CASE recordRegistration
    <3>1. UNCHANGED fence /\ rec.at = "record" /\ rec.key \in Key
      BY <1>k, <2>14 DEF recordRegistration
    <3>2. CASE /\ store' = [store EXCEPT ![rec.key].hook = rec.hook] /\ Next1("forget")
      <4>1. /\ rec'.at = "forget" /\ rec'.key = rec.key
            /\ \A k \in Key \ {rec.key} : store'[k] = store[k]
        BY <1>t, <3>2 DEF Next1, Types, RecType
      <4> QED BY <1>t, <2>s, <3>1, <4>1 DEF Spares, Applying, Seen
    <3>3. CASE RegistrationFails /\ UNCHANGED store
      <4>1. CASE Applied
        BY <1>t, <2>3, <3>1, <3>3, <4>1 DEF Spares, Seen
      <4>2. CASE rec'.at = "land" /\ rec'.key = rec.key
        BY <2>1, <3>1, <3>3, <4>2 DEF Seen
      <4> QED BY <1>t, <3>3, <4>1, <4>2, FailedRegistration
    <3> QED BY <2>14, <3>2, <3>3 DEF recordRegistration
  <2>15. CASE standUp
    <3> DEFINE inFlight == {d \in fence : d.handle = rec.hook}
    <3>1. UNCHANGED <<fence, store>> /\ rec'.key = rec.key /\ store[rec.key].hook = rec.hook
      BY <1>t, <2>15 DEF standUp, Types, RecType, RecKnows
    <3>2. \/ inFlight = {} /\ rec'.at = "live"
          \/ rec'.at = "await" /\ rec'.awaits = inFlight
      BY <1>t, <2>15 DEF standUp, Types, RecType
    <3> QED BY <1>t, <2>s, <3>1, <3>2 DEF Spares, Applying, Seen
  <2>16. CASE awaitLanded
    <3>1. /\ UNCHANGED <<fence, store>> /\ rec'.at = "register" /\ rec'.key = rec.key
          /\ rec.at = "await" /\ rec.awaits \cap fence = {}
      BY <1>t, <2>16 DEF awaitLanded, Types, RecType
    <3> QED BY <1>t, <2>s, <3>1 DEF Spares, Applying, Seen
  <2>17. CASE landPendingDeletesAt \/ landingEnds
    <3>1. UNCHANGED <<fence, store>> /\ rec.at \in {"land", "landing"}
      BY <2>17 DEF landPendingDeletesAt, landingEnds
    <3>2. CASE Applied
      BY <1>t, <2>3, <3>1, <3>2 DEF Spares, Seen
    <3>3. CASE ~Applied
      <4>1. rec'.at \in {"landing", "register"} /\ rec'.key = rec.key
        BY <1>t, <2>17, <3>3 DEF landPendingDeletesAt, landingEnds, Next1, standUpFails, Types, RecType
      <4> QED BY <2>1, <3>1, <4>1 DEF Seen
    <3> QED BY <3>2, <3>3
  <2>18. CASE \E d \in fence : lateDeleteAnswered(d)
    <3>1. /\ UNCHANGED store /\ fence' \subseteq fence /\ rec'.at = rec.at /\ rec'.key = rec.key
          /\ rec'.awaits = rec.awaits
      BY <1>t, <2>18 DEF lateDeleteAnswered, Leaves, Told, Types, RecType
    <3> QED BY <2>1, <3>1
  <2>19. CASE crash
    BY <2>19 DEF crash, Spares
  <2> QED
    BY <1>3, <2>4, <2>5, <2>6, <2>7, <2>8, <2>9, <2>10, <2>11, <2>12, <2>13, <2>14, <2>15, <2>16, <2>17, <2>18, <2>19
       DEF Next, Reconciling, movePointer, landingStarts, newEvent, pollFails
<1> QED BY <1>1, <1>2, <1>3

LEMMA DeletingIsFencedStep == IInv /\ [Next]_vars => DeletingIsFenced'
<1> SUFFICES ASSUME IInv, [Next]_vars PROVE DeletingIsFenced'
  OBVIOUS
<1>t. Types /\ DeletingIsFenced /\ PollLocks /\ RecKnows
  BY DEF IInv
<1>1. CASE UNCHANGED <<rec, store, fence>>
  BY <1>t, <1>1 DEF DeletingIsFenced
<1>2. CASE Reconciling /\ ~unregisterWebhook
  <2>1. rec'.at # "deleting"
    <3>1. CASE Applied \/ rec' = NoWork
      <4>1. CASE Applied
        BY <4>1 DEF Applied, NoWork
      <4>2. CASE rec' = NoWork
        BY <4>2 DEF NoWork
      <4> QED BY <3>1, <4>1, <4>2
    <3>2. CASE reconcileOnce
      <4>1. \A want, todo : rec' = [rec EXCEPT !.at = "plan", !.want = want, !.pending = retired, !.todo = todo]
                              => rec'.at = "plan"
        BY <1>t DEF Types, RecType
      <4> DEFINE want == deriveDesiredActivations(pointer)
      <4>2. rec' = [rec EXCEPT !.at = "plan", !.want = want, !.pending = retired,
                               !.todo = reconcileActivations(want)]
        BY <3>2 DEF reconcileOnce
      <4> HIDE DEF want
      <4> QED BY <4>1, <4>2
    <3>3. CASE \E k \in Key : applyCreate(k) \/ applyUpdate(k) \/ applyDelete(k)
      BY <1>t, <3>3 DEF applyCreate, applyUpdate, applyDelete, Types, RecType
    <3>4. ASSUME NEW at \in {"clear", "drop", "materialize", "register", "forget", "live", "landing"}, Next1(at)
          PROVE  rec'.at # "deleting"
      BY <1>t, <3>4 DEF Next1, Types, RecType
    <3>5. CASE (registerWebhookOnce \/ standUp \/ awaitLanded \/ landingEnds \/ RegistrationFails) /\ ~Applied
      BY <1>t, <3>5, FailedRegistration
         DEF registerWebhookOnce, standUp, awaitLanded, landingEnds, standUpFails, Types, RecType
    <3> QED
      BY <1>2, <3>1, <3>2, <3>3, <3>4, <3>5
         DEF Reconciling, queueRetries, teardownDeleted, teardownTimesOut, clearStore, dropRow, enablePolling,
             registerWebhook, registerWebhookOnce, recordRegistration, recordMaterialized, landPendingDeletesAt,
             landingEnds, standUpFails
  <2> QED BY <2>1 DEF DeletingIsFenced
<1>3. CASE unregisterWebhook
  BY <1>t, <1>3 DEF unregisterWebhook, Next1, Types, RecType, DeletingIsFenced
<1>4. ASSUME NEW d, d.by # "teardown", rec' = rec \/ rec' = Told(rec, d), fence \ {d} \subseteq fence',
             UNCHANGED store
      PROVE  DeletingIsFenced'
  BY <1>t, <1>4 DEF Told, Types, RecType, DeletingIsFenced
<1>5. CASE \E w \in Retrier : Retry(w)
  <2> PICK w \in Retrier : Retry(w)
    BY <1>5
  <2> DEFINE d == [handle |-> work[w].entry.handle, by |-> w]
  <2>1. (rec' = rec \/ rec' = Told(rec, d)) /\ fence \ {d} \subseteq fence'
    BY RetryStep
  <2>2. UNCHANGED store /\ d.by # "teardown"
    BY DEF Retry, retryRetiredWebhook, retryHeld, retriedDelete, retryDone, Retrier
  <2> HIDE DEF d
  <2> QED BY <1>4, <2>1, <2>2
<1>6. CASE \E d \in fence : lateDeleteAnswered(d)
  BY <1>4, <1>6 DEF lateDeleteAnswered, Leaves
<1>7. CASE Polling1
  <2>1. UNCHANGED <<rec, fence>> /\ \A k \in Key : store'[k].hook = store[k].hook
    BY <1>7, PollStores
  <2> QED BY <1>t, <2>1 DEF DeletingIsFenced, RecKnows, Types, RecType, Unkeyed
<1>8. CASE crash
  BY <1>8 DEF crash, NoWork, DeletingIsFenced
<1> QED
  BY <1>1, <1>2, <1>3, <1>5, <1>6, <1>7, <1>8
     DEF Next, vars, movePointer, landingStarts, newEvent, pollFails

-----------------------------------------------------------------------------
(* Cursors, epochs and what has run.                                       *)

PollInv == RunsPastCursor /\ CursorsInPast /\ PollKnows

\* The cursors and the epochs of a set of activations stay.
CursorsKept(S) == \A k \in S : store'[k].cursor = store[k].cursor /\ store'[k].epoch = store[k].epoch

(* A step that runs nothing, and leaves the activation that is polled      *)
(* alone, may clear a cursor or move it to the last event.                 *)
LEMMA PollFrame ==
  ASSUME IInv, Types', UNCHANGED runs, poll' \in {poll, None}, events <= events',
         NEW K, CursorsKept(Key \ {K}), poll' # None => poll.key # K,
         K \in Key => CursorsKept({K}) \/ store'[K].cursor \in {None, events}
  PROVE  PollInv'
<1>t. Types /\ RunsPastCursor /\ CursorsInPast /\ PollKnows
  BY DEF IInv
<1> USE DEF Types, StoreType, Run
<1>0. events \in Nat /\ events' \in Nat
  BY <1>t
<1>1. RunsPastCursor'
  <2> SUFFICES ASSUME NEW r \in runs
               PROVE  /\ r.event <= events'
                      /\ /\ store'[r.key].cursor # None
                         /\ r.event > store'[r.key].cursor
                         => r.epoch = store'[r.key].epoch
    BY DEF RunsPastCursor
  <2>1. r.key \in Key /\ r.event \in Nat /\ r.event <= events
    BY <1>t DEF RunsPastCursor
  <2>2. CASE store'[r.key].cursor = events
    BY <1>0, <2>1, <2>2
  <2>3. CASE store'[r.key].cursor = None
    BY <1>0, <2>1, <2>3
  <2>4. CASE CursorsKept({r.key})
    BY <1>0, <1>t, <2>1, <2>4 DEF RunsPastCursor, CursorsKept
  <2> QED BY <2>1, <2>2, <2>3, <2>4 DEF CursorsKept
<1>2. CursorsInPast'
  <2> SUFFICES ASSUME NEW k \in Key, store'[k].cursor # None PROVE store'[k].cursor <= events'
    BY DEF CursorsInPast
  <2>1. store'[k].cursor = events \/ store'[k].cursor = store[k].cursor
    BY DEF CursorsKept
  <2>2. store[k].cursor \in Nat \cup {None}
    BY <1>t
  <2> QED BY <1>0, <1>t, <2>1, <2>2 DEF CursorsInPast
<1>3. PollKnows'
  <2> SUFFICES ASSUME poll' # None PROVE PollKnows'
    BY DEF PollKnows
  <2>1. poll' = poll /\ poll # None /\ poll \in Poll /\ poll.key \in Key /\ poll.key # K
    BY <1>t DEF Poll
  <2>2. CursorOf(poll.key)' = CursorOf(poll.key)
    BY <2>1 DEF CursorsKept, CursorOf
  <2>3. \A e : RunOf(poll.key, e) => RunOf(poll.key, e)'
    BY <2>1 DEF RunOf
  <2>4. poll.upto \in Nat
    BY <2>1 DEF Poll
  <2> QED BY <1>0, <1>t, <2>1, <2>2, <2>3, <2>4 DEF PollKnows, CursorsKept
<1> QED BY <1>1, <1>2, <1>3 DEF PollInv

LEMMA PollingStep ==
  ASSUME IInv, Polling1, Types'
  PROVE  PollInv'
<1>t. Types /\ RunsPastCursor /\ CursorsInPast /\ PollKnows /\ Finite
  BY DEF IInv
<1>c. \A k \in Key : CursorOf(k) \in Nat /\ store[k].cursor \in Nat \cup {None}
  BY <1>t DEF CursorOf, Types, StoreType
<1>r. \A r \in runs : r.key \in Key /\ r.event \in Nat /\ r.epoch \in Nat
  BY <1>t DEF Types, Run
<1>e. events \in Nat
  BY <1>t DEF Types
<1>1. ASSUME NEW k \in Key, pollActivation(k) PROVE PollInv'
  <2>1. /\ store'[k].epoch = EpochOf(k) /\ store'[k].cursor = store[k].cursor
        /\ \A j \in Key \ {k} : store'[j] = store[j]
    BY <1>t, <1>1 DEF pollActivation, Types, StoreType
  <2>2. /\ poll'.key = k /\ poll'.next = CursorOf(k) + 1 /\ poll'.upto = events /\ poll'.epoch = EpochOf(k)
        /\ poll'.at = "admit" /\ UNCHANGED <<runs, events>> /\ CursorOf(k) < events
    BY <1>1 DEF pollActivation, Begins, PollDue
  <2>3. CursorOf(k)' = CursorOf(k)
    BY <2>1 DEF CursorOf
  <2>4. RunsPastCursor'
    <3>1. \A r \in runs : r.key = k /\ store[k].cursor # None /\ r.event > store[k].cursor => r.epoch = EpochOf(k)
      BY <1>t, <1>r, NoneAssumption DEF RunsPastCursor, EpochOf
    <3> QED BY <1>t, <1>r, <2>1, <2>2, <3>1 DEF RunsPastCursor
  <2>5. CursorsInPast'
    BY <1>t, <2>1, <2>2 DEF CursorsInPast
  <2>6. PollKnows'
    <3>1. \A e \in (CursorOf(k) + 1)..(CursorOf(k) + 1 - 1) : FALSE
      BY <1>c
    <3>2. CursorOf(k) < CursorOf(k) + 1
      BY <1>c
    <3>3. (CursorOf(poll.key))' = CursorOf(k)
      BY <2>2, <2>3
    <3> QED BY <1>t, <1>c, <1>e, <2>1, <2>2, <3>1, <3>2, <3>3 DEF PollKnows, RunsPastCursor
  <2> QED BY <2>4, <2>5, <2>6 DEF PollInv
<1>p. poll # None => /\ poll.key \in Key /\ poll.next \in Nat /\ poll.upto \in Nat /\ poll.epoch \in Nat
                     /\ poll \in Poll
  BY <1>t DEF Types, Poll
<1>2. ASSUME admitActivationRun PROVE PollInv'
  <2> DEFINE run == [key |-> poll.key, epoch |-> poll.epoch, event |-> poll.next]
  <2>1. /\ poll # None /\ poll.at = "admit" /\ poll.next <= poll.upto
        /\ runs' = runs \cup {run} /\ UNCHANGED <<store, events>>
    BY <1>2 DEF admitActivationRun
  <2>2. /\ poll'.key = poll.key /\ poll'.next = poll.next + 1 /\ poll'.upto = poll.upto
        /\ poll'.epoch = poll.epoch /\ poll'.at = "admit"
    BY <1>2, <1>p, <2>1 DEF admitActivationRun, Poll
  <2>3. RunsPastCursor'
    BY <1>t, <1>r, <1>p, <1>e, <2>1 DEF RunsPastCursor, PollKnows
  <2>4. CursorsInPast'
    BY <1>t, <2>1 DEF CursorsInPast
  <2>5. PollKnows'
    <3>1. CursorOf(poll.key)' = CursorOf(poll.key)
      BY <2>1, <2>2 DEF CursorOf
    <3>2. \A e \in (CursorOf(poll.key) + 1)..(poll.next + 1 - 1) : RunOf(poll.key, e)'
      <4> SUFFICES ASSUME NEW e \in (CursorOf(poll.key) + 1)..poll.next
                   PROVE  \E r \in runs' : r.key = poll.key /\ r.event = e
        BY <1>p, <2>1, <2>2 DEF RunOf
      <4>1. CASE e = poll.next
        <5>1. run \in runs' /\ run.key = poll.key /\ run.event = e
          BY <2>1, <4>1
        <5> QED BY <5>1
      <4>2. CASE e # poll.next
        <5>1. e \in (CursorOf(poll.key) + 1)..(poll.next - 1)
          BY <1>c, <1>p, <2>1, <4>2
        <5> QED BY <1>t, <2>1, <5>1 DEF PollKnows, RunOf
      <4> QED BY <4>1, <4>2
    <3>3. \A r \in runs' : r.key = poll.key => r.event <= poll.upto
      BY <1>t, <1>p, <2>1 DEF PollKnows
    <3>4. /\ poll.upto <= events /\ store[poll.key].epoch = poll.epoch
          /\ CursorOf(poll.key) < poll.next + 1 /\ CursorOf(poll.key) < poll.upto
      BY <1>t, <1>c, <1>p, <2>1 DEF PollKnows
    <3>5. CursorOf(poll.key) \in Nat /\ (CursorOf(poll.key) \in Nat)'
      BY <1>c, <1>p, <2>1, <3>1
    <3>6. (\A e \in (CursorOf(poll.key) + 1)..(poll.next - 1) : RunOf(poll.key, e))'
      BY <1>p, <2>1, <2>2, <3>1, <3>2, <3>5 DEF RunOf
    <3> QED BY <2>1, <2>2, <3>1, <3>3, <3>4, <3>6 DEF PollKnows
  <2> QED BY <2>3, <2>4, <2>5 DEF PollInv
<1>3. ASSUME commitCursor PROVE PollInv'
  <2>1. /\ poll # None /\ store'[poll.key].cursor = poll.upto /\ store'[poll.key].epoch = store[poll.key].epoch
        /\ \A j \in Key \ {poll.key} : store'[j] = store[j]
        /\ UNCHANGED <<runs, events>>
    BY <1>t, <1>p, <1>3 DEF commitCursor, Types, StoreType
  <2>2. poll'.key = poll.key /\ poll'.upto = poll.upto /\ poll'.at = "epoch"
    BY <1>3, <1>p DEF commitCursor, Poll
  <2>3. poll.upto <= events /\ \A r \in runs : r.key = poll.key => r.event <= poll.upto
    BY <1>t, <2>1 DEF PollKnows
  <2>4. RunsPastCursor'
    <3> SUFFICES ASSUME NEW r \in runs
                 PROVE  /\ r.event <= events
                        /\ /\ store'[r.key].cursor # None
                           /\ r.event > store'[r.key].cursor
                           => r.epoch = store'[r.key].epoch
      BY <2>1 DEF RunsPastCursor
    <3>1. CASE r.key = poll.key
      BY <1>t, <1>r, <1>p, <2>1, <2>3, <3>1 DEF RunsPastCursor
    <3>2. CASE r.key # poll.key
      BY <1>t, <1>r, <2>1, <3>2 DEF RunsPastCursor
    <3> QED BY <3>1, <3>2
  <2>5. CursorsInPast'
    BY <1>t, <2>1, <2>3 DEF CursorsInPast
  <2>6. PollKnows'
    BY <2>1, <2>2, <2>3 DEF PollKnows
  <2> QED BY <2>4, <2>5, <2>6 DEF PollInv
<1>4. ASSUME commitEpoch PROVE PollInv'
  <2>1. /\ poll # None /\ poll.at = "epoch" /\ poll' = None
        /\ store'[poll.key].cursor = store[poll.key].cursor
        /\ \A j \in Key \ {poll.key} : store'[j] = store[j]
        /\ UNCHANGED <<runs, events>>
    BY <1>t, <1>p, <1>4 DEF commitEpoch, Types, StoreType
  <2>2. store[poll.key].cursor = poll.upto /\ \A r \in runs : r.key = poll.key => r.event <= poll.upto
    BY <1>t, <2>1 DEF PollKnows
  <2>3. RunsPastCursor'
    <3> SUFFICES ASSUME NEW r \in runs
                 PROVE  /\ r.event <= events
                        /\ /\ store'[r.key].cursor # None
                           /\ r.event > store'[r.key].cursor
                           => r.epoch = store'[r.key].epoch
      BY <2>1 DEF RunsPastCursor
    <3>1. CASE r.key = poll.key
      BY <1>t, <1>r, <1>p, <2>1, <2>2, <3>1 DEF RunsPastCursor
    <3>2. CASE r.key # poll.key
      BY <1>t, <1>r, <2>1, <3>2 DEF RunsPastCursor
    <3> QED BY <3>1, <3>2
  <2>4. CursorsInPast'
    BY <1>t, <1>p, <2>1 DEF CursorsInPast
  <2> QED BY <2>1, <2>3, <2>4 DEF PollInv, PollKnows
<1> QED BY <1>1, <1>2, <1>3, <1>4 DEF Polling1

LEMMA PollInvStep == IInv /\ [Next]_vars => PollInv'
<1> SUFFICES ASSUME IInv, [Next]_vars PROVE PollInv'
  OBVIOUS
<1>t. Types /\ Types' /\ RecKnows /\ PollLocks
  BY TypesStep DEF IInv
<1>0. events \in Nat /\ events <= events
  BY <1>t DEF Types
<1>1. CASE Polling1
  BY <1>t, <1>1, PollingStep
<1>2. CASE UNCHANGED <<runs, events, store>> /\ poll' \in {poll, None}
  <2>1. None \notin Key /\ (poll # None => poll.key # None)
    BY <1>t, NoneAssumption DEF Types, Poll
  <2> QED BY <1>t, <1>0, <1>2, <2>1, PollFrame DEF CursorsKept
<1>3. CASE newEvent
  <2>1. None \notin Key /\ (poll # None => poll.key # None)
    BY <1>t, NoneAssumption DEF Types, Poll
  <2>2. UNCHANGED <<runs, store, poll>> /\ events <= events'
    BY <1>0, <1>3 DEF newEvent
  <2> QED BY <1>t, <2>1, <2>2, PollFrame DEF CursorsKept
<1>4. CASE clearStore \/ enablePolling \/ recordRegistration
  <2>1. rec.key \in Key
    BY <1>t, <1>4 DEF clearStore, enablePolling, recordRegistration, RecKnows, Unkeyed, Types, RecType
  <2>2. UNCHANGED <<runs, poll, events>> /\ (poll # None => poll.key # rec.key)
    BY <1>t, <1>4 DEF clearStore, enablePolling, recordRegistration, PollLocks, Applying
  <2>3. CursorsKept(Key \ {rec.key})
    BY <1>t, <1>4 DEF clearStore, enablePolling, recordRegistration, CursorsKept, Types
  <2>4. CursorsKept({rec.key}) \/ store'[rec.key].cursor \in {None, events}
    BY <1>t, <1>4, <2>1
       DEF clearStore, enablePolling, recordRegistration, CursorsKept, EmptyStore, Types, StoreType
  <2> QED BY <1>t, <1>0, <2>1, <2>2, <2>3, <2>4, PollFrame
<1> QED
  BY <1>1, <1>2, <1>3, <1>4
     DEF Next, vars, Reconciling, Retry, movePointer, reconcileOnce, applyCreate, applyUpdate, applyDelete,
         queueRetries, unregisterWebhook, teardownDeleted, teardownTimesOut, dropRow, registerWebhook,
         registerWebhookOnce, standUp, awaitLanded, recordMaterialized, landPendingDeletesAt, landingEnds,
         lateDeleteAnswered, landingStarts, retryRetiredWebhook, retryHeld, retriedDelete, retryDone,
         pollFails, crash

-----------------------------------------------------------------------------
(* Theorems.                                                               *)

LEMMA IInvStep == IInv /\ [Next]_vars => IInv'
  BY TypesStep, FiniteStep, RecKnowsStep, NewIsUnmetStep, RowlessIsEmptyStep, PollLocksStep, EntriesDifferStep,
     RetryFencedStep, SurelyKnownStep, SparesStep, DeletingIsFencedStep, PollInvStep
     DEF IInv, PollInv

(* In every state a reconcile, the retries and a poll can reach: what each *)
(* knows of the others.                                                    *)
THEOREM Invariance == Spec => []IInv
  BY InitIInv, IInvStep, PTL DEF Spec

(* The state has its types; the store of an activation without a row that  *)
(* nobody applies is empty, pending deletes have identifiers of their own, *)
(* an activation is never polled and applied at once, and a retry is in    *)
(* the delete fence while it checks or sends.                              *)
THEOREM TypeCorrect == Spec => []TypeOK
<1>1. IInv => TypeOK
  <2> SUFFICES ASSUME IInv PROVE TypeOK
    OBVIOUS
  <2>t. Types /\ RowlessIsEmpty /\ PollLocks /\ EntriesDiffer /\ RetryFenced /\ CursorsInPast
    BY DEF IInv
  <2>1. \A k \in Key : store[k].cursor \in 0..events \cup {None} /\ store[k].hook \in Handle \cup {None}
    BY <2>t DEF Types, StoreType, CursorsInPast
  <2> QED
    BY <2>t, <2>1 DEF TypeOK, Types, RowlessIsEmpty, PollLocks, EntriesDiffer, RetryFenced
<1> QED BY <1>1, Invariance, PTL

(* A webhook at an app is in a store, in retired_webhooks or in the hand   *)
(* of its stand-up; or it was lost: to a crash, a registration or a record *)
(* that failed, a retry that took it for held, or a delete whose failure   *)
(* the app did not report.                                                 *)
THEOREM WebhooksKnown == Spec => []WebhooksAreKnown
<1>1. IInv => WebhooksAreKnown
  BY DEF IInv, AllSurelyKnown, SurelyKnown, Holds, WebhooksAreKnown
<1> QED BY <1>1, Invariance, PTL

(* A webhook that goes is one that a delete in the fence was sent for.     *)
LEMMA GoneIsSent ==
  ASSUME IInv, Next, NEW h \in webhooks \ webhooks'
  PROVE  \E d \in fence : IsSent(d) /\ d.handle = h
<1>t. Types /\ RetryFenced /\ DeletingIsFenced
  BY DEF IInv
<1>1. CASE teardownDeleted
  <2>1. rec.at = "deleting" /\ h = store[rec.key].hook
    BY <1>1 DEF teardownDeleted, Deleted, Refused, Unreported
  <2>2. [handle |-> store[rec.key].hook, by |-> "teardown"] \in fence
    BY <1>t, <2>1 DEF DeletingIsFenced
  <2> QED BY <2>1, <2>2 DEF IsSent, Retrier
<1>2. CASE \E d \in fence : lateDeleteAnswered(d)
  BY <1>2 DEF lateDeleteAnswered, Deleted, Refused, Unreported, IsSent, Retrier
<1>3. ASSUME NEW w \in Retrier, work[w].at = "send", h = work[w].entry.handle
      PROVE  \E d \in fence : IsSent(d) /\ d.handle = h
  <2>1. [handle |-> h, by |-> w] \in fence
    BY <1>t, <1>3 DEF RetryFenced
  <2> QED BY <1>3, <2>1 DEF IsSent
<1>4. CASE \E w \in Retrier : Retry(w)
  <2>1. PICK w \in Retrier : Retry(w)
    BY <1>4
  <2>2. retriedDelete(w)
    BY <2>1 DEF Retry, retryRetiredWebhook, retryHeld, retryDone
  <2>3. work[w].at = "send" /\ h = work[w].entry.handle
    BY <2>2 DEF retriedDelete, Deleted, Refused, Unreported
  <2> QED BY <1>3, <2>3
<1>5. CASE crash
  <2>1. h \in Sent
    BY <1>5 DEF crash
  <2>2. CASE \E d \in fence : d.by \in {"teardown", "late"} /\ d.handle = h
    BY <2>2 DEF IsSent, Retrier
  <2>3. CASE \E w \in Retrier : work[w].at = "send" /\ h = work[w].entry.handle
    BY <1>3, <2>3
  <2> QED BY <2>1, <2>2, <2>3 DEF Sent
<1>6. CASE UNCHANGED webhooks
  BY <1>6
<1>7. CASE registerWebhookOnce
  BY <1>7 DEF registerWebhookOnce
<1> QED
  BY <1>1, <1>2, <1>4, <1>5, <1>6, <1>7, PollStores
     DEF Next, Reconciling, movePointer, reconcileOnce, applyCreate, applyUpdate, applyDelete, queueRetries,
         unregisterWebhook, teardownTimesOut, clearStore, dropRow, enablePolling, registerWebhook,
         recordRegistration, standUp, awaitLanded, recordMaterialized, landPendingDeletesAt, landingEnds,
         landingStarts, newEvent, pollFails

(* A delete that boundedDelete stopped waiting for, a retry of one or a    *)
(* landing never takes down the webhook of an activation that is set up.   *)
THEOREM DeletesSpare == Spec => DeletesSpareLive
<1>1. IInv /\ [Next]_vars => [\A k \in Key : ~Applying(k) => store[k].hook \notin webhooks \ webhooks']_vars
  BY GoneIsSent DEF IInv, Spares
<1> QED BY <1>1, Invariance, PTL DEF Spec, DeletesSpareLive

(* An event is run once under a cursor: a poll that failed half way and    *)
(* the one after it admit it under the same name.                          *)
THEOREM EventsRunOnce == Spec => EventRunsOnce
<1>1. IInv /\ [Next]_vars => [\A r \in runs' \ runs : store[r.key].cursor # None =>
                                \A q \in runs : q.key = r.key => q.event # r.event]_vars
  <2> SUFFICES ASSUME IInv, Next, NEW r \in runs' \ runs, store[r.key].cursor # None,
                      NEW q \in runs, q.key = r.key, q.event = r.event
               PROVE  FALSE
    OBVIOUS
  <2>t. Types /\ RunsPastCursor /\ PollKnows
    BY DEF IInv
  <2>1. admitActivationRun
    BY DEF Next, Reconciling, Retry, Polling1, movePointer, reconcileOnce, applyCreate, applyUpdate,
           applyDelete, queueRetries, unregisterWebhook, teardownDeleted, teardownTimesOut, clearStore, dropRow,
           enablePolling, registerWebhook, registerWebhookOnce, recordRegistration, standUp, awaitLanded,
           recordMaterialized, landPendingDeletesAt, landingEnds, lateDeleteAnswered, landingStarts,
           retryRetiredWebhook, retryHeld, retriedDelete, retryDone, newEvent, pollActivation, commitCursor,
           commitEpoch, pollFails, crash
  <2>2. /\ poll # None /\ poll.at = "admit"
        /\ r = [key |-> poll.key, epoch |-> poll.epoch, event |-> poll.next]
    BY <2>1 DEF admitActivationRun
  <2>3. poll.key \in Key /\ poll.next \in Nat /\ store[poll.key].cursor \in Nat
    BY <2>t, <2>2 DEF Types, Poll, StoreType
  <2>4. poll.next > store[poll.key].cursor /\ store[poll.key].epoch = poll.epoch
    BY <2>t, <2>2, <2>3 DEF PollKnows, CursorOf
  <2>5. q.epoch = poll.epoch
    BY <2>t, <2>2, <2>4 DEF RunsPastCursor
  <2>6. q = [key |-> q.key, epoch |-> q.epoch, event |-> q.event]
    BY <2>t DEF Types, Run
  <2> QED BY <2>2, <2>5, <2>6
<1> QED BY <1>1, Invariance, PTL DEF Spec, EventRunsOnce

(* A cursor that is set is written only by the commit of a poll, past      *)
(* nothing that has not run; or cleared.                                   *)
THEOREM CursorSkipsNothing == Spec => NoEventSkipped
<1> DEFINE Moves(k, c, d) ==
             c # None /\ d # None /\ d # c =>
               d > c /\ \A e \in (c + 1)..d : \E r \in runs : r.key = k /\ r.event = e
<1>1. ASSUME IInv, Next, NEW k \in Key PROVE Moves(k, store[k].cursor, store'[k].cursor)
  <2>t. Types /\ PollKnows /\ RecKnows
    BY <1>1 DEF IInv
  <2>1. CASE commitCursor
    <3>1. /\ poll # None /\ poll.at = "admit" /\ poll.next > poll.upto /\ poll.key \in Key
          /\ poll.next \in Nat /\ poll.upto \in Nat
      BY <2>t, <2>1 DEF commitCursor, Types, Poll
    <3>2. CASE k # poll.key
      BY <2>t, <2>1, <3>1, <3>2 DEF commitCursor, Types
    <3>3. CASE k = poll.key /\ store[k].cursor # None
      <4>1. store'[k].cursor = poll.upto /\ store[k].cursor \in Nat
        BY <2>t, <2>1, <3>3 DEF commitCursor, Types, StoreType
      <4>2. poll.upto > store[k].cursor /\ \A e \in (store[k].cursor + 1)..(poll.next - 1) : RunOf(k, e)
        BY <2>t, <3>1, <3>3, <4>1 DEF PollKnows, CursorOf
      <4>3. (store[k].cursor + 1)..poll.upto \subseteq (store[k].cursor + 1)..(poll.next - 1)
        BY <3>1, <4>1
      <4> QED BY <4>1, <4>2, <4>3 DEF RunOf
    <3> QED BY <3>2, <3>3
  <2>2. CASE store'[k].cursor \in {store[k].cursor, None}
    BY <2>2
  <2>3. CASE clearStore \/ enablePolling \/ recordRegistration
    <3>1. rec.key \in Key
      BY <2>t, <2>3 DEF clearStore, enablePolling, recordRegistration, RecKnows, Unkeyed, Types, RecType
    <3>2. enablePolling => store[rec.key].cursor = None
      BY <2>t DEF enablePolling, RecKnows, EmptyStore
    <3> QED
      BY <2>t, <2>3, <3>1, <3>2 DEF clearStore, enablePolling, recordRegistration, EmptyStore, Types, StoreType
  <2>4. CASE commitEpoch \/ \E j \in Key : pollActivation(j)
    BY <2>2, <2>4, <2>t DEF commitEpoch, pollActivation, Types, StoreType
  <2>5. CASE UNCHANGED store
    BY <2>2, <2>5
  <2> QED
    BY <1>1, <2>1, <2>3, <2>4, <2>5
       DEF Next, Reconciling, Retry, Polling1, movePointer, reconcileOnce, applyCreate, applyUpdate, applyDelete,
           queueRetries, unregisterWebhook, teardownDeleted, teardownTimesOut, dropRow, registerWebhook,
           registerWebhookOnce, standUp, awaitLanded, recordMaterialized, landPendingDeletesAt, landingEnds,
           lateDeleteAnswered, landingStarts, retryRetiredWebhook, retryHeld, retriedDelete, retryDone,
           newEvent, admitActivationRun, pollFails, crash
<1>2. IInv /\ [Next]_vars =>
        [\A k \in Key : LET c == store[k].cursor
                        IN  c # None /\ store'[k].cursor # None /\ store'[k].cursor # c =>
                              /\ store'[k].cursor > c
                              /\ \A e \in (c + 1)..store'[k].cursor : \E r \in runs : r.key = k /\ r.event = e]_vars
  BY <1>1
<1> QED BY <1>2, Invariance, PTL DEF Spec, NoEventSkipped
=============================================================================
