-------------------------- MODULE RunSequencerProofs --------------------------
(***************************************************************************)
(* Proofs about RunSequencer, for every number of lanes, whatever their    *)
(* code does, and any number of crashes.                                   *)
(***************************************************************************)
EXTENDS RunSequencer, FiniteSetTheorems, SequenceTheorems, WellFoundedInduction, TLAPS

-----------------------------------------------------------------------------
(* What holds of an execution as it stands.                                *)

Handed == Outcome \cup Lane \cup {"all"}
LaneRec == [phase : Phases, seen : Seq(Handed), unit : Unit \cup {None}, on : SUBSET Lane]
Wakes == [lane : Lane, completed : BOOLEAN]
OpName == ({"step", "wait"} \X Key) \cup ({"sched"} \X Nat)
Quiesces == [phase : {"idle", "watching", "recording", "following"}, pending : Seq(OpName),
             id : Nat, chosen : SUBSET Nat]

Types ==
  /\ lanes \in [Lane -> LaneRec] /\ ended \in Seq(Lane) /\ turn \in Lane \cup {None}
  /\ runnable \in Seq(Wakes) /\ scheduled \in BOOLEAN /\ inFlight \in Seq(Lane)
  /\ quiesce \in Quiesces /\ poison \in {None} \cup Faults
  /\ nextIndex \in Nat /\ nextSched \in Nat /\ issued \in Seq(OpName) /\ history \in Seq(OpName)
  /\ status \in {"running", "completed", "failed"} /\ crashes \in 0..MaxCrashes

(* A lane has an operation while it is at one; the operation stands where  *)
(* it was issued, and what it came to is on record there.                  *)
LaneSound(lane, iss, lg) ==
  /\ lane \in LaneRec
  /\ lane.unit # None <=> lane.phase \in {"head", "parking", "awaiting"}
  /\ lane.phase = "head" => lane.unit.outcome = None /\ ~lane.unit.owned
  /\ lane.phase = "parking" => lane.unit.owned
  /\ lane.unit # None =>
       /\ lane.unit.id \in DOMAIN iss /\ iss[lane.unit.id] = lane.unit.name
       /\ lane.unit.outcome \notin {None} \cup Errors =>
            lane.unit.id \in DOMAIN lg /\ lg[lane.unit.id].value = lane.unit.outcome

LanesSound == \A l \in Lane : LaneSound(lanes[l], issued, log)

(* The record names the operations of the history.                         *)
LogNames ==
  \A id \in DOMAIN log :
    /\ id \in DOMAIN history /\ log[id].name = history[id]
    /\ log[id].value \in Outcome \ {"unexpected"}

ErrorsFail == ~Poisoned => \A l \in Lane : UnitOf(l) # None => UnitOf(l).outcome \notin Errors

(* Who is at its code, or between two operations, holds the turn.          *)
Turns ==
  /\ ~Poisoned => \A l \in Lane : Phase(l) \in {"running", "head", "parking"} => turn = l
  /\ turn # None =>
       /\ ~Poisoned /\ Phase(turn) \in {"running", "head", "parking"}
       /\ ~scheduled /\ quiesce.phase = "idle"

Flying ==
  /\ IsInjective(inFlight)
  /\ \A l \in ToSet(inFlight) : Phase(l) \in {"parking", "awaiting"} /\ UnitOf(l).index < nextIndex
  /\ \A l, m \in ToSet(inFlight) : UnitOf(l).index = UnitOf(m).index => l = m

(* A lane is woken once, by what it waits for.                             *)
OneWake(r) == \A i, j \in DOMAIN r : r[i].lane = r[j].lane => i = j

WakeSound(wake, lane, flying) ==
  IF wake.completed
  THEN lane.phase = "awaiting" /\ lane.unit.outcome # None /\ wake.lane \notin flying
  ELSE lane.phase \in {"queued", "woken"}

WakesSound(r, as, flying) == \A i \in DOMAIN r : WakeSound(r[i], as[r[i].lane], flying)

Waking == OneWake(runnable) /\ WakesSound(runnable, lanes, ToSet(inFlight))

Halted == Poisoned => turn = None /\ runnable = <<>> /\ ~scheduled /\ inFlight = <<>>

(* What the sequencer waits for is what there was when it began to wait.   *)
Quiescing ==
  /\ quiesce.phase # "idle" /\ ~Poisoned => turn = None /\ ~scheduled /\ runnable = <<>>
  /\ Poisoned => quiesce.phase \in {"idle", "recording"}
  /\ quiesce.phase = "recording" => quiesce.id \in DOMAIN issued
  /\ quiesce.phase \in {"recording", "following"} /\ ~Poisoned => quiesce.id = Len(issued) /\ issued # <<>>
  /\ quiesce.phase = "recording" /\ ~Poisoned =>
       quiesce.pending = Names(inFlight) /\ quiesce.chosen \subseteq Indexes(ToSet(inFlight))
  /\ quiesce.phase = "following" => quiesce.id \in DOMAIN log /\ quiesce.chosen = log[quiesce.id].settled

EndedOnce == IsInjective(ended) /\ \A l \in ToSet(ended) : Phase(l) = "ended"

Over ==
  /\ status = "completed" =>
       /\ ~Poisoned /\ turn = None /\ ~scheduled /\ quiesce.phase = "idle"
       /\ \A l \in Lane : Phase(l) \in {"unborn", "ended"}
  /\ status = "failed" => Poisoned

SInv ==
  /\ Types /\ LanesSound /\ LogNames /\ ErrorsFail /\ Turns /\ Flying /\ Waking
  /\ Halted /\ Quiescing /\ EndedOnce /\ Over

-----------------------------------------------------------------------------
(* Where an execution is, but for what its operations came to: that it     *)
(* reads from the record.  Where it gets to next follows from it.          *)

Place(unit) ==
  IF unit = None THEN None
  ELSE [name |-> unit.name, owned |-> unit.owned, index |-> unit.index, id |-> unit.id]
At(phase, seen, on, unit) == [phase |-> phase, seen |-> seen, on |-> on, unit |-> unit]
Bare(lane) == At(lane.phase, lane.seen, lane.on, Place(lane.unit))

Stand(ls, en, tu, ru, fl, ni, ns, is, as) ==
  [lanes |-> ls, ended |-> en, turn |-> tu, runnable |-> ru, inFlight |-> fl, nextIndex |-> ni,
   nextSched |-> ns, issued |-> is, asked |-> as]

Core ==
  Stand([l \in Lane |-> Bare(lanes[l])], ended, turn, runnable, inFlight, nextIndex, nextSched,
        issued, quiesce.phase \in {"recording", "following"})

Start ==
  Stand([l \in Lane |-> Bare(Fresh[l])], <<>>, Root, <<>>, <<>>, 0, 0, <<>>, FALSE)

(* What a core becomes when its lanes, turn and runnable change.           *)
Turned(c, ls, tu, ru) ==
  Stand(ls, c.ended, tu, ru, c.inFlight, c.nextIndex, c.nextSched, c.issued, c.asked)
Put(c, l, lane) == [m \in Lane |-> IF m = l THEN lane ELSE c.lanes[m]]
Given(lane, x) == At(lane.phase, Append(lane.seen, x), lane.on, lane.unit)
Gone(lane, phase) == At(phase, lane.seen, lane.on, lane.unit)
AtOp(c, lane, phase, name, owned) ==
  At(phase, lane.seen, lane.on,
     [name |-> name, owned |-> owned, index |-> c.nextIndex, id |-> Len(c.issued) + 1])

Spawned(c, l, new) ==
  Turned(c, [m \in Lane |-> IF m = new THEN Gone(c.lanes[m], "queued")
                            ELSE IF m = l THEN Given(c.lanes[m], new) ELSE c.lanes[m]],
         l, Append(c.runnable, Wake(new, FALSE)))

Issued(c, l, phase, name, owned, tu) ==
  Stand(Put(c, l, AtOp(c, c.lanes[l], phase, name, owned)), c.ended, tu, c.runnable,
        Append(c.inFlight, l), c.nextIndex + 1, c.nextSched, Append(c.issued, name), c.asked)

Headed(c, l, key) ==
  Stand(Put(c, l, AtOp(c, c.lanes[l], "head", <<"wait", key>>, FALSE)), c.ended, l, c.runnable,
        c.inFlight, c.nextIndex, c.nextSched, Append(c.issued, <<"wait", key>>), c.asked)

Joined(c, l, on) ==
  Turned(c, Put(c, l, At("joining", c.lanes[l].seen, on, c.lanes[l].unit)), None, c.runnable)

FirstOf(en, on) == en[Min({i \in DOMAIN en : en[i] \in on})]

JoinersOf(c, l) == {j \in Lane : c.lanes[j].phase = "joining" /\ l \in c.lanes[j].on}
Woken(c, l, j) ==
  At("woken", IF Code(j, c.lanes[j].seen).do = "joinAny" THEN Append(c.lanes[j].seen, l)
              ELSE c.lanes[j].seen, {}, c.lanes[j].unit)
Finished(c, l) ==
  Stand([m \in Lane |-> IF m = l THEN Gone(c.lanes[m], "ended")
                        ELSE IF m \in JoinersOf(c, l) THEN Woken(c, l, m) ELSE c.lanes[m]],
        Append(c.ended, l), None,
        c.runnable \o [i \in 1..Cardinality(JoinersOf(c, l)) |->
                         Wake(SetToSeq(JoinersOf(c, l))[i], FALSE)],
        c.inFlight, c.nextIndex, c.nextSched, c.issued, c.asked)

Commanded(c, l, cmd) ==
  IF cmd.do = "spawn" THEN Spawned(c, l, cmd.lane)
  ELSE IF cmd.do = "step" THEN Issued(c, l, "awaiting", <<"step", cmd.key>>, FALSE, None)
  ELSE IF cmd.do = "wait" THEN Headed(c, l, cmd.key)
  ELSE IF cmd.do = "joinAny" THEN
         IF cmd.on \cap ToSet(c.ended) = {} THEN Joined(c, l, cmd.on)
         ELSE Turned(c, Put(c, l, Given(c.lanes[l], FirstOf(c.ended, cmd.on))), l, c.runnable)
  ELSE IF cmd.do = "joinAll" THEN
         IF cmd.on \ ToSet(c.ended) # {} THEN Joined(c, l, cmd.on \ ToSet(c.ended))
         ELSE Turned(c, Put(c, l, Given(c.lanes[l], "all")), l, c.runnable)
  ELSE Finished(c, l)

Granted(lg, c, wake) ==
  Turned(c, Put(c, wake.lane,
                IF wake.completed
                THEN At("running", Append(c.lanes[wake.lane].seen,
                                          lg[c.lanes[wake.lane].unit.id].value),
                        c.lanes[wake.lane].on, None)
                ELSE Gone(c.lanes[wake.lane], "running")),
         wake.lane, Tail(c.runnable))

Delivered(c, S) ==
  Stand(c.lanes, c.ended, None,
        c.runnable \o [i \in DOMAIN Only(c.inFlight, S) |-> Wake(Only(c.inFlight, S)[i], TRUE)],
        Only(c.inFlight, ToSet(c.inFlight) \ S), c.nextIndex, c.nextSched, c.issued, FALSE)

Asked(c) ==
  Stand(c.lanes, c.ended, None, c.runnable, c.inFlight, c.nextIndex, c.nextSched + 1,
        Append(c.issued, <<"sched", c.nextSched>>), TRUE)

InTurn(c, l) ==
  IF c.lanes[l].phase = "running" THEN Commanded(c, l, Code(l, c.lanes[l].seen))
  ELSE IF c.lanes[l].phase = "head"
  THEN Issued(c, l, "parking", c.lanes[l].unit.name, TRUE, l)
  ELSE Turned(c, Put(c, l, Gone(c.lanes[l], "awaiting")), None, c.runnable)

Chosen(lg, c) == {l \in ToSet(c.inFlight) : c.lanes[l].unit.index \in lg[Len(c.issued)].settled}

Moved(lg, c) ==
  IF c.turn # None THEN InTurn(c, c.turn)
  ELSE IF c.runnable # <<>> THEN Granted(lg, c, Head(c.runnable))
  ELSE IF c.asked THEN Delivered(c, Chosen(lg, c))
  ELSE IF Len(c.inFlight) = 1 THEN Delivered(c, ToSet(c.inFlight))
  ELSE Asked(c)

(* What it reads must be on record.                                        *)
Ready(lg, c) ==
  c.turn = None =>
    IF c.runnable # <<>>
    THEN Head(c.runnable).completed => c.lanes[Head(c.runnable).lane].unit.id \in DOMAIN lg
    ELSE c.asked => Len(c.issued) \in DOMAIN lg

Moves(lg, c, d) == Ready(lg, c) /\ d = Moved(lg, c)

Live == ~Poisoned /\ status = "running"

-----------------------------------------------------------------------------
(* Numbers, and sequences of lanes.                                        *)

(* A set of numbers has a least one.                                       *)
LEMMA LeastNat ==
  ASSUME NEW T \in SUBSET Nat, T # {}
  PROVE  \E x \in T : \A y \in T : x <= y
<1> DEFINE R == OpToRel(<, Nat)
<1>1. IsWellFoundedOn(R, Nat)
  BY NatLessThanWellFounded
<1>2. \A x, y \in Nat : <<x, y>> \in R <=> x < y
  BY DEF OpToRel
<1> HIDE DEF R
<1>3. PICK x \in T : \A y \in T : ~(<<y, x>> \in R)
  BY <1>1, WFMin
<1>4. \A y \in T : x \in Nat /\ y \in Nat
  OBVIOUS
<1>5. \A y \in T : ~(y < x)
  BY <1>2, <1>3, <1>4
<1> QED BY <1>4, <1>5

(* What is in a set from 0 on and never first leaves it stays in it.       *)
LEMMA SetInduction ==
  ASSUME NEW T, 0 \in T, \A k \in Nat : k \in T => k + 1 \in T
  PROVE  Nat \subseteq T
<1> SUFFICES ASSUME Nat \ T # {} PROVE FALSE
  OBVIOUS
<1>1. PICK x \in Nat \ T : \A y \in Nat \ T : x <= y
  BY LeastNat
<1>2. x # 0 /\ x - 1 \in Nat
  BY <1>1
<1>3. x - 1 \in T
  BY <1>1, <1>2
<1> QED BY <1>1, <1>2, <1>3

(* What has been kept of a sequence after its first i members.             *)
Keeps(only, seq, S) ==
  only = [i \in 0..Len(seq) |->
            IF i = 0 THEN <<>>
            ELSE IF seq[i] \in S THEN Append(only[i - 1], seq[i]) ELSE only[i - 1]]

LEMMA KeepsExists ==
  ASSUME NEW seq \in Seq(Lane), NEW S
  PROVE  \E only : Keeps(only, seq, S)
<1> DEFINE l == Len(seq)
           Grows(g, n) == g = [i \in 0..n |-> IF i = 0 THEN <<>>
                                ELSE IF seq[i] \in S THEN Append(g[i - 1], seq[i]) ELSE g[i - 1]]
           T == {n \in Nat : \E g : Grows(g, n)}
<1>1. 0 \in T
  <2>1. Grows([i \in 0..0 |-> <<>>], 0)
    OBVIOUS
  <2> QED BY <2>1
<1>2. ASSUME NEW n \in Nat, n \in T PROVE n + 1 \in T
  <2>1. PICK g : Grows(g, n)
    BY <1>2
  <2> DEFINE h == [i \in 0..(n + 1) |-> IF i = n + 1
                     THEN (IF seq[n + 1] \in S THEN Append(g[n], seq[n + 1]) ELSE g[n]) ELSE g[i]]
  <2>2. \A i \in 0..n : g[i] = IF i = 0 THEN <<>>
                                ELSE IF seq[i] \in S THEN Append(g[i - 1], seq[i]) ELSE g[i - 1]
    BY <2>1
  <2>3. ASSUME NEW i \in 0..(n + 1)
        PROVE  h[i] = IF i = 0 THEN <<>> ELSE IF seq[i] \in S THEN Append(h[i - 1], seq[i]) ELSE h[i - 1]
    <3>1. CASE i = n + 1
      <4>1. i - 1 = n /\ h[i - 1] = g[n] /\ i # 0
        BY <3>1
      <4> QED BY <3>1, <4>1
    <3>2. CASE i # n + 1
      <4>1. i \in 0..n /\ h[i] = g[i] /\ (i # 0 => i - 1 \in 0..n /\ h[i - 1] = g[i - 1])
        BY <3>2
      <4> QED BY <2>2, <4>1
    <3> QED BY <3>1, <3>2
  <2>4. Grows(h, n + 1)
    <3> DEFINE k == [i \in 0..(n + 1) |-> IF i = 0 THEN <<>>
                      ELSE IF seq[i] \in S THEN Append(h[i - 1], seq[i]) ELSE h[i - 1]]
    <3>1. \A i \in 0..(n + 1) : h[i] = k[i]
      BY <2>3
    <3>2. h = [i \in 0..(n + 1) |-> h[i]] /\ k = [i \in 0..(n + 1) |-> k[i]]
      OBVIOUS
    <3>3. h = k
      <4> HIDE DEF h, k
      <4> QED BY <3>1, <3>2
    <3> QED BY <3>3
  <2>5. \E f : Grows(f, n + 1)
    <3> HIDE DEF h, Grows
    <3> QED BY <2>4
  <2> HIDE DEF Grows
  <2> QED BY <2>5
<1>3. l \in T
  <2> HIDE DEF T
  <2>1. Nat \subseteq T
    BY <1>1, <1>2, SetInduction
  <2> QED BY <2>1
<1> QED BY <1>3 DEF Keeps

LEMMA OnlyIs ==
  ASSUME NEW seq \in Seq(Lane), NEW S
  PROVE  /\ Only(seq, S) \in Seq(Lane)
         /\ ToSet(Only(seq, S)) = ToSet(seq) \cap S
         /\ IsInjective(seq) => IsInjective(Only(seq, S))
<1> DEFINE only == CHOOSE o : Keeps(o, seq, S)
           l == Len(seq)
<1>1. Keeps(only, seq, S)
  BY KeepsExists
<1>2. Only(seq, S) = only[l]
  BY DEF Only, Keeps
<1> HIDE DEF only
<1> DEFINE Good(i) == /\ only[i] \in Seq(Lane)
                      /\ ToSet(only[i]) = {seq[j] : j \in 1..i} \cap S
                      /\ IsInjective(seq) => IsInjective(only[i])
           T == {i \in Nat : i <= l => Good(i)}
<1>3. l \in Nat /\ DOMAIN seq = 1..l /\ \A i \in 1..l : seq[i] \in Lane
  OBVIOUS
<1>4. 0 \in T
  <2>1. only[0] = <<>>
    BY <1>1, <1>3 DEF Keeps
  <2>2. /\ <<>> \in Seq(Lane) /\ ToSet(<<>>) = {} /\ IsInjective(<<>>)
    BY DEF ToSet, IsInjective
  <2>3. {seq[j] : j \in 1..0} = {}
    OBVIOUS
  <2>4. Good(0)
    BY <2>1, <2>2, <2>3
  <2> QED BY <2>4
<1>5. ASSUME NEW i \in Nat, i \in T, i + 1 <= l PROVE Good(i + 1)
  <2>1. Good(i) /\ i + 1 \in 0..l /\ i + 1 # 0 /\ (i + 1) - 1 = i /\ i + 1 \in 1..l /\ i <= l
    BY <1>3, <1>5
  <2>2. only[i + 1] = IF seq[i + 1] \in S THEN Append(only[i], seq[i + 1]) ELSE only[i]
    BY <1>1, <2>1 DEF Keeps
  <2>3. {seq[j] : j \in 1..(i + 1)} = {seq[j] : j \in 1..i} \cup {seq[i + 1]}
    OBVIOUS
  <2>4. CASE seq[i + 1] \notin S
    <3>1. {seq[j] : j \in 1..(i + 1)} \cap S = {seq[j] : j \in 1..i} \cap S
      BY <2>3, <2>4
    <3> QED BY <2>1, <2>2, <2>4, <3>1
  <2>5. CASE seq[i + 1] \in S
    <3> DEFINE a == only[i]
               b == Append(a, seq[i + 1])
    <3>1. only[i + 1] = b /\ a \in Seq(Lane) /\ seq[i + 1] \in Lane
      BY <1>3, <2>1, <2>2, <2>5
    <3>2. /\ b \in Seq(Lane) /\ Len(b) = Len(a) + 1 /\ Len(a) \in Nat /\ DOMAIN a = 1..Len(a) /\ DOMAIN b = 1..(Len(a) + 1)
          /\ b[Len(a) + 1] = seq[i + 1] /\ \A x \in 1..Len(a) : b[x] = a[x]
      BY <3>1
    <3> HIDE DEF a, b
    <3>3. ToSet(b) = ToSet(a) \cup {seq[i + 1]}
      BY <3>2 DEF ToSet
    <3>4. ToSet(b) = {seq[j] : j \in 1..(i + 1)} \cap S
      BY <2>1, <2>3, <2>5, <3>3 DEF a
    <3>5. ASSUME IsInjective(seq) PROVE IsInjective(b)
      <4>1. IsInjective(a)
        BY <2>1, <3>5 DEF a
      <4>2. \A j \in 1..i : seq[j] # seq[i + 1]
        BY <1>3, <2>1, <3>5 DEF IsInjective
      <4>3. \A x \in 1..Len(a) : a[x] # seq[i + 1]
        <5>1. \A x \in 1..Len(a) : a[x] \in {seq[j] : j \in 1..i}
          BY <2>1, <3>2 DEF ToSet, a
        <5> QED BY <4>2, <5>1
      <4> QED BY <3>2, <4>1, <4>3 DEF IsInjective
    <3> QED BY <3>1, <3>2, <3>4, <3>5
  <2> QED BY <2>4, <2>5
<1>6. Nat \subseteq T
  <2>1. ASSUME NEW i \in Nat, i \in T PROVE i + 1 \in T
    <3>1. i + 1 <= l => Good(i + 1)
      BY <1>5, <2>1
    <3> HIDE DEF Good
    <3> QED BY <3>1
  <2> HIDE DEF T
  <2> QED BY <1>4, <2>1, SetInduction
<1>7. Good(l)
  <2>1. l \in T
    <3> HIDE DEF T
    <3> QED BY <1>3, <1>6
  <2>2. l <= l
    BY <1>3
  <2> HIDE DEF Good
  <2> QED BY <2>1, <2>2
<1>8. {seq[j] : j \in 1..l} = ToSet(seq)
  BY <1>3 DEF ToSet
<1> QED BY <1>2, <1>7, <1>8

(* What is added to a sequence without repetitions.                        *)
LEMMA AppendIs ==
  ASSUME NEW S, NEW seq \in Seq(S), NEW x \in S
  PROVE  /\ Append(seq, x) \in Seq(S)
         /\ Len(Append(seq, x)) = Len(seq) + 1 /\ Append(seq, x) # <<>>
         /\ DOMAIN Append(seq, x) = DOMAIN seq \cup {Len(seq) + 1}
         /\ Append(seq, x)[Len(seq) + 1] = x
         /\ \A i \in DOMAIN seq : Append(seq, x)[i] = seq[i]
         /\ ToSet(Append(seq, x)) = ToSet(seq) \cup {x}
         /\ IsInjective(seq) /\ x \notin ToSet(seq) => IsInjective(Append(seq, x))
<1> DEFINE b == Append(seq, x)
<1>1. /\ b \in Seq(S) /\ Len(b) = Len(seq) + 1 /\ Len(seq) \in Nat
      /\ DOMAIN seq = 1..Len(seq) /\ DOMAIN b = 1..(Len(seq) + 1)
      /\ b[Len(seq) + 1] = x /\ \A i \in 1..Len(seq) : b[i] = seq[i]
  OBVIOUS
<1>2. b # <<>>
  BY <1>1
<1> HIDE DEF b
<1>3. DOMAIN b = DOMAIN seq \cup {Len(seq) + 1}
  BY <1>1
<1>4. ToSet(b) = ToSet(seq) \cup {x}
  BY <1>1 DEF ToSet
<1>5. ASSUME IsInjective(seq), x \notin ToSet(seq) PROVE IsInjective(b)
  <2>1. \A i \in 1..Len(seq) : b[i] # x
    BY <1>1, <1>5 DEF ToSet
  <2> QED BY <1>1, <1>5, <2>1 DEF IsInjective
<1> QED BY <1>1, <1>2, <1>3, <1>4, <1>5 DEF b

(* The wakes of lanes that were not to run are added to those of others.   *)
WakesOf(s, c) == [i \in DOMAIN s |-> Wake(s[i], c)]

LEMMA WakesAdded ==
  ASSUME NEW r \in Seq(Wakes), NEW s \in Seq(Lane), NEW c \in BOOLEAN, OneWake(r), IsInjective(s),
         \A i \in DOMAIN r : r[i].lane \notin ToSet(s)
  PROVE  /\ (r \o WakesOf(s, c)) \in Seq(Wakes) /\ OneWake(r \o WakesOf(s, c))
         /\ \A i \in DOMAIN (r \o WakesOf(s, c)) :
              \/ \E j \in DOMAIN r : (r \o WakesOf(s, c))[i] = r[j]
              \/ \E j \in DOMAIN s : (r \o WakesOf(s, c))[i] = Wake(s[j], c)
<1> DEFINE w == WakesOf(s, c)
           q == r \o w
<1>0. Len(s) \in Nat /\ DOMAIN s = 1..Len(s) /\ \A i \in 1..Len(s) : s[i] \in Lane
  OBVIOUS
<1>1. w \in Seq(Wakes) /\ Len(w) = Len(s) /\ DOMAIN w = 1..Len(s) /\ DOMAIN s = 1..Len(s)
      /\ \A i \in 1..Len(s) : w[i] = Wake(s[i], c) /\ w[i].lane = s[i]
  <2>1. \A i \in 1..Len(s) : Wake(s[i], c) \in Wakes /\ Wake(s[i], c).lane = s[i]
    BY <1>0 DEF Wake, Wakes
  <2>2. w \in [1..Len(s) -> Wakes]
    BY <1>0, <2>1 DEF WakesOf
  <2>3. w \in Seq(Wakes) /\ Len(w) = Len(s) /\ DOMAIN w = 1..Len(s)
    <3> HIDE DEF w
    <3> QED BY <1>0, <2>2
  <2>4. \A i \in 1..Len(s) : w[i] = Wake(s[i], c)
    BY <1>0 DEF WakesOf
  <2> QED BY <1>0, <2>1, <2>3, <2>4
<1> HIDE DEF w
<1>2. /\ q \in Seq(Wakes) /\ Len(r) \in Nat /\ Len(s) \in Nat /\ Len(q) = Len(r) + Len(s) 
      /\ DOMAIN q = 1..(Len(r) + Len(s)) /\ DOMAIN r = 1..Len(r)
      /\ \A i \in 1..(Len(r) + Len(s)) : q[i] = IF i <= Len(r) THEN r[i] ELSE w[i - Len(r)]
  <2>1. /\ q \in Seq(Wakes) /\ Len(q) = Len(r) + Len(w)
        /\ \A i \in 1..(Len(r) + Len(w)) : q[i] = IF i <= Len(r) THEN r[i] ELSE w[i - Len(r)]
    BY <1>1, ConcatProperties
  <2> HIDE DEF q
  <2>2. DOMAIN q = 1..Len(q) /\ Len(r) \in Nat /\ DOMAIN r = 1..Len(r)
    BY <2>1
  <2> QED BY <1>0, <1>1, <2>1, <2>2
<1> HIDE DEF q
<1>3. ASSUME NEW i \in DOMAIN q
      PROVE  \/ i \in DOMAIN r /\ q[i] = r[i]
             \/ /\ i > Len(r) /\ i - Len(r) \in DOMAIN s 
                /\ q[i] = Wake(s[i - Len(r)], c) /\ q[i].lane = s[i - Len(r)]
  BY <1>1, <1>2
<1>4. OneWake(q)
  <2> SUFFICES ASSUME NEW i \in DOMAIN q, NEW j \in DOMAIN q, q[i].lane = q[j].lane PROVE i = j
    BY DEF OneWake
  <2>1. CASE i \in DOMAIN r /\ q[i] = r[i] /\ j \in DOMAIN r /\ q[j] = r[j]
    BY <2>1 DEF OneWake
  <2>2. ASSUME NEW k \in DOMAIN q, k \in DOMAIN r, q[k] = r[k], NEW m \in DOMAIN q, m - Len(r) \in DOMAIN s,
               q[m].lane = s[m - Len(r)]
        PROVE  q[k].lane # q[m].lane
    BY <2>2 DEF ToSet
  <2>3. CASE /\ i > Len(r) /\ i - Len(r) \in DOMAIN s /\ q[i].lane = s[i - Len(r)]
             /\ j > Len(r) /\ j - Len(r) \in DOMAIN s /\ q[j].lane = s[j - Len(r)]
    <3>1. i - Len(r) = j - Len(r)
      BY <2>3 DEF IsInjective
    <3> QED BY <1>2, <3>1
  <2> QED BY <1>3, <2>1, <2>2, <2>3
<1>5. \A i \in DOMAIN q : \/ \E j \in DOMAIN r : q[i] = r[j]
                          \/ \E j \in DOMAIN s : q[i] = Wake(s[j], c)
  BY <1>3
<1> QED BY <1>2, <1>4, <1>5 DEF q, w

(* The lanes in a set, put in an order.                                    *)
LEMMA SetToSeqIs ==
  ASSUME NEW S \in SUBSET Lane
  PROVE  /\ SetToSeq(S) \in Seq(Lane) /\ DOMAIN SetToSeq(S) = 1..Cardinality(S)
         /\ IsInjective(SetToSeq(S)) /\ ToSet(SetToSeq(S)) \subseteq S
<1>1. IsFiniteSet(S)
  BY LaneAssumption, FS_Subset
<1>2. Cardinality(S) \in Nat /\ \E f : ExistsBijection(1..Cardinality(S), S)
  BY <1>1, FS_CardinalityType
<1>3. PICK f \in [1..Cardinality(S) -> S] : IsInjective(f)
  BY <1>2 DEF ExistsBijection, Bijection, Injection, IsInjective
<1>4. SetToSeq(S) \in [1..Cardinality(S) -> S] /\ IsInjective(SetToSeq(S))
  BY <1>3 DEF SetToSeq
<1> QED BY <1>2, <1>4 DEF ToSet

-----------------------------------------------------------------------------
(* One lane.                                                               *)

LEMMA UnitTyped ==
  ASSUME NEW lane \in LaneRec, lane.unit # None
  PROVE  /\ lane.unit \in Unit /\ lane.unit.index \in Nat /\ lane.unit.id \in Nat
         /\ lane.unit.owned \in BOOLEAN /\ lane.unit.name \in {"step", "wait"} \X Key
         /\ lane.unit.name \in OpName /\ lane.unit.outcome \in Outcome \cup {None}
<1>1. lane.unit \in Unit
  BY DEF LaneRec
<1> QED BY <1>1 DEF Unit, OpName

(* What a lane is changed in, it has from there on; the rest it keeps.     *)
LEMMA LaneChange ==
  ASSUME NEW lane \in LaneRec, NEW p \in Phases, NEW u \in Unit \cup {None}, NEW x \in Handed, NEW on \in SUBSET Lane
  PROVE  /\ [lane EXCEPT !.phase = p] \in LaneRec
         /\ [lane EXCEPT !.unit = u, !.phase = p] \in LaneRec
         /\ [lane EXCEPT !.phase = p, !.unit = u] = [lane EXCEPT !.unit = u, !.phase = p]
         /\ [lane EXCEPT !.seen = Append(@, x)] \in LaneRec
         /\ [lane EXCEPT !.seen = Append(@, x), !.unit = u, !.phase = p] \in LaneRec
         /\ [lane EXCEPT !.phase = p, !.on = on] \in LaneRec
         /\ [lane EXCEPT !.phase = p, !.on = on, !.seen = Append(@, x)] \in LaneRec
<1>1. lane.seen \in Seq(Handed) /\ Append(lane.seen, x) \in Seq(Handed)
  BY DEF LaneRec
<1> DEFINE s == Append(lane.seen, x)
<1> HIDE DEF s
<1> QED BY <1>1 DEF LaneRec, s

LEMMA HandSound ==
  ASSUME NEW lane, NEW iss, NEW lg, LaneSound(lane, iss, lg), lane.unit # None, lane.unit.outcome # None
  PROVE  /\ LaneSound(hand(lane), iss, lg)
         /\ hand(lane).phase = "running" /\ hand(lane).unit = None /\ hand(lane).on = lane.on
         /\ hand(lane).seen = Append(lane.seen, lane.unit.outcome)
<1>1. lane \in LaneRec /\ lane.unit.outcome \in Handed /\ lane.seen \in Seq(Handed)
  BY UnitTyped DEF LaneSound, Handed, LaneRec
<1>2. hand(lane) \in LaneRec
  BY <1>1, LaneChange DEF hand, Phases
<1>3. /\ hand(lane).phase = "running" /\ hand(lane).unit = None /\ hand(lane).on = lane.on
      /\ hand(lane).seen = Append(lane.seen, lane.unit.outcome)
  BY <1>1 DEF hand, LaneRec
<1> QED BY <1>2, <1>3 DEF LaneSound

LEMMA GiveUpSound ==
  ASSUME NEW lane, NEW iss, NEW lg, LaneSound(lane, iss, lg)
  PROVE  /\ LaneSound(GiveUp(lane), iss, lg)
         /\ GiveUp(lane).phase = "running" /\ GiveUp(lane).unit = None
<1>1. lane \in LaneRec
  BY DEF LaneSound
<1>2. GiveUp(lane) \in LaneRec
  <2>1. None \in Unit \cup {None} /\ "running" \in Phases /\ "all" \in Handed /\ {} \in SUBSET Lane
    BY DEF Phases, Handed
  <2> QED BY <1>1, <2>1, LaneChange DEF GiveUp
<1>3. GiveUp(lane).phase = "running" /\ GiveUp(lane).unit = None
  BY <1>1 DEF GiveUp, LaneRec
<1> QED BY <1>2, <1>3 DEF LaneSound

(* A lane that ends, while it is at no operation.                          *)
LEMMA EndSound ==
  ASSUME NEW lane, NEW iss, NEW lg, LaneSound(lane, iss, lg), lane.unit = None
  PROVE  /\ LaneSound([lane EXCEPT !.phase = "ended"], iss, lg)
         /\ [lane EXCEPT !.phase = "ended"].phase = "ended"
         /\ [lane EXCEPT !.phase = "ended"].unit = None
<1> DEFINE new == [lane EXCEPT !.phase = "ended"]
<1>1. lane \in LaneRec
  BY DEF LaneSound
<1>2. new \in LaneRec
  <2>1. None \in Unit \cup {None} /\ "ended" \in Phases /\ "all" \in Handed /\ {} \in SUBSET Lane
    BY DEF Phases, Handed
  <2> QED BY <1>1, <2>1, LaneChange
<1>3. new.phase = "ended" /\ new.unit = None
  BY <1>1 DEF LaneRec
<1> QED BY <1>2, <1>3 DEF LaneSound

LEMMA RefuseSound ==
  ASSUME NEW lane, NEW iss, NEW lg, LaneSound(lane, iss, lg)
  PROVE  /\ LaneSound(Refuse(lane), iss, lg)
         /\ lane.phase \in {"unborn", "ended"} => Refuse(lane) = lane
<1>1. CASE lane.phase = "awaiting"
  <2>1. lane.unit # None
    BY <1>1 DEF LaneSound
  <2>2. CASE lane.unit.outcome # None
    <3>1. Refuse(lane) = hand(lane)
      BY <1>1, <2>2 DEF Refuse, RunsBody
    <3>2. LaneSound(hand(lane), iss, lg)
      BY <2>1, <2>2, HandSound
    <3> QED BY <1>1, <3>1, <3>2
  <2>3. CASE lane.unit.outcome = None
    BY <1>1, <2>3, GiveUpSound DEF Refuse
  <2> QED BY <1>1, <2>2, <2>3
<1>2. CASE lane.phase \in {"joining", "woken"}
  BY <1>2, GiveUpSound DEF Refuse
<1>3. CASE lane.phase = "queued"
  <2>1. lane.unit = None
    BY <1>3 DEF LaneSound
  <2> QED BY <1>3, <2>1, EndSound DEF Refuse
<1>4. CASE lane.phase \notin {"awaiting", "joining", "woken", "queued"}
  BY <1>4 DEF Refuse
<1> QED BY <1>1, <1>2, <1>3, <1>4

(* What was issued and recorded stays so.                                  *)
Longer(iss, more) == DOMAIN iss \subseteq DOMAIN more /\ \A i \in DOMAIN iss : more[i] = iss[i]

LEMMA LaneKept ==
  ASSUME NEW lane, NEW iss, NEW lg, NEW iss2, NEW lg2, LaneSound(lane, iss, lg),
         Longer(iss, iss2), Longer(lg, lg2)
  PROVE  LaneSound(lane, iss2, lg2)
BY DEF LaneSound, Longer

-----------------------------------------------------------------------------
(* What every step keeps of an execution as it stands.                     *)

Rest0 == <<nextIndex, nextSched, issued, status, history, crashes>>

LEMMA LaneTyped ==
  ASSUME SInv, NEW l \in Lane
  PROVE  lanes[l] \in LaneRec /\ LaneSound(lanes[l], issued, log)
BY DEF SInv, LanesSound, LaneSound

(* A lane at its code.                                                     *)
LEMMA AtCode ==
  ASSUME SInv, NEW l \in Lane, Holds(l)
  PROVE  /\ ~Poisoned /\ turn = l /\ ~scheduled /\ quiesce.phase = "idle" /\ status = "running"
         /\ lanes[l] \in LaneRec /\ LaneSound(lanes[l], issued, log)
         /\ lanes[l].phase = "running" /\ lanes[l].unit = None
         /\ l \notin ToSet(inFlight) /\ l \notin ToSet(ended)
         /\ \A i \in DOMAIN runnable : runnable[i].lane # l
<1>1. ~Poisoned /\ turn = l /\ lanes[l].phase = "running" /\ l # None
  BY LaneAssumption DEF Holds, Phase
<1>2. ~scheduled /\ quiesce.phase = "idle"
  BY <1>1 DEF SInv, Turns
<1>3. status = "running"
  BY <1>1 DEF SInv, Over, Types
<1>4. lanes[l] \in LaneRec /\ LaneSound(lanes[l], issued, log)
  BY LaneTyped
<1>5. lanes[l].unit = None
  BY <1>1, <1>4 DEF LaneSound
<1>6. l \notin ToSet(inFlight) /\ l \notin ToSet(ended)
  BY <1>1 DEF SInv, Flying, EndedOnce, Phase
<1>7. \A i \in DOMAIN runnable : runnable[i].lane # l
  BY <1>1 DEF SInv, Waking, WakesSound, WakeSound
<1> QED BY <1>1, <1>2, <1>3, <1>4, <1>5, <1>6, <1>7

(* The run fails.                                                          *)
LEMMA FailSound ==
  ASSUME SInv, status = "running", NEW error \in Faults, NEW as,
         \A l \in Lane : LaneSound(as[l], issued, log'), LogNames',
         ended' \in Seq(Lane), IsInjective(ended'), \A l \in ToSet(ended') : as[l].phase = "ended",
         fail(error, as), UNCHANGED Rest0
  PROVE  SInv'
<1>1. /\ poison' = error /\ turn' = None /\ runnable' = <<>> /\ scheduled' = FALSE /\ inFlight' = <<>>
      /\ lanes' = [l \in Lane |-> Refuse(as[l])]
      /\ quiesce' = (IF quiesce.phase = "recording" THEN quiesce ELSE Idle)
      /\ nextIndex' = nextIndex /\ nextSched' = nextSched /\ issued' = issued /\ status' = status
      /\ history' = history /\ crashes' = crashes
  BY DEF fail, Rest0
<1>2. \A l \in Lane : /\ LaneSound(Refuse(as[l]), issued, log')
                      /\ as[l].phase = "ended" => Refuse(as[l]) = as[l]
  BY RefuseSound
<1>3. \A l \in Lane : lanes'[l] = Refuse(as[l]) /\ lanes'[l] \in LaneRec
  BY <1>1, <1>2 DEF LaneSound
<1>4. poison' # None
  BY <1>1, NoneAssumption DEF Outcome, Errors
<1>5. Idle \in Quiesces
  BY DEF Idle, Quiesces
<1>6. Types'
  <2>1. lanes' \in [Lane -> LaneRec]
    BY <1>1, <1>3
  <2>2. quiesce' \in Quiesces
    BY <1>1, <1>5 DEF SInv, Types
  <2>3. <<>> \in Seq(Wakes) /\ <<>> \in Seq(Lane)
    OBVIOUS
  <2> QED BY <1>1, <2>1, <2>2, <2>3 DEF SInv, Types
<1>7. LanesSound'
  BY <1>1, <1>2, <1>3 DEF LanesSound
<1>8. ErrorsFail' /\ Turns' /\ Halted' /\ Over'
  BY <1>1, <1>4 DEF ErrorsFail, Turns, Halted, Over, Poisoned
<1>9. Flying' /\ Waking'
  BY <1>1 DEF Flying, Waking, OneWake, WakesSound, IsInjective, ToSet
<1>10. Quiescing'
  BY <1>1, <1>4 DEF SInv, Quiescing, Poisoned, Idle
<1>11. EndedOnce'
  <2>1. \A l \in ToSet(ended') : l \in Lane
    BY DEF ToSet
  <2> QED BY <1>2, <1>3, <2>1 DEF EndedOnce, Phase
<1> QED BY <1>6, <1>7, <1>8, <1>9, <1>10, <1>11 DEF SInv

(* One lane goes on after the run failed.                                  *)
LEMMA DrainSound ==
  ASSUME SInv, Poisoned, NEW l \in Lane, NEW lane, Phase(l) # "ended",
         lanes' = [lanes EXCEPT ![l] = lane], LaneSound(lane, issued, log'),
         Longer(log, log'), LogNames',
         \/ ended' = ended
         \/ ended' = Append(ended, l) /\ lane.phase = "ended",
         UNCHANGED <<turn, runnable, scheduled, inFlight, quiesce, poison>>, UNCHANGED Rest0
  PROVE  SInv'
<1>1. /\ turn' = turn /\ runnable' = runnable /\ scheduled' = scheduled /\ inFlight' = inFlight
      /\ quiesce' = quiesce /\ poison' = poison
      /\ nextIndex' = nextIndex /\ nextSched' = nextSched /\ issued' = issued /\ status' = status
      /\ history' = history /\ crashes' = crashes
  BY DEF Rest0
<1>2. /\ turn = None /\ runnable = <<>> /\ ~scheduled /\ inFlight = <<>>
      /\ lanes \in [Lane -> LaneRec] /\ ended \in Seq(Lane)
  BY DEF SInv, Halted, Types
<1>3. lanes'[l] = lane /\ \A m \in Lane : m # l => lanes'[m] = lanes[m]
  BY <1>2
<1>4. \A m \in Lane : LaneSound(lanes'[m], issued, log')
  <2>1. \A m \in Lane : LaneSound(lanes[m], issued, log)
    BY LaneTyped
  <2>2. Longer(issued, issued)
    BY DEF Longer
  <2> QED BY <1>3, <2>1, <2>2, LaneKept
<1>5. l \notin ToSet(ended)
  BY DEF SInv, EndedOnce
<1>6. ended' \in Seq(Lane) /\ IsInjective(ended') /\ \A m \in ToSet(ended') : lanes'[m].phase = "ended"
  <2>0. \A m \in ToSet(ended) : m \in Lane
    BY <1>2 DEF ToSet
  <2>1. IsInjective(ended) /\ \A m \in ToSet(ended) : lanes'[m].phase = "ended"
    BY <1>3, <1>5, <2>0 DEF SInv, EndedOnce, Phase
  <2>2. CASE ended' = ended
    BY <1>2, <2>1, <2>2
  <2>3. CASE ended' = Append(ended, l) /\ lane.phase = "ended"
    <3>1. ended' \in Seq(Lane) /\ IsInjective(ended') /\ ToSet(ended') = ToSet(ended) \cup {l}
      BY <1>2, <1>5, <2>1, <2>3, AppendIs
    <3> QED BY <1>3, <2>1, <2>3, <3>1
  <2> QED BY <2>2, <2>3
<1>7. Types'
  <2>1. lanes' \in [Lane -> LaneRec]
    BY <1>2, <1>4 DEF LaneSound
  <2> QED BY <1>1, <1>6, <2>1 DEF SInv, Types
<1>8. LanesSound' /\ EndedOnce'
  BY <1>1, <1>4, <1>6 DEF LanesSound, EndedOnce, Phase
<1>9. ErrorsFail' /\ Turns' /\ Halted' /\ Over'
  BY <1>1, <1>2 DEF SInv, ErrorsFail, Turns, Halted, Over, Poisoned
<1>10. Flying' /\ Waking'
  BY <1>1, <1>2 DEF Flying, Waking, OneWake, WakesSound, IsInjective, ToSet
<1>11. Quiescing'
  <2>1. quiesce.phase # "following"
    BY DEF SInv, Quiescing
  <2> QED BY <1>1, <2>1 DEF SInv, Quiescing, Poisoned
<1> QED BY <1>7, <1>8, <1>9, <1>10, <1>11 DEF SInv

LEMMA SameLength ==
  ASSUME NEW S, NEW p \in Seq(S), NEW q \in Seq(S), Longer(p, q)
  PROVE  /\ Len(p) <= Len(q) /\ Len(p) \in Nat /\ Len(q) \in Nat
         /\ Len(p) = Len(q) => p = q
<1>1. Len(p) \in Nat /\ Len(q) \in Nat /\ DOMAIN p = 1..Len(p) /\ DOMAIN q = 1..Len(q)
  OBVIOUS
<1>2. Len(p) <= Len(q)
  <2>1. CASE Len(p) = 0
    BY <1>1, <2>1
  <2>2. CASE Len(p) # 0
    <3>1. Len(p) \in DOMAIN p
      BY <1>1, <2>2
    <3> QED BY <1>1, <3>1 DEF Longer
  <2> QED BY <2>1, <2>2
<1>3. ASSUME Len(p) = Len(q) PROVE p = q
  <2>1. \A i \in 1..Len(p) : p[i] = q[i]
    BY <1>1 DEF Longer
  <2> QED BY <1>1, <1>3, <2>1, SeqEqual
<1> QED BY <1>1, <1>2, <1>3

(* The history begins with what was issued.                                *)
Walked == Longer(issued, history)

LEMMA LongerSelf == ASSUME NEW p PROVE Longer(p, p)
BY DEF Longer

LEMMA ReserveSound ==
  ASSUME SInv, Walked, NEW name \in OpName, Reserve(name)
  PROVE  /\ issued' \in Seq(OpName) /\ history' \in Seq(OpName)
         /\ issued' = Append(issued, name)
         /\ Len(issued) + 1 \in DOMAIN issued' /\ issued'[Len(issued) + 1] = name
         /\ Len(issued') = Len(issued) + 1 /\ Len(issued) \in Nat
         /\ Longer(issued, issued') /\ Longer(history, history')
<1>1. issued \in Seq(OpName) /\ history \in Seq(OpName) /\ Len(issued) \in Nat
  BY DEF SInv, Types
<1>2. issued' = Append(issued, name)
  BY DEF Reserve
<1>3. /\ issued' \in Seq(OpName) /\ DOMAIN issued' = DOMAIN issued \cup {Len(issued) + 1}
      /\ issued'[Len(issued) + 1] = name /\ \A i \in DOMAIN issued : issued'[i] = issued[i]
      /\ Len(issued') = Len(issued) + 1
  BY <1>1, <1>2, AppendIs
<1>4. Longer(issued, issued')
  BY <1>3 DEF Longer
<1>5. CASE Len(issued) = Len(history)
  <2>1. issued = history
    BY <1>1, <1>5, SameLength DEF Walked
  <2>2. history' = issued'
    BY <1>5 DEF Reserve
  <2> QED BY <1>1, <1>2, <1>3, <1>4, <2>1, <2>2
<1>6. CASE Len(issued) # Len(history)
  <2>1. history' = history
    BY <1>6 DEF Reserve
  <2> QED BY <1>1, <1>2, <1>3, <1>4, <2>1, LongerSelf
<1> QED BY <1>5, <1>6

(* A lane at its code goes on by itself, or waits for something.           *)
LEMMA CodeSound ==
  ASSUME SInv, NEW l \in Lane, Holds(l), NEW lane,
         lanes' = [lanes EXCEPT ![l] = lane], LaneSound(lane, issued', log),
         lane.unit # None => lane.unit.outcome = None,
         \/ turn' = turn /\ scheduled' = scheduled /\ lane.phase \in {"running", "head"}
         \/ release /\ lane.phase \in {"awaiting", "joining"},
         \/ inFlight' = inFlight /\ nextIndex' = nextIndex
         \/ /\ inFlight' = Append(inFlight, l) /\ nextIndex' = nextIndex + 1
            /\ lane.phase = "awaiting" /\ lane.unit.index = nextIndex,
         issued' \in Seq(OpName), history' \in Seq(OpName),
         Longer(issued, issued'), Longer(history, history'),
         UNCHANGED <<ended, runnable, quiesce, poison, nextSched, log, status, crashes>>
  PROVE  SInv'
<1>1. /\ ended' = ended /\ runnable' = runnable /\ quiesce' = quiesce /\ poison' = poison
      /\ nextSched' = nextSched /\ log' = log /\ status' = status /\ crashes' = crashes
  OBVIOUS
<1>2. /\ ~Poisoned /\ turn = l /\ ~scheduled /\ quiesce.phase = "idle" /\ status = "running"
      /\ l \notin ToSet(inFlight) /\ l \notin ToSet(ended)
      /\ \A i \in DOMAIN runnable : runnable[i].lane # l
  BY AtCode
<1>3. /\ lanes \in [Lane -> LaneRec] /\ ended \in Seq(Lane) /\ inFlight \in Seq(Lane)
      /\ runnable \in Seq(Wakes) /\ nextIndex \in Nat
  BY DEF SInv, Types
<1>4. lanes'[l] = lane /\ \A m \in Lane : m # l => lanes'[m] = lanes[m]
  BY <1>3
<1>5. \A m \in Lane : LaneSound(lanes'[m], issued', log)
  <2>1. \A m \in Lane : LaneSound(lanes[m], issued, log)
    BY LaneTyped
  <2> QED BY <1>4, <2>1, LaneKept, LongerSelf
<1>6. LanesSound'
  BY <1>1, <1>5 DEF LanesSound
<1>7. inFlight' \in Seq(Lane) /\ nextIndex' \in Nat
  <2>1. CASE inFlight' = inFlight /\ nextIndex' = nextIndex
    BY <1>3, <2>1
  <2>2. CASE inFlight' = Append(inFlight, l) /\ nextIndex' = nextIndex + 1
    BY <1>3, <2>2, AppendIs
  <2> QED BY <2>1, <2>2
<1>8. Types'
  <2>1. lanes' \in [Lane -> LaneRec]
    BY <1>3, <1>5 DEF LaneSound
  <2>2. turn' \in Lane \cup {None} /\ scheduled' \in BOOLEAN
    BY DEF release, SInv, Types
  <2> QED BY <1>1, <1>7, <2>1, <2>2 DEF SInv, Types
<1>9. LogNames'
  BY <1>1 DEF SInv, LogNames, Longer
<1>10. ErrorsFail'
  BY <1>1, <1>4, NoneAssumption DEF SInv, ErrorsFail, Poisoned, UnitOf, Outcome
<1>11. Turns'
  <2>1. \A m \in Lane : m # l => Phase(m) \notin {"running", "head", "parking"}
    BY <1>2 DEF SInv, Turns
  <2> QED BY <1>1, <1>2, <1>4, <2>1, LaneAssumption DEF Turns, Phase, Poisoned, release
<1>12. Flying'
  <2>1. \A m \in ToSet(inFlight) : m \in Lane /\ m # l /\ lanes'[m] = lanes[m] /\ UnitOf(m).index \in Nat
    <3>1. \A m \in ToSet(inFlight) : m \in Lane /\ m # l
      BY <1>2, <1>3 DEF ToSet
    <3>2. \A m \in ToSet(inFlight) : lanes[m].unit # None
      BY <3>1, LaneTyped DEF SInv, Flying, Phase, LaneSound
    <3> QED BY <1>4, <3>1, <3>2, LaneTyped, UnitTyped DEF UnitOf
  <2>2. CASE inFlight' = inFlight /\ nextIndex' = nextIndex
    BY <2>1, <2>2 DEF SInv, Flying, Phase, UnitOf
  <2>3. CASE /\ inFlight' = Append(inFlight, l) /\ nextIndex' = nextIndex + 1
             /\ lane.phase = "awaiting" /\ lane.unit.index = nextIndex
    <3>1. ToSet(inFlight') = ToSet(inFlight) \cup {l} /\ IsInjective(inFlight')
      BY <1>2, <1>3, <2>3, AppendIs DEF SInv, Flying
    <3>2. \A m \in ToSet(inFlight) : /\ lanes'[m].unit.index = lanes[m].unit.index
                                     /\ lanes[m].unit.index < nextIndex /\ lanes[m].unit.index \in Nat
      BY <2>1 DEF SInv, Flying, UnitOf
    <3>3. lanes'[l].unit.index = nextIndex /\ lanes'[l].phase = "awaiting"
      BY <1>4, <2>3
    <3>4. \A m \in ToSet(inFlight) : lanes'[m].phase \in {"parking", "awaiting"}
      BY <2>1 DEF SInv, Flying, Phase
    <3>5. \A m \in ToSet(inFlight') : /\ lanes'[m].phase \in {"parking", "awaiting"}
                                      /\ lanes'[m].unit.index < nextIndex'
      BY <1>3, <2>3, <3>1, <3>2, <3>3, <3>4
    <3>6. \A m, n \in ToSet(inFlight') : lanes'[m].unit.index = lanes'[n].unit.index => m = n
      <4>1. \A m, n \in ToSet(inFlight) : lanes[m].unit.index = lanes[n].unit.index => m = n
        BY DEF SInv, Flying, UnitOf
      <4> QED BY <1>3, <3>1, <3>2, <3>3, <4>1
    <3> QED BY <3>1, <3>5, <3>6 DEF Flying, Phase, UnitOf
  <2> QED BY <2>2, <2>3
<1>13. Waking'
  <2>1. \A i \in DOMAIN runnable : runnable[i] \in Wakes /\ runnable[i].lane \in Lane
    <3>1. \A i \in DOMAIN runnable : runnable[i] \in Wakes
      BY <1>3
    <3> QED BY <3>1 DEF Wakes
  <2>2. ToSet(inFlight') \subseteq ToSet(inFlight) \cup {l}
    <3>1. ToSet(Append(inFlight, l)) = ToSet(inFlight) \cup {l}
      BY <1>3, AppendIs
    <3> QED BY <3>1
  <2>3. ASSUME NEW i \in DOMAIN runnable
        PROVE  WakeSound(runnable[i], lanes'[runnable[i].lane], ToSet(inFlight'))
    <3>1. WakeSound(runnable[i], lanes[runnable[i].lane], ToSet(inFlight))
      BY DEF SInv, Waking, WakesSound
    <3>2. lanes'[runnable[i].lane] = lanes[runnable[i].lane] /\ runnable[i].lane # l
      BY <1>2, <1>4, <2>1
    <3> QED BY <2>2, <3>1, <3>2 DEF WakeSound
  <2> QED BY <1>1, <2>3 DEF SInv, Waking, WakesSound
<1>14. Halted' /\ Quiescing' /\ Over'
  BY <1>1, <1>2 DEF Halted, Quiescing, Over, Poisoned
<1>15. EndedOnce'
  BY <1>1, <1>2, <1>3, <1>4 DEF SInv, EndedOnce, Phase, ToSet
<1> QED BY <1>6, <1>8, <1>9, <1>10, <1>11, <1>12, <1>13, <1>14, <1>15 DEF SInv

(* A lane with the operation it just issued.                               *)
NewUnit(name, owned) ==
  [name |-> name, owned |-> owned, index |-> nextIndex, id |-> Len(issued) + 1, outcome |-> None]
Holding(l, p, name, owned) == [lanes[l] EXCEPT !.phase = p, !.unit = NewUnit(name, owned)]

LEMMA NewUnitSound ==
  ASSUME SInv, Walked, NEW l \in Lane, NEW name \in {"step", "wait"} \X Key, NEW owned \in BOOLEAN,
         NEW p \in {"head", "awaiting", "parking"}, Reserve(name)
  PROVE  /\ (p = "head" => owned = FALSE) /\ (p = "parking" => owned = TRUE)
              => LaneSound(Holding(l, p, name, owned), issued', log)
         /\ Holding(l, p, name, owned).phase = p
         /\ Holding(l, p, name, owned).unit = NewUnit(name, owned) /\ NewUnit(name, owned) # None
         /\ NewUnit(name, owned).outcome = None /\ NewUnit(name, owned).index = nextIndex
         /\ [lanes EXCEPT ![l].phase = p, ![l].unit = NewUnit(name, owned)]
              = [lanes EXCEPT ![l] = Holding(l, p, name, owned)]
<1> DEFINE u == NewUnit(name, owned)
           lane == [lanes[l] EXCEPT !.phase = p, !.unit = u]
<1>1. /\ u \in Unit /\ u.outcome = None /\ u.index = nextIndex /\ u.id = Len(issued) + 1 
      /\ u.name = name /\ u.owned = owned
  <2>1. nextIndex \in Nat /\ Len(issued) + 1 \in Nat
    BY DEF SInv, Types
  <2> QED BY <2>1 DEF NewUnit, Unit
<1>2. u # None
  BY <1>1, NoneAssumption
<1> HIDE DEF u
<1>3. lanes \in [Lane -> LaneRec] /\ lanes[l] \in LaneRec
  BY DEF SInv, Types
<1>4. lane \in LaneRec
  <2>1. p \in Phases /\ u \in Unit \cup {None}
    BY <1>1 DEF Phases
  <2> QED BY <1>3, <2>1 DEF LaneRec
<1>5. lane.phase = p /\ lane.unit = u
  BY <1>3 DEF LaneRec
<1>6. [lanes EXCEPT ![l].phase = p, ![l].unit = u] = [lanes EXCEPT ![l] = lane]
  BY <1>3
<1>7. name \in OpName
  BY DEF OpName
<1>8. Len(issued) + 1 \in DOMAIN issued' /\ issued'[Len(issued) + 1] = name
  BY <1>7, ReserveSound
<1> HIDE DEF lane
<1>9. (p = "head" => owned = FALSE) /\ (p = "parking" => owned = TRUE) => LaneSound(lane, issued', log)
  BY <1>1, <1>2, <1>4, <1>5, <1>8 DEF LaneSound
<1> QED BY <1>1, <1>2, <1>5, <1>6, <1>9 DEF u, lane, Holding

LEMMA StepSound ==
  ASSUME SInv, Walked, NEW l \in Lane, step(l)
  PROVE  SInv'
<1>1. PICK key \in Key : issue(l, <<"step", key>>, FALSE, "awaiting")
  BY DEF step
<1> DEFINE name == <<"step", key>>
           lane == Holding(l, "awaiting", name, FALSE)
<1>2. name \in {"step", "wait"} \X Key /\ name \in OpName
  BY DEF OpName
<1>3. /\ Reserve(name) /\ lanes' = [lanes EXCEPT ![l].phase = "awaiting", ![l].unit = NewUnit(name, FALSE)]
      /\ nextIndex' = nextIndex + 1 /\ inFlight' = Append(inFlight, l)
  BY <1>1 DEF issue, NewUnit
<1> HIDE DEF name
<1>4. /\ LaneSound(lane, issued', log) /\ lane.phase = "awaiting" 
      /\ lane.unit.outcome = None /\ lane.unit.index = nextIndex
      /\ lanes' = [lanes EXCEPT ![l] = lane]
  <2>1. FALSE \in BOOLEAN /\ "awaiting" \in {"head", "awaiting", "parking"}
    OBVIOUS
  <2>2. Reserve(name)
    BY <1>2, <1>3
  <2>3. LaneSound(Holding(l, "awaiting", name, FALSE), issued', log)
    BY <1>2, <2>1, <2>2, NewUnitSound
  <2>4. /\ Holding(l, "awaiting", name, FALSE).phase = "awaiting"
        /\ Holding(l, "awaiting", name, FALSE).unit = NewUnit(name, FALSE) /\ NewUnit(name, FALSE) # None
        /\ NewUnit(name, FALSE).outcome = None /\ NewUnit(name, FALSE).index = nextIndex
    BY <1>2, <2>1, <2>2, NewUnitSound
  <2>5. [lanes EXCEPT ![l].phase = "awaiting", ![l].unit = NewUnit(name, FALSE)]
          = [lanes EXCEPT ![l] = Holding(l, "awaiting", name, FALSE)]
    <3>1. lanes \in [Lane -> LaneRec]
      BY DEF SInv, Types
    <3> QED BY <3>1 DEF Holding
  <2> QED BY <1>2, <1>3, <2>3, <2>4, <2>5
<1>5. /\ issued' \in Seq(OpName) /\ history' \in Seq(OpName)
      /\ Longer(issued, issued') /\ Longer(history, history')
  BY <1>2, <1>3, ReserveSound
<1>6. /\ Holds(l) /\ release
      /\ UNCHANGED <<ended, runnable, quiesce, poison, nextSched, log, status, crashes>>
  BY DEF step
<1> HIDE DEF lane
<1> QED BY <1>3, <1>4, <1>5, <1>6, CodeSound

LEMMA HeadSound ==
  ASSUME SInv, Walked, NEW l \in Lane, issueHead(l)
  PROVE  SInv'
<1>1. PICK key \in Key :
        /\ Reserve(<<"wait", key>>)
        /\ lanes' = [lanes EXCEPT ![l].phase = "head", ![l].unit = NewUnit(<<"wait", key>>, FALSE)]
  BY DEF issueHead, NewUnit
<1> DEFINE name == <<"wait", key>>
           lane == Holding(l, "head", name, FALSE)
<1>2. name \in {"step", "wait"} \X Key /\ name \in OpName
  BY DEF OpName
<1> HIDE DEF name
<1>4. /\ LaneSound(lane, issued', log) /\ lane.phase = "head" 
      /\ lane.unit.outcome = None
      /\ lanes' = [lanes EXCEPT ![l] = lane]
  <2>1. FALSE \in BOOLEAN /\ "head" \in {"head", "awaiting", "parking"}
    OBVIOUS
  <2>2. Reserve(name)
    BY <1>1, <1>2 DEF name
  <2>3. LaneSound(Holding(l, "head", name, FALSE), issued', log)
    BY <1>2, <2>1, <2>2, NewUnitSound
  <2>4. /\ Holding(l, "head", name, FALSE).phase = "head"
        /\ Holding(l, "head", name, FALSE).unit = NewUnit(name, FALSE) /\ NewUnit(name, FALSE) # None
        /\ NewUnit(name, FALSE).outcome = None /\ NewUnit(name, FALSE).index = nextIndex
    BY <1>2, <2>1, <2>2, NewUnitSound
  <2>5. [lanes EXCEPT ![l].phase = "head", ![l].unit = NewUnit(name, FALSE)]
          = [lanes EXCEPT ![l] = Holding(l, "head", name, FALSE)]
    <3>1. lanes \in [Lane -> LaneRec]
      BY DEF SInv, Types
    <3> QED BY <3>1 DEF Holding
  <2> QED BY <1>1, <1>2, <2>3, <2>4, <2>5 DEF name
<1>5. /\ issued' \in Seq(OpName) /\ history' \in Seq(OpName)
      /\ Longer(issued, issued') /\ Longer(history, history')
  BY <1>1, <1>2, ReserveSound DEF name
<1>6. /\ Holds(l) /\ turn' = turn /\ scheduled' = scheduled /\ inFlight' = inFlight /\ nextIndex' = nextIndex
      /\ UNCHANGED <<ended, runnable, quiesce, poison, nextSched, log, status, crashes>>
  BY DEF issueHead
<1> HIDE DEF lane
<1> QED BY <1>4, <1>5, <1>6, CodeSound

LEMMA FirstEndedIs ==
  ASSUME SInv, NEW on \in SUBSET Lane, on \cap ToSet(ended) # {}
  PROVE  FirstEnded(on) \in on \cap ToSet(ended)
<1> DEFINE I == {i \in DOMAIN ended : ended[i] \in on}
<1>1. DOMAIN ended \subseteq Nat
  BY DEF SInv, Types
<1>2. I \in SUBSET Nat /\ I # {}
  BY <1>1 DEF ToSet
<1>3. \E i \in I : \A j \in I : i <= j
  <2> HIDE DEF I
  <2> QED BY <1>2, LeastNat
<1>4. Min(I) \in I
  BY <1>3 DEF Min
<1> QED BY <1>4 DEF FirstEnded, ToSet

(* A lane that joins goes on with what it is handed, or waits.             *)
LEMMA HandedOn ==
  ASSUME SInv, NEW l \in Lane, Holds(l), NEW x \in Handed,
         lanes' = [lanes EXCEPT ![l].seen = Append(@, x)],
         UNCHANGED <<turn, scheduled, ended, runnable, inFlight, quiesce, poison, nextIndex, nextSched,
                     issued, log, status, history, crashes>>
  PROVE  SInv'
<1> DEFINE lane == [lanes[l] EXCEPT !.seen = Append(@, x)]
<1>1. /\ lanes[l] \in LaneRec /\ lanes[l].phase = "running" /\ lanes[l].unit = None
      /\ lanes \in [Lane -> LaneRec]
  BY AtCode DEF SInv, Types
<1>2. lane \in LaneRec
  <2>1. "running" \in Phases /\ {} \in SUBSET Lane /\ None \in Unit \cup {None}
    BY DEF Phases
  <2> QED BY <1>1, <2>1, LaneChange
<1>3. lane.phase = "running" /\ lane.unit = None
  BY <1>1 DEF LaneRec
<1>4. lanes' = [lanes EXCEPT ![l] = lane]
  BY <1>1
<1> HIDE DEF lane
<1>5. LaneSound(lane, issued', log)
  BY <1>2, <1>3 DEF LaneSound
<1>6. /\ issued' \in Seq(OpName) /\ history' \in Seq(OpName)
      /\ Longer(issued, issued') /\ Longer(history, history')
  BY LongerSelf DEF SInv, Types
<1> QED BY <1>3, <1>4, <1>5, <1>6, CodeSound

LEMMA JoinSound ==
  ASSUME SInv, NEW l \in Lane, Holds(l), NEW on \in SUBSET Lane, Join(l, on),
         UNCHANGED <<ended, runnable, inFlight, quiesce, poison, nextIndex, nextSched,
                     issued, log, status, history, crashes>>
  PROVE  SInv'
<1> DEFINE lane == [lanes[l] EXCEPT !.phase = "joining", !.on = on]
<1>1. /\ lanes[l] \in LaneRec /\ lanes[l].unit = None
      /\ lanes \in [Lane -> LaneRec]
  BY AtCode DEF SInv, Types
<1>2. lane \in LaneRec
  <2>1. "joining" \in Phases /\ "all" \in Handed /\ None \in Unit \cup {None}
    BY DEF Phases, Handed
  <2> QED BY <1>1, <2>1, LaneChange
<1>3. lane.phase = "joining" /\ lane.unit = None
  BY <1>1 DEF LaneRec
<1>4. lanes' = [lanes EXCEPT ![l] = lane] /\ release
  BY <1>1 DEF Join
<1> HIDE DEF lane
<1>5. LaneSound(lane, issued', log)
  BY <1>2, <1>3 DEF LaneSound
<1>6. /\ issued' \in Seq(OpName) /\ history' \in Seq(OpName)
      /\ Longer(issued, issued') /\ Longer(history, history')
  BY LongerSelf DEF SInv, Types
<1> QED BY <1>3, <1>4, <1>5, <1>6, CodeSound

LEMMA JoinAnySound ==
  ASSUME SInv, NEW l \in Lane, joinAny(l)
  PROVE  SInv'
<1>1. PICK on \in SUBSET Lane :
        IF on \cap ToSet(ended) = {} THEN Join(l, on)
        ELSE /\ lanes' = [lanes EXCEPT ![l].seen = Append(@, FirstEnded(on))]
             /\ UNCHANGED <<turn, scheduled>>
  BY DEF joinAny
<1>2. Holds(l) /\ UNCHANGED <<ended, runnable, inFlight, quiesce, poison, nextIndex, nextSched,
                              issued, log, status, history, crashes>>
  BY DEF joinAny
<1>3. CASE on \cap ToSet(ended) = {}
  BY <1>1, <1>2, <1>3, JoinSound
<1>4. CASE on \cap ToSet(ended) # {}
  <2>1. FirstEnded(on) \in Handed
    BY <1>4, FirstEndedIs DEF Handed
  <2> QED BY <1>1, <1>2, <1>4, <2>1, HandedOn
<1> QED BY <1>3, <1>4

LEMMA JoinAllSound ==
  ASSUME SInv, NEW l \in Lane, joinAll(l)
  PROVE  SInv'
<1>1. PICK on \in SUBSET Lane :
        IF on \ ToSet(ended) # {} THEN Join(l, on \ ToSet(ended))
        ELSE /\ lanes' = [lanes EXCEPT ![l].seen = Append(@, "all")]
             /\ UNCHANGED <<turn, scheduled>>
  BY DEF joinAll
<1>2. Holds(l) /\ UNCHANGED <<ended, runnable, inFlight, quiesce, poison, nextIndex, nextSched,
                              issued, log, status, history, crashes>>
  BY DEF joinAll
<1>3. CASE on \ ToSet(ended) # {}
  <2>1. on \ ToSet(ended) \in SUBSET Lane
    OBVIOUS
  <2> QED BY <1>1, <1>2, <1>3, <2>1, JoinSound
<1>4. CASE on \ ToSet(ended) = {}
  <2>1. "all" \in Handed
    BY DEF Handed
  <2> QED BY <1>1, <1>2, <1>4, <2>1, HandedOn
<1> QED BY <1>3, <1>4

LEMMA SpawnSound ==
  ASSUME SInv, NEW l \in Lane, spawn(l)
  PROVE  SInv'
<1>1. PICK new \in Lane :
        /\ Phase(new) = "unborn"
        /\ lanes' = [lanes EXCEPT ![l].seen = Append(@, new), ![new].phase = "queued"]
        /\ runnable' = Append(runnable, Wake(new, FALSE))
  BY DEF spawn
<1>2. /\ Holds(l) /\ ended' = ended /\ turn' = turn /\ scheduled' = scheduled /\ inFlight' = inFlight
      /\ quiesce' = quiesce /\ poison' = poison /\ nextIndex' = nextIndex /\ nextSched' = nextSched
      /\ issued' = issued /\ log' = log /\ status' = status /\ history' = history /\ crashes' = crashes
  BY DEF spawn
<1>3. /\ ~Poisoned /\ turn = l /\ ~scheduled /\ quiesce.phase = "idle" /\ status = "running"
      /\ lanes[l].phase = "running" /\ lanes[l].unit = None
      /\ l \notin ToSet(inFlight) /\ l \notin ToSet(ended)
      /\ \A i \in DOMAIN runnable : runnable[i].lane # l
  BY <1>2, AtCode
<1>4. /\ lanes \in [Lane -> LaneRec] /\ ended \in Seq(Lane) /\ inFlight \in Seq(Lane)
      /\ runnable \in Seq(Wakes)
  BY DEF SInv, Types
<1>5. new # l /\ new \notin ToSet(inFlight) /\ new \notin ToSet(ended)
      /\ \A i \in DOMAIN runnable : runnable[i].lane # new
  BY <1>1, <1>3 DEF SInv, Flying, EndedOnce, Waking, WakesSound, WakeSound, Phase
<1> DEFINE me == [lanes[l] EXCEPT !.seen = Append(@, new)]
           her == [lanes[new] EXCEPT !.phase = "queued"]
<1>6. lanes'[l] = me /\ lanes'[new] = her /\ \A m \in Lane : m \notin {l, new} => lanes'[m] = lanes[m]
      /\ DOMAIN lanes' = Lane
  BY <1>1, <1>4, <1>5
<1>7. me \in LaneRec /\ me.phase = "running" /\ me.unit = None
  <2>1. "running" \in Phases /\ new \in Handed /\ {} \in SUBSET Lane /\ None \in Unit \cup {None}
    BY DEF Phases, Handed
  <2>2. me \in LaneRec
    BY <1>4, <2>1, LaneChange
  <2> QED BY <1>3, <1>4, <2>2 DEF LaneRec
<1>8. her \in LaneRec /\ her.phase = "queued" /\ her.unit = None
  <2>1. "queued" \in Phases /\ "all" \in Handed /\ {} \in SUBSET Lane /\ None \in Unit \cup {None}
    BY DEF Phases, Handed
  <2>2. her \in LaneRec
    BY <1>4, <2>1, LaneChange
  <2>3. lanes[new].unit = None
    BY <1>1, LaneTyped DEF LaneSound, Phase
  <2> QED BY <1>4, <2>2, <2>3 DEF LaneRec
<1> HIDE DEF me, her
<1>9. \A m \in Lane : LaneSound(lanes'[m], issued, log)
  <2>1. LaneSound(me, issued, log) /\ LaneSound(her, issued, log)
    BY <1>7, <1>8 DEF LaneSound
  <2> QED BY <1>6, <2>1, LaneTyped
<1>10. LanesSound'
  BY <1>2, <1>9 DEF LanesSound
<1> DEFINE w == Wake(new, FALSE)
<1>11. w \in Wakes /\ w.lane = new /\ w.completed = FALSE
  BY DEF Wake, Wakes
<1> HIDE DEF w
<1>12. /\ runnable' \in Seq(Wakes) /\ DOMAIN runnable' = DOMAIN runnable \cup {Len(runnable) + 1}
       /\ runnable'[Len(runnable) + 1] = w /\ \A i \in DOMAIN runnable : runnable'[i] = runnable[i]
  <2>1. runnable' = Append(runnable, w)
    BY <1>1 DEF w
  <2> QED BY <1>4, <1>11, <2>1, AppendIs
<1>13. Types'
  <2>1. lanes' \in [Lane -> LaneRec]
    BY <1>1, <1>4, <1>9 DEF LaneSound
  <2> QED BY <1>2, <1>12, <2>1 DEF SInv, Types
<1>14. LogNames' /\ ErrorsFail'
  BY <1>2, <1>6, <1>7, <1>8 DEF SInv, LogNames, ErrorsFail, Poisoned, UnitOf
<1>15. Turns'
  BY <1>2, <1>3, <1>6, <1>7, <1>8 DEF SInv, Turns, Phase, Poisoned
<1>16. Flying'
  <2>1. \A m \in ToSet(inFlight) : m \in Lane /\ lanes'[m] = lanes[m]
    BY <1>3, <1>4, <1>5, <1>6 DEF ToSet
  <2> QED BY <1>2, <2>1 DEF SInv, Flying, Phase, UnitOf
<1>17. Waking'
  <2>1. \A i \in DOMAIN runnable : runnable[i].lane \in Lane
    <3>1. \A i \in DOMAIN runnable : runnable[i] \in Wakes
      BY <1>4
    <3> QED BY <3>1 DEF Wakes
  <2>2. \A i \in DOMAIN runnable : lanes'[runnable[i].lane] = lanes[runnable[i].lane]
    BY <1>3, <1>5, <1>6, <2>1
  <2>3. OneWake(runnable')
    BY <1>5, <1>11, <1>12 DEF SInv, Waking, OneWake
  <2>4. WakeSound(w, lanes'[w.lane], ToSet(inFlight'))
    BY <1>6, <1>8, <1>11 DEF WakeSound
  <2>5. \A i \in DOMAIN runnable : WakeSound(runnable'[i], lanes'[runnable'[i].lane], ToSet(inFlight'))
    BY <1>2, <1>12, <2>2 DEF SInv, Waking, WakesSound
  <2>6. WakesSound(runnable', lanes', ToSet(inFlight'))
    BY <1>12, <2>4, <2>5 DEF WakesSound
  <2> QED BY <2>3, <2>6 DEF Waking
<1>18. Halted' /\ Quiescing' /\ Over'
  BY <1>2, <1>3 DEF Halted, Quiescing, Over, Poisoned
<1>19. EndedOnce'
  BY <1>2, <1>3, <1>4, <1>5, <1>6 DEF SInv, EndedOnce, Phase, ToSet
<1> QED BY <1>10, <1>13, <1>14, <1>15, <1>16, <1>17, <1>18, <1>19 DEF SInv

(* What an operation comes to, the record says.                            *)
LEMMA SettlesSound ==
  ASSUME SInv, Walked, NEW l \in Lane, lanes[l].unit # None, NEW value, SettlesTo(UnitOf(l), value)
  PROVE  /\ value \in Outcome \ {"unexpected"} /\ Longer(log, log')
         /\ DOMAIN log' \subseteq DOMAIN log \cup {lanes[l].unit.id}
         /\ \A id \in DOMAIN log' :
              /\ id \in DOMAIN history /\ log'[id].name = history[id]
              /\ log'[id].value \in Outcome \ {"unexpected"}
         /\ value \notin Errors => lanes[l].unit.id \in DOMAIN log' /\ log'[lanes[l].unit.id].value = value
<1> DEFINE u == lanes[l].unit
<1>1. /\ u \in Unit /\ u.id \in DOMAIN issued /\ issued[u.id] = u.name
  BY LaneTyped, UnitTyped DEF LaneSound
<1>2. u.id \in DOMAIN history /\ history[u.id] = u.name
  BY <1>1 DEF Walked, Longer
<1>3. \A id \in DOMAIN log : /\ id \in DOMAIN history /\ log[id].name = history[id]
                             /\ log[id].value \in Outcome \ {"unexpected"}
  BY DEF SInv, LogNames
<1>4. SettlesTo(u, value)
  BY DEF UnitOf
<1> HIDE DEF u
<1>5. CASE /\ Recorded(u.id) /\ UNCHANGED log
           /\ value = IF ~u.owned /\ log[u.id].name # u.name THEN "unexpected" ELSE log[u.id].value
  <2>1. value = log[u.id].value /\ u.id \in DOMAIN log
    BY <1>2, <1>3, <1>5 DEF Recorded
  <2> QED BY <1>3, <1>5, <2>1, LongerSelf DEF u
<1>6. CASE /\ ~Recorded(u.id) /\ value \in Values(u) \cup {"error"}
           /\ Record(u.id, Entry(u.name, value, <<>>, {}))
  <2>1. value \in Outcome \ {"unexpected"}
    BY <1>6 DEF Values, Outcome, Errors
  <2> DEFINE e == Entry(u.name, value, <<>>, {})
  <2>2. e.name = u.name /\ e.value = value
    BY DEF Entry
  <2> HIDE DEF e
  <2>3. log' = [i \in DOMAIN log \cup {u.id} |-> IF i = u.id THEN e ELSE log[i]] /\ u.id \notin DOMAIN log
    BY <1>6 DEF Record, Recorded, e
  <2>4. /\ DOMAIN log' = DOMAIN log \cup {u.id} /\ log'[u.id] = e
        /\ \A i \in DOMAIN log : log'[i] = log[i]
    BY <2>3
  <2>5. Longer(log, log')
    BY <2>4 DEF Longer
  <2> QED BY <1>2, <1>3, <2>1, <2>2, <2>4, <2>5 DEF u
<1>7. CASE value = "error" /\ UNCHANGED log
  <2>1. value \in Outcome \ {"unexpected"} /\ value \in Errors
    BY <1>7 DEF Outcome, Errors
  <2> QED BY <1>3, <1>7, <2>1, LongerSelf
<1> QED BY <1>4, <1>5, <1>6, <1>7 DEF SettlesTo

(* A lane given up, or handed what its operation came to, once the run     *)
(* failed.                                                                 *)
LEMMA DrainedSound ==
  ASSUME SInv, Poisoned, NEW l \in Lane, Phase(l) # "ended", NEW lane,
         lanes' = [lanes EXCEPT ![l] = lane], LaneSound(lane, issued, log'), Longer(log, log'), LogNames',
         UNCHANGED <<ended, turn, runnable, scheduled, inFlight, quiesce, poison>>, UNCHANGED Rest0
  PROVE  SInv'
<1>1. ended' = ended /\ UNCHANGED <<turn, runnable, scheduled, inFlight, quiesce, poison>>
  OBVIOUS
<1> QED BY <1>1, DrainSound

(* A lane that has no more than its phase or its operation changed, while  *)
(* it holds the turn.                                                      *)
LEMMA InTurnHolds ==
  ASSUME SInv, NEW l \in Lane, ~Poisoned, Phase(l) \in {"head", "parking"}
  PROVE  /\ turn = l /\ ~scheduled /\ quiesce.phase = "idle" /\ status = "running"
         /\ l \notin ToSet(ended) /\ \A i \in DOMAIN runnable : runnable[i].lane # l
         /\ lanes[l].unit # None
         /\ \A m \in Lane : m # l => Phase(m) \notin {"running", "head", "parking"}
<1>1. turn = l /\ l # None
  BY LaneAssumption DEF SInv, Turns
<1>2. ~scheduled /\ quiesce.phase = "idle"
  BY <1>1 DEF SInv, Turns
<1>3. status = "running"
  BY <1>1 DEF SInv, Over, Types
<1>4. l \notin ToSet(ended)
  BY DEF SInv, EndedOnce
<1>5. \A i \in DOMAIN runnable : runnable[i].lane # l
  BY DEF SInv, Waking, WakesSound, WakeSound, Phase
<1>6. lanes[l].unit # None
  BY LaneTyped DEF LaneSound, Phase
<1>7. \A m \in Lane : m # l => Phase(m) \notin {"running", "head", "parking"}
  BY <1>1 DEF SInv, Turns
<1> QED BY <1>1, <1>2, <1>3, <1>4, <1>5, <1>6, <1>7

LEMMA ParkedSound ==
  ASSUME SInv, NEW l \in Lane, awaitParked(l)
  PROVE  SInv'
<1>1. /\ Phase(l) = "parking" /\ ended' = ended /\ runnable' = runnable /\ inFlight' = inFlight
      /\ quiesce' = quiesce /\ poison' = poison /\ nextIndex' = nextIndex /\ nextSched' = nextSched
      /\ issued' = issued /\ log' = log /\ status' = status /\ history' = history /\ crashes' = crashes
  BY DEF awaitParked
<1>2. /\ lanes \in [Lane -> LaneRec] /\ lanes[l] \in LaneRec /\ LaneSound(lanes[l], issued, log)
      /\ lanes[l].unit # None
  BY <1>1, LaneTyped DEF SInv, Types, LaneSound, Phase
<1>3. CASE Poisoned
  <2> DEFINE lane == IF lanes[l].unit.outcome # None THEN hand(lanes[l]) ELSE GiveUp(lanes[l])
  <2>1. LaneSound(lane, issued, log)
    BY <1>2, HandSound, GiveUpSound
  <2>2. lanes' = [lanes EXCEPT ![l] = lane] /\ turn' = turn /\ scheduled' = scheduled
    BY <1>2, <1>3 DEF awaitParked
  <2>3. LogNames'
    BY <1>1 DEF SInv, LogNames
  <2> HIDE DEF lane
  <2> QED BY <1>1, <1>3, <2>1, <2>2, <2>3, LongerSelf, DrainedSound DEF Rest0
<1>4. CASE ~Poisoned
  <2> DEFINE lane == [lanes[l] EXCEPT !.phase = "awaiting"]
  <2>1. lanes' = [lanes EXCEPT ![l] = lane] /\ turn' = None /\ scheduled' = TRUE
    BY <1>2, <1>4 DEF awaitParked, release
  <2>2. /\ ~scheduled /\ quiesce.phase = "idle" /\ status = "running"
        /\ l \notin ToSet(ended) /\ \A i \in DOMAIN runnable : runnable[i].lane # l
        /\ \A m \in Lane : m # l => Phase(m) \notin {"running", "head", "parking"}
    BY <1>1, <1>4, InTurnHolds
  <2>3. lane \in LaneRec /\ lane.phase = "awaiting" /\ lane.unit = lanes[l].unit
    <3>1. "awaiting" \in Phases /\ "all" \in Handed /\ {} \in SUBSET Lane /\ None \in Unit \cup {None}
      BY DEF Phases, Handed
    <3>2. lane \in LaneRec
      BY <1>2, <3>1, LaneChange
    <3> QED BY <1>2, <3>2 DEF LaneRec
  <2>4. LaneSound(lane, issued, log)
    BY <1>2, <2>3 DEF LaneSound
  <2> HIDE DEF lane
  <2>5. lanes'[l] = lane /\ \A m \in Lane : m # l => lanes'[m] = lanes[m]
    BY <1>2, <2>1
  <2>6. \A m \in Lane : LaneSound(lanes'[m], issued, log) /\ lanes'[m].unit = lanes[m].unit
    BY <2>3, <2>4, <2>5, LaneTyped
  <2>7. LanesSound'
    BY <1>1, <2>6 DEF LanesSound
  <2>8. Types'
    <3>1. lanes' \in [Lane -> LaneRec]
      BY <1>2, <2>1, <2>6 DEF LaneSound
    <3> QED BY <1>1, <2>1, <3>1 DEF SInv, Types
  <2>9. LogNames' /\ ErrorsFail'
    BY <1>1, <2>6 DEF SInv, LogNames, ErrorsFail, Poisoned, UnitOf
  <2>10. Turns'
    BY <1>1, <2>1, <2>2, <2>3, <2>5 DEF Turns, Phase, Poisoned
  <2>11. Flying'
    <3>1. \A m \in ToSet(inFlight) : m \in Lane
      BY DEF ToSet, SInv, Types
    <3>2. \A m \in ToSet(inFlight) : lanes'[m].phase \in {"parking", "awaiting"}
      BY <2>3, <2>5, <3>1 DEF SInv, Flying, Phase
    <3> QED BY <1>1, <2>6, <3>1, <3>2 DEF SInv, Flying, Phase, UnitOf
  <2>12. Waking'
    <3>1. \A i \in DOMAIN runnable : runnable[i].lane \in Lane
      <4>1. \A i \in DOMAIN runnable : runnable[i] \in Wakes
        BY DEF SInv, Types
      <4> QED BY <4>1 DEF Wakes
    <3>2. \A i \in DOMAIN runnable : lanes'[runnable[i].lane] = lanes[runnable[i].lane]
      BY <2>2, <2>5, <3>1
    <3> QED BY <1>1, <3>2 DEF SInv, Waking, WakesSound
  <2>13. Halted' /\ Quiescing' /\ Over'
    BY <1>1, <1>4, <2>2 DEF Halted, Quiescing, Over, Poisoned
  <2>14. EndedOnce'
    BY <1>1, <2>2, <2>5 DEF SInv, Types, EndedOnce, Phase, ToSet
  <2> QED BY <2>7, <2>8, <2>9, <2>10, <2>11, <2>12, <2>13, <2>14 DEF SInv
<1> QED BY <1>3, <1>4

(* The operation is issued once its head came to something.                *)
LEMMA IssueParking ==
  ASSUME SInv, Walked, NEW l \in Lane, Phase(l) = "head", ~Poisoned, LogNames', Longer(log, log'),
         NEW name \in {"step", "wait"} \X Key, issue(l, name, TRUE, "parking"),
         UNCHANGED <<turn, runnable, scheduled, quiesce, poison, ended, nextSched, status, crashes>>
  PROVE  SInv'
<1> DEFINE lane == Holding(l, "parking", name, TRUE)
<1>1. /\ Reserve(name) /\ nextIndex' = nextIndex + 1 /\ inFlight' = Append(inFlight, l)
      /\ lanes' = [lanes EXCEPT ![l].phase = "parking", ![l].unit = NewUnit(name, TRUE)]
  BY DEF issue, NewUnit
<1>2. /\ LaneSound(lane, issued', log) /\ lane.phase = "parking" /\ lane.unit # None
      /\ lane.unit.outcome = None /\ lane.unit.index = nextIndex
      /\ lanes' = [lanes EXCEPT ![l] = lane]
  <2>1. TRUE \in BOOLEAN /\ "parking" \in {"head", "awaiting", "parking"}
    OBVIOUS
  <2>2. Reserve(name)
    BY <1>1
  <2>3. LaneSound(Holding(l, "parking", name, TRUE), issued', log)
    BY <2>1, <2>2, NewUnitSound
  <2>4. /\ Holding(l, "parking", name, TRUE).phase = "parking"
        /\ Holding(l, "parking", name, TRUE).unit = NewUnit(name, TRUE) /\ NewUnit(name, TRUE) # None
        /\ NewUnit(name, TRUE).outcome = None /\ NewUnit(name, TRUE).index = nextIndex
    BY <2>1, <2>2, NewUnitSound
  <2>5. [lanes EXCEPT ![l].phase = "parking", ![l].unit = NewUnit(name, TRUE)]
          = [lanes EXCEPT ![l] = Holding(l, "parking", name, TRUE)]
    <3>1. lanes \in [Lane -> LaneRec]
      BY DEF SInv, Types
    <3> QED BY <3>1 DEF Holding
  <2> QED BY <1>1, <2>3, <2>4, <2>5
<1> HIDE DEF lane
<1>3. name \in OpName
  BY DEF OpName
<1>4. /\ issued' \in Seq(OpName) /\ history' \in Seq(OpName)
      /\ Longer(issued, issued') /\ Longer(history, history')
  BY <1>1, <1>3, ReserveSound
<1>5. /\ ended' = ended /\ turn' = turn /\ scheduled' = scheduled /\ runnable' = runnable
      /\ quiesce' = quiesce /\ poison' = poison
      /\ nextSched' = nextSched /\ status' = status /\ crashes' = crashes
  OBVIOUS
<1>6. /\ turn = l /\ ~scheduled /\ quiesce.phase = "idle" /\ status = "running"
      /\ l \notin ToSet(ended) /\ \A i \in DOMAIN runnable : runnable[i].lane # l
      /\ \A m \in Lane : m # l => Phase(m) \notin {"running", "head", "parking"}
  BY InTurnHolds
<1>7. /\ lanes \in [Lane -> LaneRec] /\ ended \in Seq(Lane) /\ inFlight \in Seq(Lane)
      /\ runnable \in Seq(Wakes) /\ nextIndex \in Nat
  BY DEF SInv, Types
<1>8. lanes'[l] = lane /\ \A m \in Lane : m # l => lanes'[m] = lanes[m]
  BY <1>2, <1>7
<1>9. l \notin ToSet(inFlight)
  BY DEF SInv, Flying
<1>10. \A m \in Lane : LaneSound(lanes'[m], issued', log')
  <2>1. \A m \in Lane : LaneSound(lanes[m], issued, log)
    BY LaneTyped
  <2>2. LaneSound(lane, issued', log')
    BY <1>2, LaneKept, LongerSelf
  <2> QED BY <1>4, <1>8, <2>1, <2>2, LaneKept
<1>11. LanesSound'
  BY <1>10 DEF LanesSound
<1>12. inFlight' \in Seq(Lane) /\ ToSet(inFlight') = ToSet(inFlight) \cup {l} /\ IsInjective(inFlight')
  BY <1>1, <1>7, <1>9, AppendIs DEF SInv, Flying
<1>13. Types'
  <2>1. lanes' \in [Lane -> LaneRec]
    BY <1>2, <1>7, <1>10 DEF LaneSound
  <2> QED BY <1>1, <1>4, <1>5, <1>7, <1>12, <2>1 DEF SInv, Types
<1>14. ErrorsFail'
  BY <1>2, <1>5, <1>8, NoneAssumption DEF SInv, ErrorsFail, Poisoned, UnitOf, Outcome
<1>15. Turns'
  BY <1>2, <1>5, <1>6, <1>8 DEF SInv, Turns, Phase, Poisoned
<1>16. Flying'
  <2>1. \A m \in ToSet(inFlight) : m \in Lane /\ m # l
    BY <1>7, <1>9 DEF ToSet
  <2>2. \A m \in ToSet(inFlight) : lanes[m].unit.index \in Nat
    <3>1. \A m \in ToSet(inFlight) : lanes[m].unit # None
      BY <2>1, LaneTyped DEF SInv, Flying, Phase, LaneSound
    <3> QED BY <2>1, <3>1, LaneTyped, UnitTyped
  <2>3. \A m \in ToSet(inFlight) : /\ lanes'[m] = lanes[m] /\ lanes[m].phase \in {"parking", "awaiting"}
                                   /\ lanes[m].unit.index < nextIndex
    BY <1>8, <2>1 DEF SInv, Flying, UnitOf, Phase
  <2>4. \A m \in ToSet(inFlight') : /\ lanes'[m].phase \in {"parking", "awaiting"}
                                    /\ lanes'[m].unit.index < nextIndex'
    <3>1. lanes'[l].phase = "parking" /\ lanes'[l].unit.index = nextIndex
      BY <1>2, <1>8
    <3>2. nextIndex < nextIndex'
      BY <1>1, <1>7
    <3>3. \A m \in ToSet(inFlight) : lanes'[m].unit.index < nextIndex'
      <4>1. nextIndex' = nextIndex + 1 /\ nextIndex \in Nat
        BY <1>1, <1>7
      <4> SUFFICES ASSUME NEW m \in ToSet(inFlight) PROVE lanes'[m].unit.index < nextIndex'
        OBVIOUS
      <4>2. lanes'[m].unit.index < nextIndex /\ lanes'[m].unit.index \in Nat
        BY <2>2, <2>3
      <4> QED BY <4>1, <4>2
    <3>4. \A m \in ToSet(inFlight) : lanes'[m].phase \in {"parking", "awaiting"}
      BY <2>3
    <3> QED BY <1>12, <3>1, <3>2, <3>3, <3>4
  <2>5. \A m, n \in ToSet(inFlight) : lanes[m].unit.index = lanes[n].unit.index => m = n
    BY DEF SInv, Flying, UnitOf
  <2>6. \A m, n \in ToSet(inFlight') : lanes'[m].unit.index = lanes'[n].unit.index => m = n
    BY <1>2, <1>7, <1>8, <1>12, <2>2, <2>3, <2>5
  <2> QED BY <1>12, <2>4, <2>6 DEF Flying, Phase, UnitOf
<1>17. Waking'
  <2>1. \A i \in DOMAIN runnable : runnable[i].lane \in Lane
    <3>1. \A i \in DOMAIN runnable : runnable[i] \in Wakes
      BY <1>7
    <3> QED BY <3>1 DEF Wakes
  <2>2. \A i \in DOMAIN runnable : lanes'[runnable[i].lane] = lanes[runnable[i].lane] /\ runnable[i].lane # l
    BY <1>6, <1>8, <2>1
  <2>3. \A i \in DOMAIN runnable : WakeSound(runnable[i], lanes'[runnable[i].lane], ToSet(inFlight'))
    BY <1>12, <2>2 DEF SInv, Waking, WakesSound, WakeSound
  <2> QED BY <1>5, <2>3 DEF SInv, Waking, WakesSound
<1>18. Halted' /\ Quiescing' /\ Over'
  BY <1>5, <1>6 DEF Halted, Quiescing, Over, Poisoned
<1>19. EndedOnce'
  BY <1>5, <1>6, <1>7, <1>8 DEF SInv, EndedOnce, Phase, ToSet
<1> QED BY <1>11, <1>13, <1>14, <1>15, <1>16, <1>17, <1>18, <1>19 DEF SInv

LEMMA InTurnSound ==
  ASSUME SInv, Walked, NEW l \in Lane, NEW value, inTurn(l, value)
  PROVE  SInv'
<1>1. /\ Phase(l) = "head" /\ SettlesTo(UnitOf(l), value)
      /\ ended' = ended /\ nextSched' = nextSched /\ status' = status /\ crashes' = crashes
  BY DEF inTurn
<1>2. /\ lanes \in [Lane -> LaneRec] /\ lanes[l] \in LaneRec /\ LaneSound(lanes[l], issued, log)
      /\ lanes[l].unit # None
  BY <1>1, LaneTyped DEF SInv, Types, LaneSound, Phase
<1>3. /\ value \in Outcome \ {"unexpected"} /\ Longer(log, log')
      /\ \A id \in DOMAIN log' :
           /\ id \in DOMAIN history /\ log'[id].name = history[id]
           /\ log'[id].value \in Outcome \ {"unexpected"}
  BY <1>1, <1>2, SettlesSound
<1>4. Longer(history, history') => LogNames'
  BY <1>3 DEF LogNames, Longer
<1>5. /\ LaneSound(GiveUp(lanes[l]), issued, log') /\ GiveUp(lanes[l]).phase = "running"
      /\ \A m \in Lane : LaneSound(lanes[m], issued, log')
  BY <1>2, <1>3, LaneTyped, LaneKept, LongerSelf, GiveUpSound
<1>6. CASE Poisoned
  <2>1. /\ lanes' = [lanes EXCEPT ![l] = GiveUp(lanes[l])]
        /\ UNCHANGED <<turn, runnable, scheduled, inFlight, quiesce, poison, nextIndex, issued, history>>
    BY <1>2, <1>6 DEF inTurn
  <2>2. LogNames'
    BY <1>4, <2>1, LongerSelf
  <2>3. UNCHANGED <<ended, turn, runnable, scheduled, inFlight, quiesce, poison>> /\ UNCHANGED Rest0
    BY <1>1, <2>1 DEF Rest0
  <2>4. Phase(l) # "ended"
    BY <1>1
  <2> QED BY <1>3, <1>5, <1>6, <2>1, <2>2, <2>3, <2>4, DrainedSound
<1>7. CASE ~Poisoned /\ value \in Errors
  <2> DEFINE as == [lanes EXCEPT ![l] = GiveUp(lanes[l])]
  <2>1. fail(Fault(value), as) /\ nextIndex' = nextIndex /\ issued' = issued /\ history' = history
    BY <1>2, <1>7 DEF inTurn
  <2>2. LogNames'
    BY <1>4, <2>1, LongerSelf
  <2>3. UNCHANGED Rest0
    BY <1>1, <2>1 DEF Rest0
  <2>4. \A m \in Lane : LaneSound(as[m], issued, log') /\ (m # l => as[m] = lanes[m])
    BY <1>2, <1>5
  <2>5. Fault(value) \in Faults
    BY DEF Fault, Faults
  <2>6. status = "running" /\ l \notin ToSet(ended)
    BY <1>1, <1>7, InTurnHolds
  <2>7. /\ ended' \in Seq(Lane) /\ IsInjective(ended')
        /\ \A m \in ToSet(ended') : as[m].phase = "ended"
    BY <1>1, <2>4, <2>6 DEF SInv, Types, EndedOnce, Phase, ToSet
  <2> HIDE DEF as
  <2> QED BY <2>1, <2>2, <2>3, <2>4, <2>5, <2>6, <2>7, FailSound
<1>8. CASE ~Poisoned /\ value \notin Errors
  <2>1. /\ issue(l, lanes[l].unit.name, TRUE, "parking")
        /\ UNCHANGED <<turn, runnable, scheduled, quiesce, poison>>
    BY <1>8 DEF inTurn, UnitOf
  <2>2. lanes[l].unit.name \in {"step", "wait"} \X Key /\ lanes[l].unit.name \in OpName
    BY <1>2, UnitTyped
  <2>3. Longer(history, history')
    BY <2>1, <2>2, ReserveSound DEF issue
  <2> QED BY <1>1, <1>3, <1>4, <1>8, <2>1, <2>2, <2>3, IssueParking
<1> QED BY <1>6, <1>7, <1>8

(* A lane whose operation came to something.                               *)
Came(l, value) == [lanes[l] EXCEPT !.unit.outcome = value]

LEMMA CameSound ==
  ASSUME SInv, Walked, NEW l \in Lane, lanes[l].unit # None, Phase(l) # "head", NEW value,
         SettlesTo(UnitOf(l), value)
  PROVE  /\ LaneSound(Came(l, value), issued, log') /\ Came(l, value).phase = lanes[l].phase
         /\ Came(l, value).seen = lanes[l].seen /\ Came(l, value).on = lanes[l].on
         /\ Came(l, value).unit.outcome = value /\ Came(l, value).unit.index = lanes[l].unit.index
         /\ Came(l, value).unit.name = lanes[l].unit.name
         /\ Came(l, value).unit.id = lanes[l].unit.id /\ Came(l, value).unit.owned = lanes[l].unit.owned
         /\ Came(l, value).unit # None /\ value # None
         /\ \A m \in Lane : LaneSound(lanes[m], issued, log')
         /\ \A id \in DOMAIN log' :
              /\ id \in DOMAIN history /\ log'[id].name = history[id]
              /\ log'[id].value \in Outcome \ {"unexpected"}
         /\ Longer(log, log')
<1> DEFINE u == [lanes[l].unit EXCEPT !.outcome = value]
           c == Came(l, value)
<1>1. /\ value \in Outcome /\ Longer(log, log')
      /\ value \notin Errors => lanes[l].unit.id \in DOMAIN log' /\ log'[lanes[l].unit.id].value = value
      /\ \A id \in DOMAIN log' :
           /\ id \in DOMAIN history /\ log'[id].name = history[id]
           /\ log'[id].value \in Outcome \ {"unexpected"}
  BY SettlesSound
<1>2. /\ lanes \in [Lane -> LaneRec] /\ lanes[l] \in LaneRec /\ lanes[l].unit \in Unit
      /\ LaneSound(lanes[l], issued, log)
  BY LaneTyped, UnitTyped DEF SInv, Types
<1>3. /\ u \in Unit /\ u.outcome = value /\ u.index = lanes[l].unit.index /\ u.name = lanes[l].unit.name
      /\ u.id = lanes[l].unit.id /\ u.owned = lanes[l].unit.owned
  BY <1>1, <1>2 DEF Unit
<1>4. u # None /\ value # None
  BY <1>1, <1>3, NoneAssumption
<1> HIDE DEF u
<1>5. c = [lanes[l] EXCEPT !.unit = u]
  BY <1>2 DEF Came, u
<1>6. /\ c \in LaneRec /\ c.phase = lanes[l].phase /\ c.unit = u /\ c.seen = lanes[l].seen
      /\ c.on = lanes[l].on
  BY <1>2, <1>3, <1>5 DEF LaneRec
<1> HIDE DEF c
<1>7. LaneSound(c, issued, log')
  BY <1>1, <1>2, <1>3, <1>4, <1>6 DEF LaneSound, Phase
<1>8. \A m \in Lane : LaneSound(lanes[m], issued, log')
  BY <1>1, LaneTyped, LaneKept, LongerSelf
<1> QED BY <1>1, <1>3, <1>4, <1>6, <1>7, <1>8 DEF c

LEMMA SettleSound ==
  ASSUME SInv, Walked, NEW l \in Lane, NEW value, settle(l, value)
  PROVE  SInv'
<1>1. /\ ~Poisoned /\ l \in ToSet(inFlight) /\ UnitOf(l).outcome = None /\ SettlesTo(UnitOf(l), value)
      /\ ended' = ended /\ nextIndex' = nextIndex /\ nextSched' = nextSched /\ issued' = issued
      /\ status' = status /\ history' = history /\ crashes' = crashes
  BY DEF settle
<1>2. /\ lanes \in [Lane -> LaneRec] /\ lanes[l] \in LaneRec /\ LaneSound(lanes[l], issued, log)
      /\ Phase(l) \in {"parking", "awaiting"}
  BY <1>1, LaneTyped DEF SInv, Types, Flying
<1>3. lanes[l].unit # None /\ Phase(l) # "head"
  BY <1>2 DEF LaneSound, Phase
<1>4. status = "running"
  BY <1>1, <1>2 DEF SInv, Types, Over, Phase
<1> DEFINE c == Came(l, value)
           as == [lanes EXCEPT ![l].unit.outcome = value]
<1>5. /\ LaneSound(c, issued, log') /\ c.phase = lanes[l].phase
      /\ c.unit.outcome = value /\ c.unit.index = lanes[l].unit.index
      /\ c.unit.name = lanes[l].unit.name /\ c.unit # None /\ value # None
      /\ \A m \in Lane : LaneSound(lanes[m], issued, log')
      /\ \A id \in DOMAIN log' :
           /\ id \in DOMAIN history /\ log'[id].name = history[id]
           /\ log'[id].value \in Outcome \ {"unexpected"}
      /\ Longer(log, log')
  BY <1>1, <1>3, CameSound
<1>6. as[l] = c /\ (\A m \in Lane : m # l => as[m] = lanes[m]) /\ as \in [Lane -> LaneRec]
  <2>1. as = [lanes EXCEPT ![l] = c]
    BY <1>2 DEF Came
  <2>2. c \in LaneRec
    BY <1>5 DEF LaneSound
  <2> HIDE DEF as, c
  <2> QED BY <1>2, <2>1, <2>2
<1>7. IF value \in Errors THEN fail(Fault(value), as)
      ELSE lanes' = as /\ UNCHANGED <<turn, runnable, scheduled, inFlight, quiesce, poison>>
  BY DEF settle
<1> HIDE DEF as, c
<1>8. LogNames'
  BY <1>1, <1>5 DEF LogNames
<1>9. \A m \in Lane : LaneSound(as[m], issued, log')
  BY <1>5, <1>6
<1>10. /\ ended \in Seq(Lane) /\ IsInjective(ended)
       /\ \A m \in ToSet(ended) : m \in Lane /\ Phase(m) = "ended" /\ m # l
  BY <1>2 DEF SInv, Types, EndedOnce, ToSet
<1>11. CASE value \in Errors
  <2>1. Fault(value) \in Faults
    BY DEF Fault, Faults
  <2>2. \A m \in ToSet(ended') : as[m].phase = "ended"
    BY <1>1, <1>6, <1>10 DEF Phase
  <2>3. UNCHANGED Rest0
    BY <1>1 DEF Rest0
  <2>4. ended' \in Seq(Lane) /\ IsInjective(ended')
    BY <1>1, <1>10
  <2> QED BY <1>4, <1>7, <1>8, <1>9, <1>11, <2>1, <2>2, <2>3, <2>4, FailSound
<1>12. CASE value \notin Errors
  <2>1. /\ lanes' = as /\ turn' = turn /\ runnable' = runnable /\ scheduled' = scheduled
        /\ inFlight' = inFlight /\ quiesce' = quiesce /\ poison' = poison
    BY <1>7, <1>12
  <2>2. \A m \in Lane : lanes'[m].phase = lanes[m].phase
    BY <1>5, <1>6, <2>1
  <2>3. \A m \in ToSet(inFlight) : /\ m \in Lane /\ lanes'[m].unit.index = lanes[m].unit.index
                                   /\ lanes'[m].unit.name = lanes[m].unit.name
    <3>1. \A m \in ToSet(inFlight) : m \in Lane
      BY DEF ToSet, SInv, Types
    <3>2. ASSUME NEW m \in Lane
          PROVE  lanes'[m].unit.index = lanes[m].unit.index /\ lanes'[m].unit.name = lanes[m].unit.name
      <4>1. CASE m = l
        BY <1>5, <1>6, <2>1, <4>1
      <4>2. CASE m # l
        BY <1>6, <2>1, <4>2
      <4> QED BY <4>1, <4>2
    <3> QED BY <3>1, <3>2
  <2>4. LanesSound' /\ Types'
    BY <1>1, <1>6, <1>9, <2>1 DEF LanesSound, SInv, Types
  <2>5. ErrorsFail'
    BY <1>5, <1>6, <1>12, <2>1 DEF SInv, ErrorsFail, Poisoned, UnitOf
  <2>6. Turns'
    BY <2>1, <2>2 DEF SInv, Types, Turns, Phase, Poisoned
  <2>7. Flying'
    <3>1. \A m \in ToSet(inFlight) : lanes'[m].phase \in {"parking", "awaiting"}
      BY <2>2, <2>3 DEF SInv, Flying, Phase
    <3>2. \A m \in ToSet(inFlight) : lanes'[m].unit.index < nextIndex
      BY <2>3 DEF SInv, Flying, UnitOf
    <3>3. \A m, n \in ToSet(inFlight) : lanes'[m].unit.index = lanes'[n].unit.index => m = n
      BY <2>3 DEF SInv, Flying, UnitOf
    <3> QED BY <1>1, <2>1, <3>1, <3>2, <3>3 DEF SInv, Flying, Phase, UnitOf
  <2>8. Waking'
    <3>1. \A i \in DOMAIN runnable : runnable[i].lane \in Lane
      <4>1. \A i \in DOMAIN runnable : runnable[i] \in Wakes
        BY DEF SInv, Types
      <4> QED BY <4>1 DEF Wakes
    <3>2. \A i \in DOMAIN runnable : WakeSound(runnable[i], lanes'[runnable[i].lane], ToSet(inFlight))
      <4> SUFFICES ASSUME NEW i \in DOMAIN runnable
                   PROVE  WakeSound(runnable[i], lanes'[runnable[i].lane], ToSet(inFlight))
        OBVIOUS
      <4>1. WakeSound(runnable[i], lanes[runnable[i].lane], ToSet(inFlight))
        BY DEF SInv, Waking, WakesSound
      <4>2. CASE runnable[i].lane = l
        BY <1>1, <1>2, <4>1, <4>2 DEF WakeSound, Phase
      <4>3. CASE runnable[i].lane # l
        BY <1>6, <2>1, <3>1, <4>1, <4>3
      <4> QED BY <4>2, <4>3
    <3> QED BY <2>1, <3>2 DEF SInv, Waking, WakesSound
  <2>9. Halted'
    BY <2>1 DEF SInv, Halted, Poisoned
  <2>10. Quiescing'
    <3>1. Names(inFlight)' = Names(inFlight)
      <4>1. \A i \in DOMAIN inFlight : inFlight[i] \in ToSet(inFlight)
        BY DEF ToSet
      <4> QED BY <2>1, <2>3, <4>1 DEF Names, UnitOf
    <3>2. Indexes(ToSet(inFlight))' = Indexes(ToSet(inFlight))
      BY <2>1, <2>3 DEF Indexes, UnitOf
    <3>3. quiesce.phase = "following" => quiesce.id \in DOMAIN log' /\ log'[quiesce.id] = log[quiesce.id]
      BY <1>5 DEF SInv, Quiescing, Longer
    <3> QED BY <1>1, <2>1, <3>1, <3>2, <3>3 DEF SInv, Quiescing, Poisoned
  <2>11. EndedOnce' /\ Over'
    BY <1>1, <1>4, <1>10, <2>1, <2>2 DEF EndedOnce, Over, Phase
  <2> QED BY <1>8, <2>4, <2>5, <2>6, <2>7, <2>8, <2>9, <2>10, <2>11 DEF SInv
<1> QED BY <1>11, <1>12

LEMMA DrainingSound ==
  ASSUME SInv, Walked, NEW l \in Lane, NEW value, settleDraining(l, value)
  PROVE  SInv'
<1>1. /\ Poisoned /\ lanes[l].unit # None /\ ~lanes[l].unit.owned /\ Phase(l) # "head"
      /\ SettlesTo(UnitOf(l), value)
      /\ UNCHANGED <<ended, turn, runnable, scheduled, inFlight, quiesce, poison>> /\ UNCHANGED Rest0
      /\ history' = history
  BY DEF settleDraining, RunsBody, Rest0
<1>2. /\ LaneSound(Came(l, value), issued, log') /\ Came(l, value).phase = lanes[l].phase
      /\ Came(l, value).unit # None /\ Came(l, value).unit.outcome # None
      /\ Longer(log, log')
      /\ \A id \in DOMAIN log' :
           /\ id \in DOMAIN history /\ log'[id].name = history[id]
           /\ log'[id].value \in Outcome \ {"unexpected"}
  <2>1. /\ Came(l, value).unit.outcome = value /\ value # None
        /\ LaneSound(Came(l, value), issued, log') /\ Came(l, value).phase = lanes[l].phase
        /\ Came(l, value).unit # None /\ Longer(log, log')
        /\ \A id \in DOMAIN log' :
             /\ id \in DOMAIN history /\ log'[id].name = history[id]
             /\ log'[id].value \in Outcome \ {"unexpected"}
    BY <1>1, CameSound
  <2> QED BY <2>1
<1>3. LogNames'
  BY <1>1, <1>2 DEF LogNames
<1>4. Phase(l) # "ended"
  BY <1>1, LaneTyped DEF LaneSound, Phase
<1> DEFINE lane == IF Phase(l) = "awaiting" THEN hand(Came(l, value)) ELSE Came(l, value)
<1>5. lanes' = [lanes EXCEPT ![l] = lane]
  BY DEF settleDraining, Phase, Came, SInv, Types
<1>6. LaneSound(lane, issued, log')
  BY <1>2, HandSound
<1> HIDE DEF lane
<1> QED BY <1>1, <1>2, <1>3, <1>4, <1>5, <1>6, DrainedSound

LEMMA UnwindSound ==
  ASSUME SInv, NEW l \in Lane, unwind(l)
  PROVE  SInv'
<1> DEFINE lane == [lanes[l] EXCEPT !.phase = "ended"]
<1>1. /\ Poisoned /\ Phase(l) = "running" /\ ended' = Append(ended, l) /\ log' = log /\ history' = history
      /\ lanes' = [lanes EXCEPT ![l].phase = "ended"]
      /\ UNCHANGED <<turn, runnable, scheduled, inFlight, quiesce, poison>> /\ UNCHANGED Rest0
  BY DEF unwind, Rest0
<1>2. lanes[l].unit = None /\ LaneSound(lanes[l], issued, log)
  BY <1>1, LaneTyped DEF LaneSound, Phase
<1>3. LaneSound(lane, issued, log) /\ lane.phase = "ended"
  BY <1>2, EndSound
<1>4. lanes' = [lanes EXCEPT ![l] = lane]
  BY <1>1 DEF SInv, Types
<1> HIDE DEF lane
<1>5. LogNames'
  BY <1>1 DEF SInv, LogNames
<1>6. Phase(l) # "ended"
  BY <1>1
<1>7. ended' = ended \/ (ended' = Append(ended, l) /\ lane.phase = "ended")
  BY <1>1, <1>3
<1>8. LaneSound(lane, issued, log') /\ Longer(log, log')
  BY <1>1, <1>3, LongerSelf
<1> QED BY <1>1, <1>4, <1>5, <1>6, <1>7, <1>8, DrainSound

LEMMA FatalSound ==
  ASSUME SInv, NEW l \in Lane, endLaneFatal(l)
  PROVE  SInv'
<1> DEFINE as == [lanes EXCEPT ![l].phase = "ended"]
<1>1. /\ Holds(l) /\ ended' = Append(ended, l) /\ fail("error", as) /\ log' = log /\ history' = history
      /\ UNCHANGED Rest0
  BY DEF endLaneFatal, Rest0
<1>2. /\ status = "running" /\ lanes[l].unit = None /\ LaneSound(lanes[l], issued, log)
      /\ l \notin ToSet(ended)
  BY <1>1, AtCode
<1> DEFINE lane == [lanes[l] EXCEPT !.phase = "ended"]
<1>3. LaneSound(lane, issued, log) /\ lane.phase = "ended"
  BY <1>2, EndSound
<1>4. as[l] = lane /\ \A m \in Lane : m # l => as[m] = lanes[m]
  BY DEF SInv, Types
<1> HIDE DEF as, lane
<1>5. \A m \in Lane : LaneSound(as[m], issued, log')
  BY <1>1, <1>3, <1>4, LaneTyped
<1>6. LogNames'
  BY <1>1 DEF SInv, LogNames
<1>7. ended \in Seq(Lane) /\ IsInjective(ended) /\ \A m \in ToSet(ended) : m \in Lane /\ lanes[m].phase = "ended"
  BY DEF SInv, Types, EndedOnce, Phase, ToSet
<1>8. ended' \in Seq(Lane) /\ IsInjective(ended') /\ ToSet(ended') = ToSet(ended) \cup {l}
  BY <1>1, <1>2, <1>7, AppendIs
<1>9. \A m \in ToSet(ended') : as[m].phase = "ended"
  BY <1>3, <1>4, <1>7, <1>8
<1>10. "error" \in Faults
  BY DEF Faults
<1> QED BY <1>1, <1>2, <1>5, <1>6, <1>8, <1>9, <1>10, FailSound

LEMMA EndLaneSound ==
  ASSUME SInv, NEW l \in Lane, endLane(l)
  PROVE  SInv'
<1> DEFINE J == Joiners(l)
           me == [lanes[l] EXCEPT !.phase = "ended"]
           woken(j) == [lanes[j] EXCEPT !.phase = "woken", !.on = {},
                          !.seen = IF Command(j).do = "joinAny" THEN Append(@, l) ELSE @]
           s == SetToSeq(J)
<1>1. /\ Holds(l) /\ ended' = Append(ended, l) /\ turn' = None /\ scheduled' = TRUE /\ inFlight' = inFlight
      /\ quiesce' = quiesce /\ poison' = poison /\ nextIndex' = nextIndex /\ nextSched' = nextSched
      /\ issued' = issued /\ log' = log /\ status' = status /\ history' = history /\ crashes' = crashes
  BY DEF endLane, release
<1>2. /\ ~Poisoned /\ turn = l /\ ~scheduled /\ quiesce.phase = "idle" /\ status = "running"
      /\ lanes[l].phase = "running" /\ lanes[l].unit = None /\ LaneSound(lanes[l], issued, log)
      /\ l \notin ToSet(inFlight) /\ l \notin ToSet(ended)
      /\ \A i \in DOMAIN runnable : runnable[i].lane # l
  BY <1>1, AtCode
<1>3. /\ lanes \in [Lane -> LaneRec] /\ ended \in Seq(Lane) /\ inFlight \in Seq(Lane)
      /\ runnable \in Seq(Wakes)
  BY DEF SInv, Types
<1>4. J \in SUBSET Lane /\ l \notin J /\ \A j \in J : lanes[j].phase = "joining"
  BY <1>2 DEF Joiners, Phase
<1>5. /\ DOMAIN lanes' = Lane /\ lanes'[l] = me /\ \A j \in J : lanes'[j] = woken(j)
      /\ \A m \in Lane : m # l /\ m \notin J => lanes'[m] = lanes[m]
  <2>1. lanes' = [j \in Lane |-> CASE j = l -> me [] j \in J -> woken(j) [] OTHER -> lanes[j]]
    BY DEF endLane
  <2> HIDE DEF J, me, woken
  <2> QED BY <1>4, <2>1
<1>6. LaneSound(me, issued, log) /\ me.phase = "ended" /\ me.unit = None
  BY <1>2, EndSound
<1>7. ASSUME NEW j \in J
      PROVE  LaneSound(woken(j), issued, log) /\ woken(j).phase = "woken" /\ woken(j).unit = None
  <2>1. lanes[j] \in LaneRec /\ lanes[j].unit = None
    BY <1>4, LaneTyped DEF LaneSound
  <2>2. "woken" \in Phases /\ l \in Handed /\ {} \in SUBSET Lane /\ None \in Unit \cup {None}
    BY DEF Phases, Handed
  <2>3. woken(j) \in LaneRec
    <3> DEFINE seen == IF Command(j).do = "joinAny" THEN Append(lanes[j].seen, l) ELSE lanes[j].seen
    <3>1. lanes[j].seen \in Seq(Handed) /\ Append(lanes[j].seen, l) \in Seq(Handed)
      BY <2>1, <2>2, AppendIs DEF LaneRec
    <3>2. seen \in Seq(Handed)
      BY <3>1
    <3>3. woken(j) = [lanes[j] EXCEPT !.phase = "woken", !.on = {}, !.seen = seen]
      OBVIOUS
    <3> HIDE DEF seen, woken
    <3> QED BY <2>1, <2>2, <3>2, <3>3 DEF LaneRec
  <2>4. woken(j).phase = "woken" /\ woken(j).unit = None
    BY <2>1 DEF LaneRec
  <2> HIDE DEF woken
  <2> QED BY <2>3, <2>4 DEF LaneSound
<1>8. /\ runnable' = runnable \o WakesOf(s, FALSE)
      /\ s \in Seq(Lane) /\ IsInjective(s) /\ ToSet(s) \subseteq J
  <2>1. /\ s \in Seq(Lane) /\ DOMAIN s = 1..Cardinality(J)
        /\ IsInjective(s) /\ ToSet(s) \subseteq J
    BY <1>4, SetToSeqIs
  <2>2. runnable' = runnable \o [i \in 1..Cardinality(J) |-> Wake(s[i], FALSE)]
    BY DEF endLane
  <2> QED BY <2>1, <2>2 DEF WakesOf
<1> HIDE DEF J, me, woken, s
<1>9. \A i \in DOMAIN runnable : runnable[i].lane \in Lane /\ runnable[i].lane \notin J
  <2>1. \A i \in DOMAIN runnable : runnable[i] \in Wakes
    BY <1>3
  <2> QED BY <1>4, <2>1 DEF Wakes, SInv, Waking, WakesSound, WakeSound
<1>10. /\ runnable' \in Seq(Wakes) /\ OneWake(runnable')
       /\ \A i \in DOMAIN runnable' : \/ \E j \in DOMAIN runnable : runnable'[i] = runnable[j]
                                      \/ \E j \in DOMAIN s : runnable'[i] = Wake(s[j], FALSE)
  <2>1. \A i \in DOMAIN runnable : runnable[i].lane \notin ToSet(s)
    BY <1>8, <1>9
  <2>2. OneWake(runnable) /\ FALSE \in BOOLEAN
    BY DEF SInv, Waking
  <2> QED BY <1>3, <1>8, <2>1, <2>2, WakesAdded
<1>11. \A m \in Lane : LaneSound(lanes'[m], issued, log)
  BY <1>5, <1>6, <1>7, LaneTyped
<1>12. ended' \in Seq(Lane) /\ IsInjective(ended') /\ ToSet(ended') = ToSet(ended) \cup {l}
  BY <1>1, <1>2, <1>3, AppendIs DEF SInv, EndedOnce
<1>13. Types' /\ LanesSound'
  <2>1. lanes' = [m \in Lane |-> lanes'[m]]
    <3>1. \E f : lanes' = [m \in Lane |-> f[m]]
      <4>1. lanes' = [j \in Lane |-> CASE j = l -> me [] j \in J -> woken(j) [] OTHER -> lanes[j]]
        BY DEF endLane, J, me, woken
      <4> QED BY <1>5, <4>1
    <3> QED BY <1>5, <3>1
  <2>2. lanes' \in [Lane -> LaneRec]
    BY <1>11, <2>1 DEF LaneSound
  <2> QED BY <1>1, <1>10, <1>11, <1>12, <2>2 DEF SInv, Types, LanesSound
<1>14. LogNames' /\ ErrorsFail'
  BY <1>1, <1>5, <1>6, <1>7 DEF SInv, LogNames, ErrorsFail, Poisoned, UnitOf
<1>15. Turns'
  <2>1. \A m \in Lane : m # l => lanes[m].phase \notin {"running", "head", "parking"}
    BY <1>2 DEF SInv, Turns, Phase
  <2>2. \A m \in Lane : lanes'[m].phase \notin {"running", "head", "parking"}
    BY <1>5, <1>6, <1>7, <2>1
  <2> QED BY <1>1, <2>2 DEF Turns, Phase
<1>16. \A m \in ToSet(inFlight) : m \in Lane /\ m \notin J /\ lanes'[m] = lanes[m]
  <2>1. \A m \in ToSet(inFlight) : m \in Lane /\ lanes[m].phase \in {"parking", "awaiting"}
    BY <1>3 DEF SInv, Flying, Phase, ToSet
  <2> QED BY <1>2, <1>4, <1>5, <2>1
<1>17. Flying'
  BY <1>1, <1>16 DEF SInv, Flying, Phase, UnitOf
<1>18. Waking'
  <2>1. \A j \in DOMAIN runnable : WakeSound(runnable[j], lanes'[runnable[j].lane], ToSet(inFlight))
    BY <1>2, <1>5, <1>9 DEF SInv, Waking, WakesSound
  <2>2. \A j \in DOMAIN s : WakeSound(Wake(s[j], FALSE), lanes'[Wake(s[j], FALSE).lane], ToSet(inFlight))
    <3> SUFFICES ASSUME NEW j \in DOMAIN s
                 PROVE  WakeSound(Wake(s[j], FALSE), lanes'[Wake(s[j], FALSE).lane], ToSet(inFlight))
      OBVIOUS
    <3>1. s[j] \in J
      BY <1>8 DEF ToSet
    <3>2. Wake(s[j], FALSE).lane = s[j] /\ Wake(s[j], FALSE).completed = FALSE
      BY DEF Wake
    <3>3. lanes'[s[j]].phase = "woken"
      BY <1>5, <1>7, <3>1
    <3> QED BY <3>2, <3>3 DEF WakeSound
  <2>3. \A i \in DOMAIN runnable' : WakeSound(runnable'[i], lanes'[runnable'[i].lane], ToSet(inFlight))
    BY <1>10, <2>1, <2>2
  <2> QED BY <1>1, <1>10, <2>3 DEF Waking, WakesSound
<1>19. Halted' /\ Quiescing' /\ Over'
  BY <1>1, <1>2 DEF Halted, Quiescing, Over, Poisoned
<1>20. EndedOnce'
  <2>1. \A m \in ToSet(ended) : m \in Lane /\ lanes[m].phase = "ended"
    BY <1>3 DEF SInv, EndedOnce, Phase, ToSet
  <2>2. \A m \in ToSet(ended) : lanes'[m].phase = "ended"
    BY <1>2, <1>4, <1>5, <2>1
  <2> QED BY <1>5, <1>6, <1>12, <2>2 DEF EndedOnce, Phase
<1> QED BY <1>13, <1>14, <1>15, <1>17, <1>18, <1>19, <1>20 DEF SInv

LEMMA TailIs ==
  ASSUME NEW S, NEW seq \in Seq(S), seq # <<>>
  PROVE  /\ Tail(seq) \in Seq(S) /\ Head(seq) = seq[1] /\ seq[1] \in S /\ 1 \in DOMAIN seq
         /\ \A i \in DOMAIN Tail(seq) : i + 1 \in DOMAIN seq /\ Tail(seq)[i] = seq[i + 1] /\ i + 1 # 1
<1>1. /\ Len(seq) \in Nat /\ Len(seq) # 0 /\ DOMAIN seq = 1..Len(seq)
      /\ Tail(seq) \in Seq(S) /\ Head(seq) = seq[1]
  OBVIOUS
<1>2. DOMAIN Tail(seq) = 1..(Len(seq) - 1) /\ \A i \in 1..(Len(seq) - 1) : Tail(seq)[i] = seq[i + 1]
  OBVIOUS
<1>3. 1 \in DOMAIN seq /\ seq[1] \in S
  BY <1>1
<1>4. ASSUME NEW i \in DOMAIN Tail(seq) PROVE i + 1 \in DOMAIN seq /\ i + 1 # 1
  BY <1>1, <1>2
<1> QED BY <1>1, <1>2, <1>3, <1>4

LEMMA GrantSound ==
  ASSUME SInv, grantNext
  PROVE  SInv'
<1>1. /\ scheduled /\ ~Poisoned /\ turn = None /\ scheduled' = FALSE
      /\ ended' = ended /\ inFlight' = inFlight /\ poison' = poison /\ nextIndex' = nextIndex
      /\ nextSched' = nextSched /\ issued' = issued /\ log' = log /\ status' = status
      /\ history' = history /\ crashes' = crashes
  BY DEF grantNext
<1>2. /\ lanes \in [Lane -> LaneRec] /\ ended \in Seq(Lane) /\ inFlight \in Seq(Lane)
      /\ runnable \in Seq(Wakes) /\ quiesce \in Quiesces
  BY DEF SInv, Types
<1>3. \A m \in Lane : lanes[m].phase \notin {"running", "head", "parking"}
  BY <1>1, LaneAssumption DEF SInv, Turns, Phase
<1>4. LogNames'
  BY <1>1 DEF SInv, LogNames
<1>5. CASE runnable # <<>>
  <2> DEFINE w == Head(runnable)
             l == w.lane
             lane == IF w.completed THEN hand(lanes[l]) ELSE [lanes[l] EXCEPT !.phase = "running"]
  <2>1. /\ turn' = l /\ runnable' = Tail(runnable) /\ quiesce' = quiesce
        /\ lanes' = [lanes EXCEPT ![l] = lane]
    BY <1>5 DEF grantNext
  <2>2. /\ Tail(runnable) \in Seq(Wakes) /\ w = runnable[1] /\ w \in Wakes /\ 1 \in DOMAIN runnable
        /\ \A i \in DOMAIN Tail(runnable) : /\ i + 1 \in DOMAIN runnable /\ i + 1 # 1
                                            /\ Tail(runnable)[i] = runnable[i + 1]
    BY <1>2, <1>5, TailIs
  <2>3. l \in Lane /\ WakeSound(w, lanes[l], ToSet(inFlight))
    BY <2>2 DEF Wakes, SInv, Waking, WakesSound
  <2>4. lanes[l] \in LaneRec /\ LaneSound(lanes[l], issued, log)
    BY <2>3, LaneTyped
  <2>5. LaneSound(lane, issued, log) /\ lane.phase = "running" /\ lane.unit = None
    <3>1. CASE w.completed
      <4>1. lanes[l].unit # None /\ lanes[l].unit.outcome # None
        BY <2>3, <2>4, <3>1 DEF WakeSound, LaneSound
      <4> QED BY <2>4, <3>1, <4>1, HandSound
    <3>2. CASE ~w.completed
      <4>1. lanes[l].unit = None
        BY <2>3, <2>4, <3>2 DEF WakeSound, LaneSound
      <4>2. "running" \in Phases /\ "all" \in Handed /\ {} \in SUBSET Lane /\ None \in Unit \cup {None}
        BY DEF Phases, Handed
      <4>3. lane \in LaneRec
        BY <2>4, <3>2, <4>2, LaneChange
      <4>4. lane.phase = "running" /\ lane.unit = None
        BY <2>4, <3>2, <4>1 DEF LaneRec
      <4> HIDE DEF lane
      <4> QED BY <4>3, <4>4 DEF LaneSound
    <3> QED BY <3>1, <3>2
  <2>6. l \notin ToSet(inFlight) /\ l \notin ToSet(ended)
    <3>1. lanes[l].phase \in {"queued", "woken"} \/ (lanes[l].phase = "awaiting" /\ l \notin ToSet(inFlight))
      BY <2>3 DEF WakeSound
    <3> QED BY <3>1 DEF SInv, Flying, EndedOnce, Phase
  <2>7. \A i \in DOMAIN runnable' : runnable'[i].lane \in Lane /\ runnable'[i].lane # l
    <3>1. \A i \in DOMAIN runnable : runnable[i] \in Wakes
      BY <1>2
    <3>2. \A i \in DOMAIN runnable : runnable[i].lane = runnable[1].lane => i = 1
      BY <2>2 DEF SInv, Waking, OneWake
    <3>3. \A i \in DOMAIN runnable : runnable[i].lane \in Lane
      BY <3>1 DEF Wakes
    <3> QED BY <2>1, <2>2, <3>2, <3>3
  <2> HIDE DEF w, l, lane
  <2>8. lanes'[l] = lane /\ (\A m \in Lane : m # l => lanes'[m] = lanes[m]) /\ lanes' \in [Lane -> LaneRec]
    BY <1>2, <2>1, <2>3, <2>5 DEF LaneSound
  <2>9. LanesSound'
    BY <1>1, <2>5, <2>8, LaneTyped DEF LanesSound
  <2>10. Types'
    BY <1>1, <2>1, <2>2, <2>3, <2>8 DEF SInv, Types
  <2>11. ErrorsFail'
    BY <1>1, <2>5, <2>8 DEF SInv, ErrorsFail, Poisoned, UnitOf
  <2>12. quiesce.phase = "idle"
    BY <1>1, <1>5 DEF SInv, Quiescing
  <2>13. Turns'
    BY <1>1, <1>3, <2>1, <2>3, <2>5, <2>8, <2>12 DEF Turns, Phase, Poisoned
  <2>14. Flying'
    <3>1. \A m \in ToSet(inFlight) : m \in Lane /\ lanes'[m] = lanes[m]
      BY <1>2, <2>6, <2>8 DEF ToSet
    <3> QED BY <1>1, <3>1 DEF SInv, Flying, Phase, UnitOf
  <2>15. Waking'
    <3>1. \A i \in DOMAIN runnable' : WakeSound(runnable'[i], lanes'[runnable'[i].lane], ToSet(inFlight'))
      <4> SUFFICES ASSUME NEW i \in DOMAIN runnable'
                   PROVE  WakeSound(runnable'[i], lanes'[runnable'[i].lane], ToSet(inFlight'))
        OBVIOUS
      <4>1. i + 1 \in DOMAIN runnable /\ runnable'[i] = runnable[i + 1]
        BY <2>1, <2>2
      <4>2. WakeSound(runnable[i + 1], lanes[runnable[i + 1].lane], ToSet(inFlight))
        BY <4>1 DEF SInv, Waking, WakesSound
      <4>3. lanes'[runnable'[i].lane] = lanes[runnable[i + 1].lane]
        BY <2>7, <2>8, <4>1
      <4> QED BY <1>1, <4>1, <4>2, <4>3
    <3>2. OneWake(runnable')
      <4> SUFFICES ASSUME NEW i \in DOMAIN runnable', NEW j \in DOMAIN runnable',
                          runnable'[i].lane = runnable'[j].lane
                   PROVE  i = j
        BY DEF OneWake
      <4>1. /\ i + 1 \in DOMAIN runnable /\ runnable'[i] = runnable[i + 1]
            /\ j + 1 \in DOMAIN runnable /\ runnable'[j] = runnable[j + 1]
        BY <2>1, <2>2
      <4>2. i + 1 = j + 1
        BY <4>1 DEF SInv, Waking, OneWake
      <4>3. i \in Nat /\ j \in Nat
        <5>1. runnable' \in Seq(Wakes)
          BY <2>1, <2>2
        <5> QED BY <5>1
      <4> QED BY <4>2, <4>3
    <3> QED BY <3>1, <3>2 DEF Waking, WakesSound
  <2>16. Halted' /\ Quiescing'
    BY <1>1, <2>1, <2>12 DEF Halted, Quiescing, Poisoned
  <2>17. EndedOnce'
    BY <1>1, <1>2, <2>6, <2>8 DEF SInv, EndedOnce, Phase, ToSet
  <2>18. Over'
    BY <1>1 DEF SInv, Over, Types, Poisoned
  <2> QED BY <1>4, <2>9, <2>10, <2>11, <2>13, <2>14, <2>15, <2>16, <2>17, <2>18 DEF SInv
<1>6. CASE runnable = <<>>
  <2>1. /\ quiesce.phase = "idle" /\ quiesce' = [Idle EXCEPT !.phase = "watching"]
        /\ lanes' = lanes /\ turn' = turn /\ runnable' = runnable
    BY <1>6 DEF grantNext
  <2>2. quiesce' \in Quiesces /\ quiesce'.phase = "watching"
    <3>1. Idle \in Quiesces /\ "watching" \in {"idle", "watching", "recording", "following"}
      BY DEF Idle, Quiesces
    <3> HIDE DEF Idle
    <3> QED BY <2>1, <3>1 DEF Quiesces
  <2>3. Types'
    BY <1>1, <2>1, <2>2 DEF SInv, Types
  <2>4. LanesSound' /\ ErrorsFail' /\ Turns'
    BY <1>1, <2>1 DEF SInv, LanesSound, ErrorsFail, Turns, Poisoned, UnitOf, Phase
  <2>5. Flying' /\ Waking' /\ Halted' /\ EndedOnce'
    BY <1>1, <2>1 DEF SInv, Flying, Waking, Halted, EndedOnce, Poisoned, UnitOf, Phase
  <2>6. Quiescing'
    BY <1>1, <1>6, <2>1, <2>2 DEF Quiescing, Poisoned
  <2>7. Over'
    BY <1>1 DEF SInv, Over, Types, Poisoned
  <2> QED BY <1>4, <2>3, <2>4, <2>5, <2>6, <2>7 DEF SInv
<1> QED BY <1>5, <1>6

(* What was chosen of what settled is delivered.                           *)
LEMMA DeliverSound ==
  ASSUME SInv, ~Poisoned, quiesce.phase # "idle", NEW S \in SUBSET Settled, deliver(S),
         UNCHANGED <<lanes, ended, turn, poison, log>>, UNCHANGED Rest0
  PROVE  SInv'
<1>1. /\ lanes' = lanes /\ ended' = ended /\ turn' = turn /\ poison' = poison /\ log' = log
      /\ nextIndex' = nextIndex /\ nextSched' = nextSched /\ issued' = issued /\ status' = status
      /\ history' = history /\ crashes' = crashes
      /\ inFlight' = Rest(S) /\ quiesce' = Idle /\ scheduled' = TRUE
  BY DEF deliver, Rest0
<1>2. /\ lanes \in [Lane -> LaneRec] /\ ended \in Seq(Lane) /\ inFlight \in Seq(Lane)
      /\ turn = None /\ runnable = <<>> /\ IsInjective(inFlight)
  BY DEF SInv, Types, Quiescing, Flying
<1> DEFINE s == InOrder(S)
<1>3. s \in Seq(Lane) /\ IsInjective(s) /\ ToSet(s) = ToSet(inFlight) \cap S
  BY <1>2, OnlyIs DEF InOrder
<1>4. inFlight' \in Seq(Lane) /\ IsInjective(inFlight') /\ ToSet(inFlight') = ToSet(inFlight) \ S
  <2>1. ToSet(inFlight') = ToSet(inFlight) \cap (ToSet(inFlight) \ S)
    BY <1>1, <1>2, OnlyIs DEF Rest
  <2>2. inFlight' \in Seq(Lane) /\ IsInjective(inFlight')
    BY <1>1, <1>2, OnlyIs DEF Rest
  <2> QED BY <2>1, <2>2
<1>5. runnable' = runnable \o WakesOf(s, TRUE)
  BY DEF deliver, WakesOf
<1> HIDE DEF s
<1>6. /\ runnable' \in Seq(Wakes) /\ OneWake(runnable')
      /\ \A i \in DOMAIN runnable' : \E j \in DOMAIN s : runnable'[i] = Wake(s[j], TRUE)
  <2>0. DOMAIN runnable = {}
    BY <1>2
  <2>1. runnable \in Seq(Wakes) /\ OneWake(runnable)
    BY <1>2, <2>0 DEF OneWake
  <2>2. /\ \A i \in DOMAIN runnable : runnable[i].lane \notin ToSet(s)
        /\ s \in Seq(Lane) /\ IsInjective(s)
    BY <1>3, <2>0
  <2>3. PICK c \in BOOLEAN : c = TRUE
    OBVIOUS
  <2> DEFINE q == runnable \o WakesOf(s, c)
  <2>4. q \in Seq(Wakes) /\ OneWake(q)
    BY <2>1, <2>2, WakesAdded
  <2>5. \A i \in DOMAIN q : \/ \E j \in DOMAIN runnable : q[i] = runnable[j]
                            \/ \E j \in DOMAIN s : q[i] = Wake(s[j], c)
    BY <2>1, <2>2, WakesAdded
  <2>6. runnable' = q
    BY <1>5, <2>3
  <2> HIDE DEF q
  <2> QED BY <2>0, <2>3, <2>4, <2>5, <2>6
<1>7. \A m \in S : m \in ToSet(inFlight) /\ lanes[m].unit.outcome # None /\ lanes[m].phase = "awaiting"
  <2>1. \A m \in ToSet(inFlight) : m \in Lane
    BY <1>2 DEF ToSet
  <2>2. \A m \in Lane : lanes[m].phase # "parking"
    BY <1>2, LaneAssumption DEF SInv, Turns, Phase
  <2> QED BY <2>1, <2>2 DEF Settled, UnitOf, SInv, Flying, Phase
<1>8. Types'
  <2>1. Idle \in Quiesces
    BY DEF Idle, Quiesces
  <2> QED BY <1>1, <1>4, <1>6, <2>1 DEF SInv, Types
<1>9. LanesSound' /\ LogNames' /\ ErrorsFail' /\ EndedOnce' /\ Over'
  BY <1>1 DEF SInv, LanesSound, LogNames, ErrorsFail, EndedOnce, Over, Poisoned, UnitOf, Phase, Types
<1>10. Turns'
  BY <1>1, <1>2 DEF SInv, Turns, Poisoned, Phase
<1>11. Flying'
  BY <1>1, <1>4 DEF SInv, Flying, UnitOf, Phase
<1>12. Waking'
  <2>1. ASSUME NEW i \in DOMAIN runnable'
        PROVE  WakeSound(runnable'[i], lanes'[runnable'[i].lane], ToSet(inFlight'))
    <3>1. PICK j \in DOMAIN s : runnable'[i] = Wake(s[j], TRUE)
      BY <1>6
    <3>2. s[j] \in S
      BY <1>3 DEF ToSet
    <3>3. runnable'[i].lane = s[j] /\ runnable'[i].completed = TRUE
      BY <3>1 DEF Wake
    <3> QED BY <1>1, <1>4, <1>7, <3>2, <3>3 DEF WakeSound
  <2> QED BY <1>6, <2>1 DEF Waking, WakesSound
<1>13. Halted' /\ Quiescing'
  BY <1>1 DEF Halted, Quiescing, Poisoned, Idle
<1> QED BY <1>8, <1>9, <1>10, <1>11, <1>12, <1>13 DEF SInv

(* Who waits for its operation has one.                                    *)
LEMMA InFlightTyped ==
  ASSUME SInv
  PROVE  /\ \A l \in ToSet(inFlight) : l \in Lane /\ lanes[l].unit # None /\ lanes[l].unit.index \in Nat
         /\ Names(inFlight) \in Seq(OpName) /\ Indexes(ToSet(inFlight)) \subseteq Nat
         /\ Settled \subseteq ToSet(inFlight)
<1>1. inFlight \in Seq(Lane) /\ \A l \in ToSet(inFlight) : l \in Lane
  BY DEF SInv, Types, ToSet
<1>2. \A l \in ToSet(inFlight) : lanes[l].unit # None
  BY <1>1, LaneTyped DEF SInv, Flying, Phase, LaneSound
<1>3. \A l \in ToSet(inFlight) : lanes[l].unit.index \in Nat /\ lanes[l].unit.name \in OpName
  BY <1>1, <1>2, LaneTyped, UnitTyped
<1>4. Names(inFlight) \in Seq(OpName)
  <2>1. \A i \in DOMAIN inFlight : inFlight[i] \in ToSet(inFlight)
    BY DEF ToSet
  <2>2. \A i \in DOMAIN inFlight : lanes[inFlight[i]].unit.name \in OpName
    BY <1>3, <2>1
  <2>3. DOMAIN inFlight = 1..Len(inFlight) /\ Len(inFlight) \in Nat
    BY <1>1
  <2>4. Names(inFlight) \in [1..Len(inFlight) -> OpName]
    BY <2>2, <2>3 DEF Names, UnitOf
  <2> QED BY <2>3, <2>4
<1>5. Indexes(ToSet(inFlight)) \subseteq Nat /\ Settled \subseteq ToSet(inFlight)
  BY <1>3 DEF Indexes, UnitOf, Settled
<1> QED BY <1>1, <1>2, <1>3, <1>4, <1>5

LEMMA QuiesceSound ==
  ASSUME SInv, Walked, quiesceSettled
  PROVE  SInv'
<1>1. /\ quiesce.phase = "watching" /\ Settled # {} /\ UNCHANGED <<lanes, ended, turn, poison, log>>
      /\ nextIndex' = nextIndex /\ status' = status /\ crashes' = crashes
  BY DEF quiesceSettled
<1>2. ~Poisoned /\ turn = None /\ runnable = <<>> /\ ~scheduled
  BY <1>1 DEF SInv, Quiescing
<1>3. CASE Len(inFlight) = 1
  <2>1. deliver(Settled) /\ nextSched' = nextSched /\ issued' = issued /\ history' = history
    BY <1>3 DEF quiesceSettled
  <2>2. UNCHANGED Rest0
    BY <1>1, <2>1 DEF Rest0
  <2>3. Settled \in SUBSET Settled
    OBVIOUS
  <2>4. quiesce.phase # "idle"
    BY <1>1
  <2> QED BY <1>1, <1>2, <2>1, <2>2, <2>3, <2>4, DeliverSound
<1>4. CASE Len(inFlight) # 1
  <2> DEFINE name == <<"sched", nextSched>>
             q == [phase |-> "recording", id |-> Len(issued) + 1,
                   pending |-> Names(inFlight), chosen |-> Indexes(Settled)]
  <2>1. /\ Reserve(name) /\ nextSched' = nextSched + 1 /\ quiesce' = q
        /\ inFlight' = inFlight /\ runnable' = runnable /\ scheduled' = scheduled
    BY <1>4 DEF quiesceSettled
  <2>2. name \in OpName /\ nextSched + 1 \in Nat
    BY DEF OpName, SInv, Types
  <2> HIDE DEF name
  <2>3. /\ issued' \in Seq(OpName) /\ history' \in Seq(OpName)
        /\ Len(issued) + 1 \in DOMAIN issued' /\ Len(issued') = Len(issued) + 1 /\ Len(issued) \in Nat
        /\ issued' = Append(issued, name)
        /\ Longer(issued, issued') /\ Longer(history, history')
    BY <2>1, <2>2, ReserveSound
  <2>4. /\ Names(inFlight) \in Seq(OpName) /\ Indexes(ToSet(inFlight)) \subseteq Nat
        /\ Settled \subseteq ToSet(inFlight)
    BY InFlightTyped
  <2>5. Indexes(Settled) \subseteq Indexes(ToSet(inFlight))
    BY <2>4 DEF Indexes
  <2>6. q \in Quiesces /\ q.phase = "recording" /\ q.id = Len(issued) + 1
        /\ q.pending = Names(inFlight) /\ q.chosen = Indexes(Settled)
    BY <2>3, <2>4, <2>5 DEF Quiesces
  <2> HIDE DEF q
  <2>7. /\ lanes' = lanes /\ ended' = ended /\ turn' = turn /\ poison' = poison /\ log' = log
    BY <1>1
  <2>8. Types'
    BY <1>1, <2>1, <2>2, <2>3, <2>6, <2>7 DEF SInv, Types
  <2>9. LanesSound'
    BY <2>3, <2>7, LaneTyped, LaneKept, LongerSelf DEF LanesSound
  <2>10. LogNames'
    BY <2>3, <2>7 DEF SInv, LogNames, Longer
  <2>11. ErrorsFail' /\ EndedOnce' /\ Halted'
    BY <2>1, <2>7 DEF SInv, ErrorsFail, EndedOnce, Halted, Poisoned, UnitOf, Phase
  <2>12. Turns'
    BY <1>2, <2>1, <2>7 DEF SInv, Turns, Poisoned, Phase
  <2>13. Flying' /\ Waking'
    BY <1>1, <2>1, <2>7 DEF SInv, Flying, Waking, UnitOf, Phase
  <2>14. Quiescing'
    <3>1. Names(inFlight)' = Names(inFlight) /\ Indexes(ToSet(inFlight))' = Indexes(ToSet(inFlight))
      BY <2>1, <2>7 DEF Names, Indexes, UnitOf
    <3>2. issued' # <<>>
      BY <2>2, <2>3, AppendIs DEF SInv, Types
    <3> QED BY <1>2, <2>1, <2>3, <2>5, <2>6, <2>7, <3>1, <3>2 DEF Quiescing, Poisoned
  <2>15. Over'
    BY <1>1, <1>2, <2>1, <2>7 DEF SInv, Over, Poisoned, Types
  <2> QED BY <2>8, <2>9, <2>10, <2>11, <2>12, <2>13, <2>14, <2>15 DEF SInv
<1> QED BY <1>3, <1>4

(* What is on record once the decision is.                                 *)
LEMMA DecisionSound ==
  ASSUME SInv, Walked, deliverRecorded
  PROVE  /\ LogNames' /\ Longer(log, log') /\ quiesce.id \in DOMAIN log'
         /\ log'[quiesce.id] = Decision(quiesce.id) /\ DOMAIN log' \subseteq DOMAIN log \cup {quiesce.id}
         /\ quiesce.id \in DOMAIN issued /\ quiesce.id \in DOMAIN history
         /\ history[quiesce.id] = issued[quiesce.id]
<1>1. /\ quiesce.phase = "recording" /\ history' = history
      /\ IF Recorded(quiesce.id) THEN UNCHANGED log ELSE Record(quiesce.id, Decision(quiesce.id))
  BY DEF deliverRecorded
<1>2. quiesce.id \in DOMAIN issued
  BY <1>1 DEF SInv, Quiescing
<1>3. quiesce.id \in DOMAIN history /\ history[quiesce.id] = issued[quiesce.id]
  BY <1>2 DEF Walked, Longer
<1>4. CASE Recorded(quiesce.id)
  <2>1. log' = log /\ quiesce.id \in DOMAIN log /\ Decision(quiesce.id) = log[quiesce.id]
    BY <1>1, <1>4 DEF Recorded, Decision
  <2> QED BY <1>1, <1>2, <1>3, <2>1, LongerSelf DEF SInv, LogNames
<1>5. CASE ~Recorded(quiesce.id)
  <2> DEFINE d == Decision(quiesce.id)
  <2>1. d.name = issued[quiesce.id] /\ d.value = "ok"
    BY <1>5 DEF Decision, Entry, SchedName
  <2> HIDE DEF d
  <2>2. /\ DOMAIN log' = DOMAIN log \cup {quiesce.id} /\ log'[quiesce.id] = d
        /\ \A i \in DOMAIN log : log'[i] = log[i]
    BY <1>1, <1>5 DEF Record, Recorded, d
  <2>3. "ok" \in Outcome \ {"unexpected"}
    BY DEF Outcome
  <2>4. LogNames'
    BY <1>1, <1>3, <2>1, <2>2, <2>3 DEF SInv, LogNames
  <2>5. Longer(log, log')
    BY <2>2 DEF Longer
  <2> QED BY <1>2, <1>3, <2>2, <2>4, <2>5 DEF d
<1> QED BY <1>4, <1>5

LEMMA RecordedSound ==
  ASSUME SInv, Walked, deliverRecorded
  PROVE  SInv'
<1>1. /\ quiesce.phase = "recording"
      /\ ended' = ended /\ nextIndex' = nextIndex /\ nextSched' = nextSched /\ issued' = issued
      /\ status' = status /\ history' = history /\ crashes' = crashes
  BY DEF deliverRecorded
<1>2. /\ LogNames' /\ Longer(log, log') /\ quiesce.id \in DOMAIN log'
      /\ log'[quiesce.id] = Decision(quiesce.id) /\ quiesce.id \in DOMAIN issued
  BY DecisionSound
<1>3. \A m \in Lane : LaneSound(lanes[m], issued, log')
  BY <1>2, LaneTyped, LaneKept, LongerSelf
<1>4. ~Poisoned => turn = None /\ ~scheduled /\ runnable = <<>> /\ quiesce.id = Len(issued) /\ issued # <<>>
  BY <1>1 DEF SInv, Quiescing
<1>5. status # "completed"
  BY <1>1 DEF SInv, Over
<1>6. CASE Poisoned \/ FollowsRecord(Decision(quiesce.id))
  <2>1. /\ lanes' = lanes /\ turn' = turn /\ runnable' = runnable /\ scheduled' = scheduled
        /\ inFlight' = inFlight /\ poison' = poison
    BY <1>6 DEF deliverRecorded
  <2>2. /\ quiesce' \in Quiesces
        /\ \/ Poisoned /\ quiesce' = Idle
           \/ /\ ~Poisoned /\ quiesce'.phase = "following" /\ quiesce'.id = quiesce.id
              /\ quiesce'.chosen = log'[quiesce.id].settled
    <3>1. CASE Poisoned
      <4>1. quiesce' = Idle
        BY <3>1 DEF deliverRecorded
      <4> QED BY <3>1, <4>1 DEF Idle, Quiesces
    <3>2. CASE ~Poisoned
      <4> DEFINE S == Decision(quiesce.id).settled
      <4>1. FollowsRecord(Decision(quiesce.id)) /\ quiesce' = [quiesce EXCEPT !.phase = "following", !.chosen = S]
        BY <1>6, <3>2 DEF deliverRecorded
      <4>2. S \subseteq Nat
        BY <4>1, InFlightTyped DEF FollowsRecord
      <4>3. S = log'[quiesce.id].settled /\ quiesce \in Quiesces
        BY <1>2 DEF SInv, Types
      <4> HIDE DEF S
      <4>4. /\ quiesce' \in Quiesces /\ quiesce'.phase = "following" /\ quiesce'.id = quiesce.id
            /\ quiesce'.chosen = S
        BY <4>1, <4>2, <4>3 DEF Quiesces
      <4> QED BY <3>2, <4>3, <4>4
    <3> QED BY <3>1, <3>2
  <2>3. Types'
    BY <1>1, <2>1, <2>2 DEF SInv, Types
  <2>4. LanesSound'
    BY <1>1, <1>3, <2>1 DEF LanesSound
  <2>5. ErrorsFail' /\ EndedOnce' /\ Halted'
    BY <1>1, <2>1 DEF SInv, ErrorsFail, EndedOnce, Halted, Poisoned, UnitOf, Phase
  <2>6. Turns'
    BY <1>4, <2>1 DEF SInv, Turns, Poisoned, Phase
  <2>7. Flying' /\ Waking'
    BY <1>1, <2>1 DEF SInv, Flying, Waking, UnitOf, Phase
  <2>8. Quiescing'
    BY <1>1, <1>2, <1>4, <2>1, <2>2 DEF Quiescing, Poisoned, Idle
  <2>9. Over'
    BY <1>1, <1>5, <2>1 DEF SInv, Over, Poisoned
  <2> QED BY <1>2, <2>3, <2>4, <2>5, <2>6, <2>7, <2>8, <2>9 DEF SInv
<1>7. CASE ~Poisoned /\ ~FollowsRecord(Decision(quiesce.id))
  <2>1. fail("diverged", lanes)
    BY <1>7 DEF deliverRecorded
  <2>2. status = "running"
    BY <1>5, <1>7 DEF SInv, Over, Types
  <2>3. /\ ended' \in Seq(Lane) /\ IsInjective(ended')
        /\ \A l \in ToSet(ended') : lanes[l].phase = "ended"
    BY <1>1 DEF SInv, Types, EndedOnce, Phase
  <2>4. UNCHANGED Rest0
    BY <1>1 DEF Rest0
  <2>5. "diverged" \in Faults
    BY DEF Faults
  <2> QED BY <1>2, <1>3, <2>1, <2>2, <2>3, <2>4, <2>5, FailSound
<1> QED BY <1>6, <1>7

LEMMA FollowSound ==
  ASSUME SInv, follow
  PROVE  SInv'
<1> DEFINE S == {l \in Settled : UnitOf(l).index \in quiesce.chosen}
<1>1. /\ quiesce.phase = "following" /\ deliver(S)
      /\ UNCHANGED <<lanes, ended, turn, poison, log>> /\ UNCHANGED Rest0
  BY DEF follow, Rest0
<1>2. ~Poisoned /\ quiesce.phase # "idle"
  BY <1>1 DEF SInv, Quiescing
<1>3. S \in SUBSET Settled
  OBVIOUS
<1> HIDE DEF S
<1> QED BY <1>1, <1>2, <1>3, DeliverSound

LEMMA CompletesSound ==
  ASSUME SInv, runCompletes
  PROVE  SInv'
<1> DEFINE as == [lanes EXCEPT ![Root].phase = "ended"]
           root == [lanes[Root] EXCEPT !.phase = "ended"]
<1>1. /\ status = "running" /\ Holds(Root) /\ Root \in Lane
      /\ ended' = ended /\ nextIndex' = nextIndex /\ nextSched' = nextSched /\ issued' = issued
      /\ log' = log /\ history' = history /\ crashes' = crashes
  BY LaneAssumption DEF runCompletes
<1>2. /\ ~Poisoned /\ turn = Root /\ ~scheduled /\ quiesce.phase = "idle"
      /\ lanes[Root].phase = "running" /\ lanes[Root].unit = None /\ LaneSound(lanes[Root], issued, log)
      /\ Root \notin ToSet(inFlight) /\ Root \notin ToSet(ended)
      /\ \A i \in DOMAIN runnable : runnable[i].lane # Root
  BY <1>1, AtCode
<1>3. LaneSound(root, issued, log) /\ root.phase = "ended" /\ root.unit = None
  BY <1>2, EndSound
<1>4. as[Root] = root /\ (\A m \in Lane : m # Root => as[m] = lanes[m]) /\ as \in [Lane -> LaneRec]
  BY <1>1, <1>3 DEF SInv, Types, LaneSound
<1>5. \/ /\ lanes' = as /\ turn' = None /\ status' = "completed" /\ runnable' = runnable
         /\ scheduled' = scheduled /\ inFlight' = inFlight /\ quiesce' = quiesce /\ poison' = poison
         /\ \A l \in Lane \ {Root} : Phase(l) \in {"unborn", "ended"}
      \/ fail("unfinished", as) /\ status' = status
  BY DEF runCompletes
<1> HIDE DEF as, root
<1>6. \A m \in Lane : LaneSound(as[m], issued, log)
  BY <1>3, <1>4, LaneTyped
<1>7. LogNames'
  BY <1>1 DEF SInv, LogNames
<1>8. /\ ended \in Seq(Lane) /\ IsInjective(ended)
      /\ \A m \in ToSet(ended) : m \in Lane /\ m # Root /\ as[m].phase = "ended"
  <2>1. ended \in Seq(Lane) /\ IsInjective(ended)
    BY DEF SInv, Types, EndedOnce
  <2>2. \A m \in ToSet(ended) : m \in Lane
    BY <2>1 DEF ToSet
  <2>3. \A m \in ToSet(ended) : lanes[m].phase = "ended"
    BY DEF SInv, EndedOnce, Phase
  <2>4. \A m \in ToSet(ended) : m # Root
    BY <1>2
  <2> QED BY <1>4, <2>1, <2>2, <2>3, <2>4
<1>9. CASE fail("unfinished", as) /\ status' = status
  <2>1. UNCHANGED Rest0
    BY <1>1, <1>9 DEF Rest0
  <2>2. "unfinished" \in Faults
    BY DEF Faults
  <2>3. ended' \in Seq(Lane) /\ IsInjective(ended') /\ \A m \in ToSet(ended') : as[m].phase = "ended"
    BY <1>1, <1>8
  <2>4. \A m \in Lane : LaneSound(as[m], issued, log')
    BY <1>1, <1>6
  <2> QED BY <1>1, <1>7, <1>9, <2>1, <2>2, <2>3, <2>4, FailSound
<1>10. CASE /\ lanes' = as /\ turn' = None /\ status' = "completed" /\ runnable' = runnable
            /\ scheduled' = scheduled /\ inFlight' = inFlight /\ quiesce' = quiesce /\ poison' = poison
            /\ \A l \in Lane \ {Root} : Phase(l) \in {"unborn", "ended"}
  <2>1. \A m \in Lane : lanes'[m].phase \in {"unborn", "ended"}
    BY <1>3, <1>4, <1>10 DEF Phase
  <2>2. \A m \in ToSet(inFlight) : m \in Lane /\ m # Root
    BY <1>2 DEF SInv, Types, ToSet
  <2>3. Types' /\ LanesSound'
    BY <1>1, <1>4, <1>6, <1>10 DEF SInv, Types, LanesSound
  <2>4. ErrorsFail'
    BY <1>3, <1>4, <1>10 DEF SInv, ErrorsFail, Poisoned, UnitOf
  <2>5. Turns'
    BY <1>10, <2>1 DEF Turns, Phase
  <2>6. Flying'
    BY <1>1, <1>4, <1>10, <2>2 DEF SInv, Flying, UnitOf, Phase
  <2>7. Waking'
    <3>1. \A i \in DOMAIN runnable : runnable[i].lane \in Lane
      <4>1. \A i \in DOMAIN runnable : runnable[i] \in Wakes
        BY DEF SInv, Types
      <4> QED BY <4>1 DEF Wakes
    <3> QED BY <1>2, <1>4, <1>10, <3>1 DEF SInv, Waking, WakesSound
  <2>8. Halted' /\ Quiescing' /\ Over'
    BY <1>2, <1>10, <2>1 DEF Halted, Quiescing, Over, Poisoned, Phase
  <2>9. EndedOnce'
    BY <1>1, <1>8, <1>10 DEF EndedOnce, Phase
  <2> QED BY <1>7, <2>3, <2>4, <2>5, <2>6, <2>7, <2>8, <2>9 DEF SInv
<1> QED BY <1>5, <1>9, <1>10

LEMMA FailsSound ==
  ASSUME SInv, runFails
  PROVE  SInv'
<1>1. /\ Poisoned /\ status' = "failed" /\ UNCHANGED <<engine, issued, log, history, crashes>>
  BY DEF runFails
<1>2. Types' /\ LanesSound' /\ LogNames' /\ ErrorsFail' /\ Turns'
  BY <1>1 DEF SInv, engine, Types, LanesSound, LogNames, ErrorsFail, Turns, Poisoned, UnitOf, Phase
<1>3. Flying' /\ Waking' /\ Halted' /\ EndedOnce'
  BY <1>1 DEF SInv, engine, Flying, Waking, Halted, EndedOnce, Poisoned, UnitOf, Phase
<1>4. Quiescing'
  BY <1>1 DEF SInv, engine, Quiescing, Poisoned, Names, Indexes, UnitOf
<1>5. Over'
  BY <1>1 DEF engine, Over, Poisoned
<1> QED BY <1>2, <1>3, <1>4, <1>5 DEF SInv

(* An execution begins.                                                    *)
Begins ==
  /\ lanes = Fresh /\ ended = <<>> /\ turn = Root /\ runnable = <<>> /\ scheduled = FALSE
  /\ inFlight = <<>> /\ quiesce = Idle /\ poison = None /\ nextIndex = 0 /\ nextSched = 0
  /\ issued = <<>> /\ status = "running"
  /\ history \in Seq(OpName) /\ crashes \in 0..MaxCrashes /\ LogNames

LEMMA FreshSound == Begins => SInv
<1> SUFFICES ASSUME Begins PROVE SInv
  OBVIOUS
<1> USE DEF Begins
<1>1. Root \in Lane /\ Root # None
  BY LaneAssumption
<1>2. /\ Unborn \in LaneRec /\ Unborn.phase = "unborn" /\ Unborn.unit = None
      /\ [Unborn EXCEPT !.phase = "running"] \in LaneRec
      /\ [Unborn EXCEPT !.phase = "running"].phase = "running"
      /\ [Unborn EXCEPT !.phase = "running"].unit = None
  <2>1. <<>> \in Seq(Handed)
    OBVIOUS
  <2>2. "unborn" \in Phases /\ "running" \in Phases
    BY DEF Phases
  <2> QED BY <2>1, <2>2 DEF Unborn, LaneRec
<1>3. /\ lanes \in [Lane -> LaneRec] /\ lanes[Root].phase = "running"
      /\ \A l \in Lane : lanes[l].unit = None /\ (l # Root => lanes[l].phase = "unborn")
  <2>1. /\ DOMAIN lanes = Lane /\ lanes = [l \in Lane |-> lanes[l]]
        /\ \A l \in Lane : lanes[l] = IF l = Root THEN [Unborn EXCEPT !.phase = "running"] ELSE Unborn
    BY DEF Fresh
  <2> QED BY <1>1, <1>2, <2>1
<1>4. \A l \in Lane : LaneSound(lanes[l], issued, log)
  BY <1>1, <1>3 DEF LaneSound
<1>5. Idle \in Quiesces /\ Idle.phase = "idle"
  BY DEF Idle, Quiesces
<1>6. /\ <<>> \in Seq(Lane) /\ <<>> \in Seq(Wakes) /\ <<>> \in Seq(OpName)
  OBVIOUS
<1>7. Types
  BY <1>1, <1>3, <1>5, <1>6 DEF Types
<1>8. LanesSound /\ ErrorsFail /\ Turns
  BY <1>1, <1>3, <1>4, <1>5 DEF LanesSound, ErrorsFail, Turns, Poisoned, Phase, UnitOf
<1>9. Flying /\ Waking /\ EndedOnce
  BY DEF Flying, Waking, EndedOnce, OneWake, WakesSound, IsInjective, ToSet
<1>10. Halted /\ Quiescing /\ Over
  BY <1>5 DEF Halted, Quiescing, Over, Poisoned
<1> QED BY <1>7, <1>8, <1>9, <1>10 DEF SInv

LEMMA CrashSound ==
  ASSUME SInv, crash
  PROVE  SInv'
<1>1. /\ lanes' = Fresh /\ ended' = <<>> /\ turn' = Root /\ runnable' = <<>> /\ scheduled' = FALSE
      /\ inFlight' = <<>> /\ quiesce' = Idle /\ poison' = None /\ nextIndex' = 0 /\ nextSched' = 0
      /\ issued' = <<>> /\ status' = "running" /\ log' = log /\ history' = history
      /\ crashes' = crashes + 1 /\ crashes < MaxCrashes
  BY DEF crash
<1>2. history' \in Seq(OpName) /\ crashes' \in 0..MaxCrashes
  BY <1>1, CrashAssumption DEF SInv, Types
<1>3. LogNames'
  BY <1>1 DEF SInv, LogNames
<1>4. Begins'
  BY <1>1, <1>2, <1>3 DEF Begins
<1> QED BY <1>4, FreshSound, PTL

(* Every step keeps what holds of an execution as it stands.               *)
LEMMA InitSound == Init => SInv /\ issued = <<>> /\ history = <<>>
<1> SUFFICES ASSUME Init PROVE SInv /\ issued = <<>> /\ history = <<>>
  OBVIOUS
<1>1. history \in Seq(OpName) /\ crashes \in 0..MaxCrashes
  BY CrashAssumption DEF Init
<1>2. LogNames
  BY DEF Init, LogNames
<1>3. Begins
  BY <1>1, <1>2 DEF Init, Begins
<1> QED BY <1>3, FreshSound DEF Init

LEMMA NextSound ==
  ASSUME SInv, Walked, Next
  PROVE  SInv'
<1>1. ASSUME NEW l \in Lane, \/ spawn(l) \/ step(l) \/ issueHead(l) \/ awaitParked(l)
                             \/ joinAny(l) \/ joinAll(l) \/ endLane(l) \/ unwind(l)
      PROVE  SInv'
  BY <1>1, SpawnSound, StepSound, HeadSound, ParkedSound, JoinAnySound, JoinAllSound, EndLaneSound,
     UnwindSound
<1>2. ASSUME NEW l \in Lane, NEW value \in Outcome, inTurn(l, value) \/ settle(l, value) \/ settleDraining(l, value)
      PROVE  SInv'
  BY <1>2, InTurnSound, SettleSound, DrainingSound
<1>3. ASSUME grantNext \/ quiesceSettled \/ deliverRecorded \/ follow \/ runCompletes \/ runFails
      PROVE  SInv'
  BY <1>3, GrantSound, QuiesceSound, RecordedSound, FollowSound, CompletesSound, FailsSound
<1>4. ASSUME crash \/ \E l \in Lane : endLaneFatal(l) PROVE SInv'
  BY <1>4, CrashSound, FatalSound
<1> QED BY <1>1, <1>2, <1>3, <1>4 DEF Next, Runs

-----------------------------------------------------------------------------
(* Where an execution is, and how it moves.                                *)

LEMMA CoreFields ==
  /\ Core.ended = ended /\ Core.turn = turn /\ Core.runnable = runnable /\ Core.inFlight = inFlight
  /\ Core.nextIndex = nextIndex /\ Core.nextSched = nextSched /\ Core.issued = issued
  /\ Core.asked = (quiesce.phase \in {"recording", "following"})
  /\ Core.lanes = [l \in Lane |-> Bare(lanes[l])]
  /\ \A l \in Lane : Core.lanes[l] = Bare(lanes[l])
BY DEF Core, Stand

LEMMA BareFields ==
  ASSUME NEW lane
  PROVE  /\ Bare(lane).phase = lane.phase /\ Bare(lane).seen = lane.seen /\ Bare(lane).on = lane.on
         /\ Bare(lane).unit = Place(lane.unit)
BY DEF Bare, At

LEMMA PlaceIs ==
  ASSUME NEW unit, unit # None
  PROVE  /\ Place(unit).name = unit.name /\ Place(unit).owned = unit.owned
         /\ Place(unit).index = unit.index /\ Place(unit).id = unit.id
BY DEF Place

LEMMA BareGone ==
  ASSUME NEW lane \in LaneRec, NEW p
  PROVE  Bare([lane EXCEPT !.phase = p]) = Gone(Bare(lane), p)
<1>1. /\ [lane EXCEPT !.phase = p].phase = p /\ [lane EXCEPT !.phase = p].seen = lane.seen
      /\ [lane EXCEPT !.phase = p].on = lane.on /\ [lane EXCEPT !.phase = p].unit = lane.unit
  BY DEF LaneRec
<1> QED BY <1>1, BareFields DEF Bare, Gone

LEMMA BareGiven ==
  ASSUME NEW lane \in LaneRec, NEW x
  PROVE  Bare([lane EXCEPT !.seen = Append(@, x)]) = Given(Bare(lane), x)
<1>1. /\ [lane EXCEPT !.seen = Append(@, x)].phase = lane.phase
      /\ [lane EXCEPT !.seen = Append(@, x)].seen = Append(lane.seen, x)
      /\ [lane EXCEPT !.seen = Append(@, x)].on = lane.on
      /\ [lane EXCEPT !.seen = Append(@, x)].unit = lane.unit
  BY DEF LaneRec
<1> QED BY <1>1, BareFields DEF Bare, Given

LEMMA BareJoining ==
  ASSUME NEW lane \in LaneRec, NEW p, NEW on
  PROVE  Bare([lane EXCEPT !.phase = p, !.on = on]) = At(p, Bare(lane).seen, on, Bare(lane).unit)
<1>1. /\ [lane EXCEPT !.phase = p, !.on = on].phase = p
      /\ [lane EXCEPT !.phase = p, !.on = on].seen = lane.seen
      /\ [lane EXCEPT !.phase = p, !.on = on].on = on
      /\ [lane EXCEPT !.phase = p, !.on = on].unit = lane.unit
  BY DEF LaneRec
<1> QED BY <1>1, BareFields DEF Bare

(* A lane that holds the turn does what its code says.                     *)
LEMMA Commands ==
  ASSUME SInv, NEW l \in Lane, Holds(l)
  PROVE  /\ Live /\ quiesce.phase = "idle" /\ turn = l
         /\ Ready(log, Core) /\ Moved(log, Core) = Commanded(Core, l, Command(l))
<1>1. /\ ~Poisoned /\ turn = l /\ quiesce.phase = "idle" /\ status = "running"
      /\ lanes[l].phase = "running"
  BY AtCode
<1>2. l # None
  BY LaneAssumption
<1>3. /\ Core.turn = l /\ Core.lanes[l].phase = "running" /\ Core.lanes[l].seen = lanes[l].seen
  BY <1>1, CoreFields, BareFields
<1> QED BY <1>1, <1>2, <1>3 DEF Live, Ready, Moved, InTurn, Command

LEMMA OneLane ==
  ASSUME NEW l \in Lane, NEW lane, lanes \in [Lane -> LaneRec], lanes' = [lanes EXCEPT ![l] = lane]
  PROVE  [m \in Lane |-> Bare(lanes'[m])] = Put(Core, l, Bare(lane))
<1>1. \A m \in Lane : Bare(lanes'[m]) = IF m = l THEN Bare(lane) ELSE Core.lanes[m]
  BY CoreFields
<1> QED BY <1>1 DEF Put

LEMMA SpawnMoves ==
  ASSUME SInv, NEW l \in Lane, spawn(l)
  PROVE  Live /\ Live' /\ Moves(log', Core, Core') /\ ~Core'.asked
<1>1. PICK new \in Lane :
        /\ Command(l) = [do |-> "spawn", lane |-> new] /\ Phase(new) = "unborn"
        /\ lanes' = [lanes EXCEPT ![l].seen = Append(@, new), ![new].phase = "queued"]
        /\ runnable' = Append(runnable, Wake(new, FALSE))
  BY DEF spawn
<1>2. /\ Holds(l) /\ ended' = ended /\ turn' = turn /\ inFlight' = inFlight /\ quiesce' = quiesce
      /\ poison' = poison /\ nextIndex' = nextIndex /\ nextSched' = nextSched /\ issued' = issued
      /\ log' = log /\ status' = status
  BY DEF spawn
<1>3. /\ Live /\ quiesce.phase = "idle" /\ turn = l /\ Ready(log, Core)
      /\ Moved(log, Core) = Commanded(Core, l, Command(l))
  BY <1>2, Commands
<1>4. Commanded(Core, l, Command(l)) = Spawned(Core, l, new)
  BY <1>1 DEF Commanded
<1>5. new # l
  BY <1>1, <1>2 DEF Holds, Phase
<1>6. \A m \in Lane : Bare(lanes'[m]) = IF m = new THEN Gone(Core.lanes[m], "queued")
                                         ELSE IF m = l THEN Given(Core.lanes[m], new) ELSE Core.lanes[m]
  <2>1. lanes[l] \in LaneRec /\ lanes[new] \in LaneRec /\ lanes \in [Lane -> LaneRec]
    BY DEF SInv, Types
  <2>2. /\ lanes'[new] = [lanes[new] EXCEPT !.phase = "queued"]
        /\ lanes'[l] = [lanes[l] EXCEPT !.seen = Append(@, new)]
        /\ \A m \in Lane : m # l /\ m # new => lanes'[m] = lanes[m]
    BY <1>1, <1>5, <2>1
  <2>3. Bare(lanes'[new]) = Gone(Bare(lanes[new]), "queued") /\ Bare(lanes'[l]) = Given(Bare(lanes[l]), new)
    BY <2>1, <2>2, BareGone, BareGiven
  <2> QED BY <1>5, <2>2, <2>3, CoreFields
<1>7. [m \in Lane |-> Bare(lanes'[m])] = [m \in Lane |-> IF m = new THEN Gone(Core.lanes[m], "queued")
                                         ELSE IF m = l THEN Given(Core.lanes[m], new) ELSE Core.lanes[m]]
  BY <1>6
<1>8. Core' = Spawned(Core, l, new)
  BY <1>1, <1>2, <1>3, <1>7, CoreFields DEF Core, Spawned, Turned
<1>9. Live' /\ ~Core'.asked
  BY <1>2, <1>3, CoreFields, <1>8 DEF Live, Poisoned, Spawned, Turned, Stand
<1> QED BY <1>2, <1>3, <1>4, <1>8, <1>9 DEF Moves

LEMMA OpPut ==
  ASSUME SInv, NEW l \in Lane, NEW name \in {"step", "wait"} \X Key, NEW owned \in BOOLEAN, NEW p,
         lanes' = [lanes EXCEPT ![l].phase = p, ![l].unit = NewUnit(name, owned)]
  PROVE  [m \in Lane |-> Bare(lanes'[m])] = Put(Core, l, AtOp(Core, Core.lanes[l], p, name, owned))
<1> DEFINE u == NewUnit(name, owned)
           lane == [lanes[l] EXCEPT !.phase = p, !.unit = u]
<1>1. /\ u \in Unit /\ u.index = nextIndex /\ u.id = Len(issued) + 1 /\ u.name = name /\ u.owned = owned
  <2>1. nextIndex \in Nat /\ Len(issued) + 1 \in Nat
    BY DEF SInv, Types
  <2> QED BY <2>1 DEF NewUnit, Unit
<1>2. u # None
  BY <1>1, NoneAssumption
<1> HIDE DEF u
<1>3. lanes \in [Lane -> LaneRec] /\ lanes[l] \in LaneRec
  BY DEF SInv, Types
<1>4. lane.phase = p /\ lane.seen = lanes[l].seen /\ lane.on = lanes[l].on /\ lane.unit = u
  BY <1>3 DEF LaneRec
<1>5. lanes' = [lanes EXCEPT ![l] = lane]
  BY <1>3 DEF u
<1> HIDE DEF lane
<1>6. Place(u) = [name |-> name, owned |-> owned, index |-> Core.nextIndex, id |-> Len(Core.issued) + 1]
  BY <1>1, <1>2, CoreFields DEF Place
<1>7. Bare(lane) = AtOp(Core, Core.lanes[l], p, name, owned)
  BY <1>4, <1>6, CoreFields, BareFields DEF Bare, AtOp
<1> QED BY <1>3, <1>5, <1>7, OneLane

LEMMA StepMoves ==
  ASSUME SInv, NEW l \in Lane, step(l)
  PROVE  /\ Live /\ Live' /\ Moves(log', Core, Core') /\ ~Core'.asked
         /\ \E name \in OpName : Reserve(name)
<1>1. PICK key \in Key :
        Command(l) = [do |-> "step", key |-> key] /\ issue(l, <<"step", key>>, FALSE, "awaiting")
  BY DEF step
<1> DEFINE name == <<"step", key>>
<1>2. name \in {"step", "wait"} \X Key /\ name \in OpName /\ FALSE \in BOOLEAN
  BY DEF OpName
<1>3. /\ Reserve(name) /\ lanes' = [lanes EXCEPT ![l].phase = "awaiting", ![l].unit = NewUnit(name, FALSE)]
      /\ nextIndex' = nextIndex + 1 /\ inFlight' = Append(inFlight, l) /\ issued' = Append(issued, name)
  BY <1>1 DEF issue, NewUnit, Reserve
<1>4. /\ Holds(l) /\ ended' = ended /\ turn' = None /\ runnable' = runnable /\ quiesce' = quiesce
      /\ poison' = poison /\ nextSched' = nextSched /\ log' = log /\ status' = status
  BY DEF step, release
<1>5. /\ Live /\ quiesce.phase = "idle" /\ Ready(log, Core)
      /\ Moved(log, Core) = Commanded(Core, l, Command(l))
  BY <1>4, Commands
<1>6. Commanded(Core, l, Command(l)) = Issued(Core, l, "awaiting", name, FALSE, None)
  BY <1>1 DEF Commanded
<1> HIDE DEF name
<1>7. [m \in Lane |-> Bare(lanes'[m])] = Put(Core, l, AtOp(Core, Core.lanes[l], "awaiting", name, FALSE))
  BY <1>2, <1>3, OpPut
<1>8. Core' = Issued(Core, l, "awaiting", name, FALSE, None)
  BY <1>3, <1>4, <1>5, <1>7, CoreFields DEF Core, Issued
<1>9. Live' /\ ~Core'.asked
  BY <1>4, <1>5, <1>8, CoreFields DEF Live, Poisoned, Issued, Stand
<1> QED BY <1>2, <1>3, <1>4, <1>5, <1>6, <1>8, <1>9 DEF Moves

LEMMA HeadMoves ==
  ASSUME SInv, NEW l \in Lane, issueHead(l)
  PROVE  /\ Live /\ Live' /\ Moves(log', Core, Core') /\ ~Core'.asked
         /\ \E name \in OpName : Reserve(name)
<1>1. PICK key \in Key :
        /\ Command(l) = [do |-> "wait", key |-> key] /\ Reserve(<<"wait", key>>)
        /\ lanes' = [lanes EXCEPT ![l].phase = "head", ![l].unit = NewUnit(<<"wait", key>>, FALSE)]
  BY DEF issueHead, NewUnit
<1>2. <<"wait", key>> \in {"step", "wait"} \X Key /\ <<"wait", key>> \in OpName /\ FALSE \in BOOLEAN
  BY DEF OpName
<1>3. issued' = Append(issued, <<"wait", key>>)
  BY <1>1 DEF Reserve
<1>4. /\ Holds(l) /\ ended' = ended /\ turn' = turn /\ runnable' = runnable /\ quiesce' = quiesce
      /\ inFlight' = inFlight /\ nextIndex' = nextIndex
      /\ poison' = poison /\ nextSched' = nextSched /\ log' = log /\ status' = status
  BY DEF issueHead
<1>5. /\ Live /\ quiesce.phase = "idle" /\ Ready(log, Core) /\ turn = l
      /\ Moved(log, Core) = Commanded(Core, l, Command(l))
  BY <1>4, Commands
<1>6. Commanded(Core, l, Command(l)) = Headed(Core, l, key)
  BY <1>1 DEF Commanded
<1>7. [m \in Lane |-> Bare(lanes'[m])] = Put(Core, l, AtOp(Core, Core.lanes[l], "head", <<"wait", key>>, FALSE))
  BY <1>1, <1>2, OpPut
<1>8. Core' = Headed(Core, l, key)
  BY <1>3, <1>4, <1>5, <1>7, CoreFields DEF Core, Headed
<1>9. Live' /\ ~Core'.asked
  BY <1>4, <1>5, <1>8, CoreFields DEF Live, Poisoned, Headed, Stand
<1> QED BY <1>1, <1>2, <1>4, <1>5, <1>6, <1>8, <1>9 DEF Moves

(* A lane that joins.                                                      *)
LEMMA JoinMoves ==
  ASSUME SInv, NEW l \in Lane, Holds(l), NEW on, Join(l, on), 
         UNCHANGED <<ended, runnable, inFlight, quiesce, poison, nextIndex, nextSched, issued, log, status>>
  PROVE  Live /\ Live' /\ Core' = Joined(Core, l, on) /\ ~Core'.asked
<1>1. /\ Live /\ quiesce.phase = "idle"
  BY Commands
<1>2. lanes \in [Lane -> LaneRec] /\ lanes[l] \in LaneRec
  BY DEF SInv, Types
<1>3. lanes' = [lanes EXCEPT ![l] = [lanes[l] EXCEPT !.phase = "joining", !.on = on]] /\ turn' = None
  BY <1>2 DEF Join, release
<1>4. Bare([lanes[l] EXCEPT !.phase = "joining", !.on = on])
        = At("joining", Core.lanes[l].seen, on, Core.lanes[l].unit)
  <2>1. Core.lanes[l] = Bare(lanes[l])
    BY CoreFields
  <2> QED BY <1>2, <2>1, BareJoining
<1>5. [m \in Lane |-> Bare(lanes'[m])] = Put(Core, l, At("joining", Core.lanes[l].seen, on, Core.lanes[l].unit))
  BY <1>2, <1>3, <1>4, OneLane
<1>6. Core' = Joined(Core, l, on)
  BY <1>1, <1>3, <1>5, CoreFields DEF Core, Joined, Turned
<1>7. Live' /\ ~Core'.asked
  BY <1>1, <1>6, CoreFields DEF Live, Poisoned, Joined, Turned, Stand
<1> QED BY <1>1, <1>6, <1>7

LEMMA HandedMoves ==
  ASSUME SInv, NEW l \in Lane, Holds(l), NEW x, lanes' = [lanes EXCEPT ![l].seen = Append(@, x)], 
         UNCHANGED <<turn, ended, runnable, inFlight, quiesce, poison, nextIndex, nextSched, issued, log, status>>
  PROVE  /\ Live /\ Live' /\ ~Core'.asked
         /\ Core' = Turned(Core, Put(Core, l, Given(Core.lanes[l], x)), l, Core.runnable)
<1>1. /\ Live /\ quiesce.phase = "idle" /\ turn = l
  BY Commands
<1>2. lanes \in [Lane -> LaneRec] /\ lanes[l] \in LaneRec
  BY DEF SInv, Types
<1>3. lanes' = [lanes EXCEPT ![l] = [lanes[l] EXCEPT !.seen = Append(@, x)]]
  BY <1>2
<1>4. Bare([lanes[l] EXCEPT !.seen = Append(@, x)]) = Given(Core.lanes[l], x)
  <2>1. Core.lanes[l] = Bare(lanes[l])
    BY CoreFields
  <2> QED BY <1>2, <2>1, BareGiven
<1>5. [m \in Lane |-> Bare(lanes'[m])] = Put(Core, l, Given(Core.lanes[l], x))
  BY <1>2, <1>3, <1>4, OneLane
<1>6. Core' = Turned(Core, Put(Core, l, Given(Core.lanes[l], x)), l, Core.runnable)
  BY <1>1, <1>5, CoreFields DEF Core, Turned
<1>7. Live' /\ ~Core'.asked
  BY <1>1, <1>6, CoreFields DEF Live, Poisoned, Turned, Stand
<1> QED BY <1>1, <1>6, <1>7

LEMMA JoinAnyMoves ==
  ASSUME SInv, NEW l \in Lane, joinAny(l)
  PROVE  Live /\ Live' /\ Moves(log', Core, Core') /\ ~Core'.asked
<1>1. PICK on \in SUBSET Lane :
        /\ Command(l) = [do |-> "joinAny", on |-> on]
        /\ IF on \cap ToSet(ended) = {} THEN Join(l, on)
           ELSE /\ lanes' = [lanes EXCEPT ![l].seen = Append(@, FirstEnded(on))]
                /\ UNCHANGED <<turn, scheduled>>
  BY DEF joinAny
<1>2. Holds(l) /\ UNCHANGED <<ended, runnable, inFlight, quiesce, poison, nextIndex, nextSched,
                              issued, log, status>>
  BY DEF joinAny
<1>3. Ready(log, Core) /\ Moved(log, Core) = Commanded(Core, l, Command(l)) /\ log' = log
  BY <1>2, Commands
<1>4. CASE on \cap ToSet(ended) = {}
  <2>1. Live /\ Live' /\ Core' = Joined(Core, l, on) /\ ~Core'.asked
    BY <1>1, <1>2, <1>4, JoinMoves
  <2>2. Commanded(Core, l, Command(l)) = Joined(Core, l, on)
    BY <1>1, <1>4, CoreFields DEF Commanded
  <2> QED BY <1>3, <2>1, <2>2 DEF Moves
<1>5. CASE on \cap ToSet(ended) # {}
  <2> DEFINE x == FirstEnded(on)
  <2>1. lanes' = [lanes EXCEPT ![l].seen = Append(@, x)] /\ turn' = turn
    BY <1>1, <1>5
  <2>2. x = FirstOf(Core.ended, on)
    BY CoreFields DEF FirstEnded, FirstOf
  <2> HIDE DEF x
  <2>3. /\ Live /\ Live' /\ ~Core'.asked
        /\ Core' = Turned(Core, Put(Core, l, Given(Core.lanes[l], x)), l, Core.runnable)
    BY <1>2, <2>1, HandedMoves
  <2>4. Commanded(Core, l, Command(l)) = Turned(Core, Put(Core, l, Given(Core.lanes[l], x)), l, Core.runnable)
    BY <1>1, <1>5, <2>2, CoreFields DEF Commanded
  <2> QED BY <1>3, <2>3, <2>4 DEF Moves
<1> QED BY <1>4, <1>5

LEMMA JoinAllMoves ==
  ASSUME SInv, NEW l \in Lane, joinAll(l)
  PROVE  Live /\ Live' /\ Moves(log', Core, Core') /\ ~Core'.asked
<1>1. PICK on \in SUBSET Lane :
        /\ Command(l) = [do |-> "joinAll", on |-> on]
        /\ IF on \ ToSet(ended) # {} THEN Join(l, on \ ToSet(ended))
           ELSE /\ lanes' = [lanes EXCEPT ![l].seen = Append(@, "all")]
                /\ UNCHANGED <<turn, scheduled>>
  BY DEF joinAll
<1>2. Holds(l) /\ UNCHANGED <<ended, runnable, inFlight, quiesce, poison, nextIndex, nextSched,
                              issued, log, status>>
  BY DEF joinAll
<1>3. Ready(log, Core) /\ Moved(log, Core) = Commanded(Core, l, Command(l)) /\ log' = log
  BY <1>2, Commands
<1>4. CASE on \ ToSet(ended) # {}
  <2>1. Live /\ Live' /\ Core' = Joined(Core, l, on \ ToSet(ended)) /\ ~Core'.asked
    BY <1>1, <1>2, <1>4, JoinMoves
  <2>2. Commanded(Core, l, Command(l)) = Joined(Core, l, on \ ToSet(ended))
    BY <1>1, <1>4, CoreFields DEF Commanded
  <2> QED BY <1>3, <2>1, <2>2 DEF Moves
<1>5. CASE on \ ToSet(ended) = {}
  <2>1. lanes' = [lanes EXCEPT ![l].seen = Append(@, "all")] /\ turn' = turn
    BY <1>1, <1>5
  <2>3. /\ Live /\ Live' /\ ~Core'.asked
        /\ Core' = Turned(Core, Put(Core, l, Given(Core.lanes[l], "all")), l, Core.runnable)
    BY <1>2, <2>1, HandedMoves
  <2>4. Commanded(Core, l, Command(l)) = Turned(Core, Put(Core, l, Given(Core.lanes[l], "all")), l, Core.runnable)
    BY <1>1, <1>5, CoreFields DEF Commanded
  <2> QED BY <1>3, <2>3, <2>4 DEF Moves
<1> QED BY <1>4, <1>5

(* Between two operations the lane goes on in its turn.                    *)
LEMMA ParkedMoves ==
  ASSUME SInv, NEW l \in Lane, awaitParked(l), ~Poisoned
  PROVE  Live /\ Live' /\ Moves(log', Core, Core') /\ ~Core'.asked
<1>1. /\ Phase(l) = "parking" /\ ended' = ended /\ runnable' = runnable /\ inFlight' = inFlight
      /\ quiesce' = quiesce /\ poison' = poison /\ nextIndex' = nextIndex /\ nextSched' = nextSched
      /\ issued' = issued /\ log' = log /\ status' = status /\ turn' = None
      /\ lanes' = [lanes EXCEPT ![l].phase = "awaiting"]
  BY DEF awaitParked, release
<1>2. turn = l /\ quiesce.phase = "idle" /\ status = "running" /\ l # None
  BY <1>1, InTurnHolds, LaneAssumption
<1>3. lanes \in [Lane -> LaneRec] /\ lanes[l] \in LaneRec
  BY DEF SInv, Types
<1>4. lanes' = [lanes EXCEPT ![l] = [lanes[l] EXCEPT !.phase = "awaiting"]]
  BY <1>1, <1>3
<1>5. Bare([lanes[l] EXCEPT !.phase = "awaiting"]) = Gone(Core.lanes[l], "awaiting")
  <2>1. Core.lanes[l] = Bare(lanes[l])
    BY CoreFields
  <2> QED BY <1>3, <2>1, BareGone
<1>6. [m \in Lane |-> Bare(lanes'[m])] = Put(Core, l, Gone(Core.lanes[l], "awaiting"))
  BY <1>3, <1>4, <1>5, OneLane
<1>7. Core.turn = l /\ Core.lanes[l].phase = "parking"
  BY <1>1, <1>2, CoreFields, BareFields DEF Phase
<1>8. Ready(log, Core) /\ Moved(log, Core) = Turned(Core, Put(Core, l, Gone(Core.lanes[l], "awaiting")), None, Core.runnable)
  BY <1>2, <1>7 DEF Ready, Moved, InTurn
<1>9. Core' = Turned(Core, Put(Core, l, Gone(Core.lanes[l], "awaiting")), None, Core.runnable)
  BY <1>1, <1>2, <1>6, CoreFields DEF Core, Turned
<1>10. Live /\ Live' /\ ~Core'.asked
  BY <1>1, <1>2, <1>9, CoreFields DEF Live, Poisoned, Turned, Stand
<1> QED BY <1>1, <1>8, <1>9, <1>10 DEF Moves

LEMMA InTurnMoves ==
  ASSUME SInv, NEW l \in Lane, NEW value, inTurn(l, value), ~Poisoned, value \notin Errors
  PROVE  /\ Live /\ Live' /\ Moves(log', Core, Core') /\ ~Core'.asked
         /\ \E name \in OpName : Reserve(name)
<1> DEFINE name == UnitOf(l).name
<1>1. /\ Phase(l) = "head" /\ ended' = ended /\ nextSched' = nextSched /\ status' = status
      /\ issue(l, name, TRUE, "parking") /\ turn' = turn /\ runnable' = runnable
      /\ quiesce' = quiesce /\ poison' = poison
  BY DEF inTurn
<1>2. turn = l /\ quiesce.phase = "idle" /\ status = "running" /\ l # None /\ lanes[l].unit # None
  BY <1>1, InTurnHolds, LaneAssumption
<1>3. name \in {"step", "wait"} \X Key /\ name \in OpName /\ TRUE \in BOOLEAN
  BY <1>2, LaneTyped, UnitTyped DEF OpName, UnitOf
<1>4. Core.turn = l /\ Core.lanes[l].phase = "head" /\ Core.lanes[l].unit.name = name
  BY <1>1, <1>2, CoreFields, BareFields, PlaceIs DEF Phase, UnitOf
<1> HIDE DEF name
<1>5. /\ Reserve(name) /\ lanes' = [lanes EXCEPT ![l].phase = "parking", ![l].unit = NewUnit(name, TRUE)]
      /\ nextIndex' = nextIndex + 1 /\ inFlight' = Append(inFlight, l) /\ issued' = Append(issued, name)
  BY <1>1 DEF issue, NewUnit, Reserve
<1>6. Ready(log', Core) /\ Moved(log', Core) = Issued(Core, l, "parking", name, TRUE, l)
  BY <1>2, <1>4 DEF Ready, Moved, InTurn
<1>7. [m \in Lane |-> Bare(lanes'[m])] = Put(Core, l, AtOp(Core, Core.lanes[l], "parking", name, TRUE))
  BY <1>3, <1>5, OpPut
<1>8. Core' = Issued(Core, l, "parking", name, TRUE, l)
  BY <1>1, <1>2, <1>5, <1>7, CoreFields DEF Core, Issued
<1>9. Live /\ Live' /\ ~Core'.asked
  <2>1. ~Poisoned'
    BY <1>1 DEF Poisoned
  <2> QED BY <1>1, <1>2, <1>8, <2>1, CoreFields DEF Live, Issued, Stand
<1> QED BY <1>3, <1>5, <1>6, <1>8, <1>9 DEF Moves

LEMMA EndMoves ==
  ASSUME SInv, NEW l \in Lane, endLane(l)
  PROVE  Live /\ Live' /\ Moves(log', Core, Core') /\ ~Core'.asked
<1> DEFINE J == Joiners(l)
           woken(j) == [lanes[j] EXCEPT !.phase = "woken", !.on = {},
                          !.seen = IF Command(j).do = "joinAny" THEN Append(@, l) ELSE @]
           me == [lanes[l] EXCEPT !.phase = "ended"]
<1>1. /\ Holds(l) /\ Command(l).do = "end" /\ ended' = Append(ended, l) /\ turn' = None
      /\ runnable' = runnable \o [i \in 1..Cardinality(J) |-> Wake(SetToSeq(J)[i], FALSE)]
      /\ inFlight' = inFlight /\ quiesce' = quiesce /\ poison' = poison /\ nextIndex' = nextIndex
      /\ nextSched' = nextSched /\ issued' = issued /\ log' = log /\ status' = status
  BY DEF endLane, release
<1>2. /\ Live /\ quiesce.phase = "idle" /\ turn = l /\ Ready(log, Core)
      /\ Moved(log, Core) = Commanded(Core, l, Command(l))
  BY <1>1, Commands
<1>3. Commanded(Core, l, Command(l)) = Finished(Core, l)
  BY <1>1 DEF Commanded
<1>4. J = JoinersOf(Core, l)
  <2>1. \A j \in Lane : Core.lanes[j].phase = lanes[j].phase /\ Core.lanes[j].on = lanes[j].on
    BY CoreFields, BareFields
  <2> QED BY <2>1 DEF Joiners, JoinersOf, Phase
<1>5. J \in SUBSET Lane /\ l \notin J
  BY <1>1 DEF Joiners, Phase, Holds
<1>6. lanes \in [Lane -> LaneRec]
  BY DEF SInv, Types
<1>7. /\ lanes'[l] = me /\ \A j \in J : lanes'[j] = woken(j)
      /\ \A m \in Lane : m # l /\ m \notin J => lanes'[m] = lanes[m]
  <2>1. lanes' = [j \in Lane |-> CASE j = l -> me [] j \in J -> woken(j) [] OTHER -> lanes[j]]
    BY DEF endLane
  <2> HIDE DEF J, me, woken
  <2> QED BY <1>5, <2>1
<1>8. Bare(me) = Gone(Core.lanes[l], "ended")
  <2>1. Core.lanes[l] = Bare(lanes[l]) /\ lanes[l] \in LaneRec
    BY <1>6, CoreFields
  <2> QED BY <2>1, BareGone
<1>9. ASSUME NEW j \in J
      PROVE  Bare(woken(j)) = Woken(Core, l, j)
  <2> DEFINE seen == IF Command(j).do = "joinAny" THEN Append(lanes[j].seen, l) ELSE lanes[j].seen
  <2>1. lanes[j] \in LaneRec /\ Core.lanes[j] = Bare(lanes[j])
    BY <1>5, <1>6, CoreFields
  <2>2. woken(j) = [lanes[j] EXCEPT !.phase = "woken", !.on = {}, !.seen = seen]
    OBVIOUS
  <2>3. /\ Core.lanes[j].seen = lanes[j].seen /\ Core.lanes[j].unit = Place(lanes[j].unit)
        /\ Command(j) = Code(j, Core.lanes[j].seen)
    BY <2>1, BareFields DEF Command
  <2>4. Woken(Core, l, j) = At("woken", seen, {}, Place(lanes[j].unit))
    BY <2>3 DEF Woken
  <2> HIDE DEF seen, woken
  <2>5. woken(j).phase = "woken" /\ woken(j).seen = seen /\ woken(j).on = {} /\ woken(j).unit = lanes[j].unit
    BY <2>1, <2>2 DEF LaneRec
  <2> QED BY <2>4, <2>5 DEF Bare
<1> HIDE DEF J, me, woken
<1>10. \A m \in Lane : Bare(lanes'[m]) = IF m = l THEN Gone(Core.lanes[m], "ended")
                                          ELSE IF m \in JoinersOf(Core, l) THEN Woken(Core, l, m) ELSE Core.lanes[m]
  BY <1>4, <1>5, <1>7, <1>8, <1>9, CoreFields
<1>11. [m \in Lane |-> Bare(lanes'[m])]
         = [m \in Lane |-> IF m = l THEN Gone(Core.lanes[m], "ended")
                           ELSE IF m \in JoinersOf(Core, l) THEN Woken(Core, l, m) ELSE Core.lanes[m]]
  BY <1>10
<1>12. Core' = Finished(Core, l)
  BY <1>1, <1>2, <1>4, <1>11, CoreFields DEF Core, Finished
<1>13. Live' /\ ~Core'.asked
  BY <1>1, <1>2, <1>12, CoreFields DEF Live, Poisoned, Finished, Stand
<1> QED BY <1>1, <1>2, <1>3, <1>12, <1>13 DEF Moves

(* The turn is granted, and a lane reads what is on record for it.         *)
LEMMA GrantMoves ==
  ASSUME SInv, grantNext, runnable # <<>>
  PROVE  Live /\ Live' /\ Moves(log', Core, Core') /\ ~Core'.asked
<1> DEFINE w == Head(runnable)
           l == w.lane
           lane == IF w.completed THEN hand(lanes[l]) ELSE [lanes[l] EXCEPT !.phase = "running"]
<1>1. /\ scheduled /\ ~Poisoned /\ turn = None
      /\ ended' = ended /\ inFlight' = inFlight /\ poison' = poison /\ nextIndex' = nextIndex
      /\ nextSched' = nextSched /\ issued' = issued /\ log' = log /\ status' = status
      /\ turn' = l /\ runnable' = Tail(runnable) /\ quiesce' = quiesce
      /\ lanes' = [lanes EXCEPT ![l] = lane]
  BY DEF grantNext
<1>2. lanes \in [Lane -> LaneRec] /\ runnable \in Seq(Wakes)
  BY DEF SInv, Types
<1>3. w = runnable[1] /\ w \in Wakes /\ 1 \in DOMAIN runnable
  BY <1>2, TailIs
<1>4. l \in Lane /\ WakeSound(w, lanes[l], ToSet(inFlight))
  BY <1>3 DEF Wakes, SInv, Waking, WakesSound
<1>5. lanes[l] \in LaneRec /\ LaneSound(lanes[l], issued, log) /\ Core.lanes[l] = Bare(lanes[l])
  BY <1>4, LaneTyped, CoreFields
<1>6. quiesce.phase = "idle" /\ status = "running"
  BY <1>1 DEF SInv, Quiescing, Over, Types
<1> DEFINE bare == IF w.completed
                   THEN At("running", Append(Core.lanes[l].seen, log[Core.lanes[l].unit.id].value),
                           Core.lanes[l].on, None)
                   ELSE Gone(Core.lanes[l], "running")
<1>7. Bare(lane) = bare /\ (w.completed => Core.lanes[l].unit.id \in DOMAIN log)
  <2>1. CASE w.completed
    <3>1. lanes[l].unit # None /\ lanes[l].unit.outcome # None
      BY <1>4, <1>5, <2>1 DEF WakeSound, LaneSound
    <3>2. lanes[l].unit.outcome \notin Errors
      BY <1>1, <1>4, <3>1 DEF SInv, ErrorsFail, UnitOf
    <3>3. lanes[l].unit.id \in DOMAIN log /\ log[lanes[l].unit.id].value = lanes[l].unit.outcome
      BY <1>5, <3>1, <3>2 DEF LaneSound
    <3>4. /\ hand(lanes[l]).phase = "running" /\ hand(lanes[l]).unit = None
          /\ hand(lanes[l]).on = lanes[l].on
          /\ hand(lanes[l]).seen = Append(lanes[l].seen, lanes[l].unit.outcome)
      BY <1>5, <3>1, HandSound
    <3>5. Bare(hand(lanes[l])) = At("running", Append(lanes[l].seen, lanes[l].unit.outcome), lanes[l].on, None)
      BY <3>4 DEF Bare, Place
    <3>6. /\ Core.lanes[l].seen = lanes[l].seen /\ Core.lanes[l].on = lanes[l].on
          /\ Core.lanes[l].unit.id = lanes[l].unit.id
      BY <1>5, <3>1, BareFields, PlaceIs
    <3> QED BY <2>1, <3>3, <3>5, <3>6
  <2>2. CASE ~w.completed
    <3>1. lane = [lanes[l] EXCEPT !.phase = "running"] /\ bare = Gone(Core.lanes[l], "running")
      BY <2>2
    <3> QED BY <1>5, <2>2, <3>1, BareGone
  <2> QED BY <2>1, <2>2
<1>8. Core.turn = None /\ Core.runnable = runnable
  BY <1>1, CoreFields
<1>9. Ready(log, Core)
  BY <1>7, <1>8 DEF Ready
<1>10. Moved(log, Core) = Turned(Core, Put(Core, l, bare), l, Tail(Core.runnable))
  BY <1>8 DEF Moved, Granted
<1> HIDE DEF w, l, lane, bare
<1>11. [m \in Lane |-> Bare(lanes'[m])] = Put(Core, l, bare)
  BY <1>1, <1>2, <1>4, <1>7, OneLane
<1>12. Core' = Turned(Core, Put(Core, l, bare), l, Tail(Core.runnable))
  BY <1>1, <1>6, <1>11, CoreFields DEF Core, Turned
<1>13. Live /\ Live' /\ ~Core'.asked
  BY <1>1, <1>6, <1>12, CoreFields DEF Live, Poisoned, Turned, Stand
<1> QED BY <1>1, <1>9, <1>10, <1>12, <1>13 DEF Moves

(* Nobody can run: what has settled is delivered.                          *)
LEMMA DeliverMoves ==
  ASSUME SInv, NEW S, deliver(S), ~Poisoned, quiesce.phase # "idle", NEW T,
         Only(Core.inFlight, T) = InOrder(S), Only(Core.inFlight, ToSet(Core.inFlight) \ T) = Rest(S),
         UNCHANGED <<lanes, ended, turn, poison, nextIndex, nextSched, issued, log, status>>
  PROVE  Live /\ Live' /\ Core' = Delivered(Core, T) /\ ~Core'.asked
<1>1. /\ inFlight' = Rest(S) /\ quiesce' = Idle
      /\ runnable' = runnable \o [i \in DOMAIN InOrder(S) |-> Wake(InOrder(S)[i], TRUE)]
  BY DEF deliver
<1>2. turn = None /\ status = "running"
  BY DEF SInv, Quiescing, Over, Types
<1>3. lanes' = lanes /\ Idle.phase = "idle"
  BY DEF Idle
<1>4. Core' = Delivered(Core, T)
  <2>1. runnable' = runnable \o WakesOf(InOrder(S), TRUE)
    BY <1>1 DEF WakesOf
  <2>2. Delivered(Core, T)
          = Stand(Core.lanes, Core.ended, None, Core.runnable \o WakesOf(Only(Core.inFlight, T), TRUE),
                  Only(Core.inFlight, ToSet(Core.inFlight) \ T), Core.nextIndex, Core.nextSched, Core.issued, FALSE)
    BY DEF Delivered, WakesOf
  <2>3. Delivered(Core, T)
          = Stand([l \in Lane |-> Bare(lanes[l])], ended, None, runnable \o WakesOf(InOrder(S), TRUE),
                  Rest(S), nextIndex, nextSched, issued, FALSE)
    BY <2>2, CoreFields
  <2>4. /\ (quiesce'.phase \in {"recording", "following"}) = FALSE
        /\ [l \in Lane |-> Bare(lanes'[l])] = [l \in Lane |-> Bare(lanes[l])]
    BY <1>1, <1>3
  <2>5. Core' = Stand([l \in Lane |-> Bare(lanes[l])], ended, None, runnable \o WakesOf(InOrder(S), TRUE),
                      Rest(S), nextIndex, nextSched, issued, FALSE)
    <3>1. /\ ended' = ended /\ turn' = None /\ inFlight' = Rest(S) /\ nextIndex' = nextIndex
          /\ nextSched' = nextSched /\ issued' = issued
      BY <1>1, <1>2
    <3> QED BY <2>1, <2>4, <3>1 DEF Core
  <2> QED BY <2>3, <2>5
<1>5. Live /\ Live'
  BY <1>2 DEF Live, Poisoned
<1>6. ~Core'.asked
  BY <1>4 DEF Delivered, Stand
<1> QED BY <1>4, <1>5, <1>6

NamesOf(c) == [i \in DOMAIN c.inFlight |-> c.lanes[c.inFlight[i]].unit.name]
IndexesOf(c) == {c.lanes[l].unit.index : l \in ToSet(c.inFlight)}

LEMMA CoreNames ==
  ASSUME SInv
  PROVE  NamesOf(Core) = Names(inFlight) /\ IndexesOf(Core) = Indexes(ToSet(inFlight))
<1>1. /\ \A l \in ToSet(inFlight) : l \in Lane /\ lanes[l].unit # None
      /\ \A i \in DOMAIN inFlight : inFlight[i] \in ToSet(inFlight)
  BY InFlightTyped DEF ToSet
<1>2. \A l \in ToSet(inFlight) : Core.lanes[l].unit = Place(lanes[l].unit)
  BY <1>1, CoreFields, BareFields
<1>3. \A l \in ToSet(inFlight) : /\ Core.lanes[l].unit.name = lanes[l].unit.name
                                /\ Core.lanes[l].unit.index = lanes[l].unit.index
  BY <1>1, <1>2, PlaceIs
<1>4. Core.inFlight = inFlight
  BY CoreFields
<1>5. NamesOf(Core) = Names(inFlight)
  BY <1>1, <1>3, <1>4 DEF NamesOf, Names, UnitOf
<1>6. IndexesOf(Core) = Indexes(ToSet(inFlight))
  BY <1>3, <1>4 DEF IndexesOf, Indexes, UnitOf
<1> QED BY <1>5, <1>6

(* What the sequencer asks to be put on record is what it waits for.       *)
Fits(q, c) ==
  c.asked /\ q.id = Len(c.issued) /\ q.pending = NamesOf(c) /\ q.chosen \subseteq IndexesOf(c)

LEMMA QuiesceMoves ==
  ASSUME SInv, quiesceSettled
  PROVE  /\ Live /\ Live' /\ Moves(log', Core, Core')
         /\ \/ issued' = issued /\ history' = history /\ ~Core'.asked
            \/ /\ Core'.asked /\ Fits(quiesce', Core')
               /\ \E n \in Nat : Reserve(<<"sched", n>>)
<1>1. /\ quiesce.phase = "watching" /\ Settled # {} /\ UNCHANGED <<lanes, ended, turn, poison, log>>
      /\ nextIndex' = nextIndex /\ status' = status
  BY DEF quiesceSettled
<1>2. ~Poisoned /\ turn = None /\ runnable = <<>> /\ status = "running"
  BY <1>1 DEF SInv, Quiescing, Over, Types
<1>3. /\ Core.turn = None /\ Core.runnable = <<>> /\ ~Core.asked /\ Core.inFlight = inFlight
      /\ Core.nextSched = nextSched /\ Core.issued = issued
  BY <1>1, <1>2, CoreFields
<1>4. Ready(log, Core) /\ Moved(log, Core) = IF Len(Core.inFlight) = 1 THEN Delivered(Core, ToSet(Core.inFlight)) ELSE Asked(Core)
  BY <1>3 DEF Ready, Moved
<1>5. CASE Len(inFlight) = 1
  <2>1. deliver(Settled) /\ nextSched' = nextSched /\ issued' = issued /\ history' = history
    BY <1>5 DEF quiesceSettled
  <2>2. Settled = ToSet(inFlight)
    <3>1. inFlight \in Seq(Lane) /\ DOMAIN inFlight = 1..1
      BY <1>5 DEF SInv, Types
    <3>2. ToSet(inFlight) = {inFlight[1]}
      BY <3>1 DEF ToSet
    <3>3. Settled \subseteq ToSet(inFlight)
      BY DEF Settled
    <3> QED BY <1>1, <3>2, <3>3
  <2> DEFINE T == ToSet(inFlight)
  <2>3. /\ Only(Core.inFlight, T) = InOrder(Settled)
        /\ Only(Core.inFlight, ToSet(Core.inFlight) \ T) = Rest(Settled)
    BY <1>3, <2>2 DEF InOrder, Rest
  <2> HIDE DEF T
  <2>4. quiesce.phase # "idle"
    BY <1>1
  <2>5. Live /\ Live' /\ Core' = Delivered(Core, T) /\ ~Core'.asked
    BY <1>1, <1>2, <2>1, <2>3, <2>4, DeliverMoves
  <2>6. Moved(log', Core) = Delivered(Core, T)
    BY <1>1, <1>3, <1>4, <1>5 DEF T
  <2> QED BY <1>1, <1>4, <2>1, <2>5, <2>6 DEF Moves
<1>6. CASE Len(inFlight) # 1
  <2> DEFINE name == <<"sched", nextSched>>
             q == [phase |-> "recording", id |-> Len(issued) + 1,
                   pending |-> Names(inFlight), chosen |-> Indexes(Settled)]
  <2>1. /\ Reserve(name) /\ nextSched' = nextSched + 1 /\ quiesce' = q
        /\ inFlight' = inFlight /\ runnable' = runnable
    BY <1>6 DEF quiesceSettled
  <2>2. nextSched \in Nat /\ issued \in Seq(OpName) /\ name \in OpName
    BY DEF SInv, Types, OpName
  <2>3. q.phase = "recording" /\ q.id = Len(issued) + 1 /\ q.pending = Names(inFlight) /\ q.chosen = Indexes(Settled)
    OBVIOUS
  <2>4. issued' = Append(issued, name) /\ lanes' = lanes
    BY <1>1, <2>1 DEF Reserve
  <2>5. name = <<"sched", Core.nextSched>>
    BY <1>3
  <2> HIDE DEF q, name
  <2>6. Core' = Asked(Core)
    BY <1>1, <1>2, <2>1, <2>3, <2>4, <2>5, CoreFields DEF Core, Asked
  <2>7. Live /\ Live'
    BY <1>1, <1>2 DEF Live, Poisoned
  <2>8. /\ Core'.asked /\ Core'.issued = issued'
        /\ Core'.inFlight = Core.inFlight /\ Core'.lanes = Core.lanes
    BY <1>3, <2>4, <2>5, <2>6 DEF Asked, Stand
  <2>9. NamesOf(Core') = Names(inFlight) /\ IndexesOf(Core') = Indexes(ToSet(inFlight))
    <3>1. NamesOf(Core') = NamesOf(Core) /\ IndexesOf(Core') = IndexesOf(Core)
      BY <2>8 DEF NamesOf, IndexesOf
    <3> QED BY <3>1, CoreNames
  <2>10. Len(issued') = Len(issued) + 1
    BY <2>2, <2>4
  <2>11. Indexes(Settled) \subseteq Indexes(ToSet(inFlight))
    BY DEF Indexes, Settled
  <2>12. Fits(quiesce', Core')
    BY <2>1, <2>3, <2>8, <2>9, <2>10, <2>11 DEF Fits
  <2>13. Moved(log', Core) = Asked(Core) /\ Ready(log', Core)
    BY <1>1, <1>3, <1>4, <1>6
  <2> QED BY <2>1, <2>2, <2>6, <2>7, <2>8, <2>12, <2>13 DEF Moves, name
<1> QED BY <1>5, <1>6

LEMMA FollowMoves ==
  ASSUME SInv, follow
  PROVE  Live /\ Live' /\ Moves(log', Core, Core') /\ ~Core'.asked
<1> DEFINE S == {l \in Settled : UnitOf(l).index \in quiesce.chosen}
           T == Chosen(log, Core)
<1>1. /\ quiesce.phase = "following" /\ deliver(S) /\ quiesce.chosen \subseteq Indexes(Settled)
      /\ UNCHANGED <<lanes, ended, turn, poison, nextIndex, nextSched, issued, log, status>>
  BY DEF follow
<1>2. /\ ~Poisoned /\ turn = None /\ runnable = <<>> /\ quiesce.id = Len(issued)
      /\ quiesce.id \in DOMAIN log /\ quiesce.chosen = log[quiesce.id].settled
  BY <1>1 DEF SInv, Quiescing
<1>3. /\ Core.turn = None /\ Core.runnable = <<>> /\ Core.asked /\ Core.inFlight = inFlight
      /\ Core.issued = issued
  BY <1>1, <1>2, CoreFields
<1>4. Ready(log, Core) /\ Moved(log, Core) = Delivered(Core, T)
  BY <1>2, <1>3 DEF Ready, Moved
<1>5. T = S
  <2>1. \A l \in ToSet(inFlight) : Core.lanes[l].unit.index = lanes[l].unit.index
    <3>1. \A l \in ToSet(inFlight) : l \in Lane /\ lanes[l].unit # None
      BY InFlightTyped
    <3> QED BY <3>1, CoreFields, BareFields, PlaceIs
  <2>2. T = {l \in ToSet(inFlight) : lanes[l].unit.index \in quiesce.chosen}
    BY <1>2, <1>3, <2>1 DEF Chosen
  <2>3. Settled \subseteq ToSet(inFlight)
    BY DEF Settled
  <2>4. ASSUME NEW l \in ToSet(inFlight), lanes[l].unit.index \in quiesce.chosen
        PROVE  l \in Settled
    <3>1. PICK m \in Settled : lanes[m].unit.index = lanes[l].unit.index
      BY <1>1, <2>4 DEF Indexes, UnitOf
    <3>2. l = m
      BY <2>3, <3>1 DEF SInv, Flying, UnitOf
    <3> QED BY <3>1, <3>2
  <2> QED BY <2>2, <2>3, <2>4 DEF UnitOf
<1>6. /\ Only(Core.inFlight, T) = InOrder(S)
      /\ Only(Core.inFlight, ToSet(Core.inFlight) \ T) = Rest(S)
  BY <1>3, <1>5 DEF InOrder, Rest
<1> HIDE DEF S, T
<1>7. quiesce.phase # "idle"
  BY <1>1
<1>8. Live /\ Live' /\ Core' = Delivered(Core, T) /\ ~Core'.asked
  BY <1>1, <1>2, <1>6, <1>7, DeliverMoves
<1> QED BY <1>1, <1>4, <1>8 DEF Moves

-----------------------------------------------------------------------------
(* What a step does to where the execution is, and to what is on record.   *)

(* It stays where it is, or the run is over or has failed.                 *)
Stays ==
  /\ issued' = issued /\ history' = history
  /\ Live' => Live /\ Core' = Core
  /\ quiesce'.phase = "recording" => quiesce' = quiesce

(* It goes on from where it is.                                            *)
Goes ==
  /\ Live /\ Live' /\ Moves(log', Core, Core')
  /\ (issued' = issued /\ history' = history) \/ \E name \in OpName : Reserve(name)
  /\ Core'.asked => Fits(quiesce', Core') /\ \E n \in Nat : Reserve(<<"sched", n>>)

(* An operation is put on record.                                          *)
Answered(lg, lg2, iss) ==
  lg2 = lg \/ \E id \in DOMAIN iss : /\ iss[id] \in {"step", "wait"} \X Key /\ Longer(lg, lg2)
                                     /\ DOMAIN lg2 \subseteq DOMAIN lg \cup {id}

(* What the sequencer decided is.                                          *)
Decided(lg, lg2, q) ==
  /\ q.phase = "recording" /\ Longer(lg, lg2) /\ DOMAIN lg2 \subseteq DOMAIN lg \cup {q.id}
  /\ q.id \notin DOMAIN lg => lg2[q.id].inFlight = q.pending /\ lg2[q.id].settled = q.chosen

Logs == Answered(log, log', issued) \/ Decided(log, log', quiesce)

LEMMA SettlesLogs ==
  ASSUME SInv, Walked, NEW l \in Lane, lanes[l].unit # None, NEW value, SettlesTo(UnitOf(l), value)
  PROVE  Logs
<1> DEFINE id == lanes[l].unit.id
<1>1. Longer(log, log') /\ DOMAIN log' \subseteq DOMAIN log \cup {id}
  BY SettlesSound
<1>2. id \in DOMAIN issued /\ issued[id] = lanes[l].unit.name
  BY LaneTyped DEF LaneSound
<1>3. lanes[l].unit.name \in {"step", "wait"} \X Key
  BY LaneTyped, UnitTyped
<1> HIDE DEF id
<1> QED BY <1>1, <1>2, <1>3 DEF Logs, Answered

LEMMA FailStays ==
  ASSUME NEW error \in Faults, NEW as, fail(error, as), issued' = issued, history' = history
  PROVE  Stays
<1>1. poison' # None /\ (quiesce'.phase = "recording" => quiesce' = quiesce)
  BY NoneAssumption DEF fail, Outcome, Errors, Idle
<1> QED BY <1>1 DEF Stays, Live, Poisoned

LEMMA PoisonedStays ==
  ASSUME Poisoned, issued' = issued, history' = history, poison' = poison, quiesce' = quiesce
  PROVE  Stays
BY DEF Stays, Live, Poisoned

LEMMA GoesOn ==
  ASSUME Live, Live', Moves(log', Core, Core'), ~Core'.asked,
         (issued' = issued /\ history' = history) \/ \E name \in OpName : Reserve(name), log' = log
  PROVE  Goes /\ Logs
BY DEF Goes, Logs, Answered

LEMMA CodeSteps ==
  ASSUME SInv, Walked, NEW l \in Lane,
         \/ spawn(l) \/ step(l) \/ issueHead(l) \/ awaitParked(l)
         \/ joinAny(l) \/ joinAll(l) \/ endLane(l) \/ unwind(l)
  PROVE  (Stays \/ Goes) /\ Logs
<1>1. CASE spawn(l)
  <2>1. issued' = issued /\ history' = history /\ log' = log
    BY <1>1 DEF spawn
  <2> QED BY <1>1, <2>1, SpawnMoves, GoesOn
<1>2. CASE step(l)
  <2>1. log' = log
    BY <1>2 DEF step
  <2> QED BY <1>2, <2>1, StepMoves, GoesOn
<1>3. CASE issueHead(l)
  <2>1. log' = log
    BY <1>3 DEF issueHead
  <2> QED BY <1>3, <2>1, HeadMoves, GoesOn
<1>4. CASE awaitParked(l)
  <2>1. issued' = issued /\ history' = history /\ log' = log /\ poison' = poison /\ quiesce' = quiesce
    BY <1>4 DEF awaitParked
  <2>2. CASE Poisoned
    BY <2>1, <2>2, PoisonedStays DEF Logs, Answered
  <2>3. CASE ~Poisoned
    BY <1>4, <2>1, <2>3, ParkedMoves, GoesOn
  <2> QED BY <2>2, <2>3
<1>5. CASE joinAny(l)
  <2>1. issued' = issued /\ history' = history /\ log' = log
    BY <1>5 DEF joinAny
  <2> QED BY <1>5, <2>1, JoinAnyMoves, GoesOn
<1>6. CASE joinAll(l)
  <2>1. issued' = issued /\ history' = history /\ log' = log
    BY <1>6 DEF joinAll
  <2> QED BY <1>6, <2>1, JoinAllMoves, GoesOn
<1>7. CASE endLane(l)
  <2>1. issued' = issued /\ history' = history /\ log' = log
    BY <1>7 DEF endLane
  <2> QED BY <1>7, <2>1, EndMoves, GoesOn
<1>8. CASE unwind(l)
  <2>1. Poisoned /\ issued' = issued /\ history' = history /\ log' = log /\ poison' = poison /\ quiesce' = quiesce
    BY <1>8 DEF unwind
  <2> QED BY <2>1, PoisonedStays DEF Logs, Answered
<1> QED BY <1>1, <1>2, <1>3, <1>4, <1>5, <1>6, <1>7, <1>8

LEMMA InTurnSteps ==
  ASSUME SInv, Walked, NEW l \in Lane, NEW value, inTurn(l, value)
  PROVE  (Stays \/ Goes) /\ Logs
<1>1. Phase(l) = "head" /\ SettlesTo(UnitOf(l), value)
  BY DEF inTurn
<1>2. lanes[l].unit # None
  BY <1>1, LaneTyped DEF LaneSound, Phase
<1>3. Logs
  BY <1>1, <1>2, SettlesLogs
<1>4. CASE Poisoned
  <2>1. issued' = issued /\ history' = history /\ poison' = poison /\ quiesce' = quiesce
    BY <1>4 DEF inTurn
  <2> QED BY <1>3, <1>4, <2>1, PoisonedStays
<1>5. CASE ~Poisoned /\ value \in Errors
  <2>1. fail(Fault(value), [lanes EXCEPT ![l] = GiveUp(@)]) /\ issued' = issued /\ history' = history
    BY <1>5 DEF inTurn
  <2>2. Fault(value) \in Faults
    BY DEF Fault, Faults
  <2> QED BY <1>3, <2>1, <2>2, FailStays
<1>6. CASE ~Poisoned /\ value \notin Errors
  BY <1>3, <1>6, InTurnMoves DEF Goes
<1> QED BY <1>4, <1>5, <1>6

LEMMA SettleSteps ==
  ASSUME SInv, Walked, NEW l \in Lane, NEW value, settle(l, value)
  PROVE  Stays /\ Logs
<1> DEFINE as == [lanes EXCEPT ![l].unit.outcome = value]
<1>1. /\ ~Poisoned /\ l \in ToSet(inFlight) /\ SettlesTo(UnitOf(l), value)
      /\ ended' = ended /\ nextIndex' = nextIndex /\ nextSched' = nextSched
      /\ issued' = issued /\ history' = history /\ status' = status
      /\ IF value \in Errors THEN fail(Fault(value), as)
         ELSE lanes' = as /\ UNCHANGED <<turn, runnable, scheduled, inFlight, quiesce, poison>>
  BY DEF settle
<1>2. lanes[l].unit # None
  BY <1>1, InFlightTyped
<1>3. Logs
  BY <1>1, <1>2, SettlesLogs
<1>4. CASE value \in Errors
  <2>1. Fault(value) \in Faults
    BY DEF Fault, Faults
  <2> HIDE DEF as
  <2> QED BY <1>1, <1>3, <1>4, <2>1, FailStays
<1>5. CASE value \notin Errors
  <2>1. lanes' = as /\ turn' = turn /\ runnable' = runnable /\ inFlight' = inFlight /\ quiesce' = quiesce
        /\ poison' = poison
    BY <1>1, <1>5
  <2>2. lanes \in [Lane -> LaneRec] /\ lanes[l] \in LaneRec /\ lanes[l].unit \in Unit
    BY <1>2 DEF SInv, Types, LaneRec
  <2> DEFINE u == [lanes[l].unit EXCEPT !.outcome = value]
             lane == [lanes[l] EXCEPT !.unit = u]
  <2>3. lanes' = [lanes EXCEPT ![l] = lane]
    BY <2>1, <2>2 
  <2>4. u.name = lanes[l].unit.name /\ u.owned = lanes[l].unit.owned /\ u.index = lanes[l].unit.index
        /\ u.id = lanes[l].unit.id
    BY <2>2 DEF Unit
  <2>5. value \in Outcome
    BY <1>1, <1>2, SettlesSound
  <2>6. u # None
    <3>1. u \in Unit
      BY <2>2, <2>5 DEF Unit
    <3> HIDE DEF u
    <3> QED BY <3>1, NoneAssumption
  <2> HIDE DEF as, u
  <2>7. Place(u) = Place(lanes[l].unit)
    BY <1>2, <2>4, <2>6 DEF Place
  <2>8. /\ lane.phase = lanes[l].phase /\ lane.seen = lanes[l].seen /\ lane.on = lanes[l].on
        /\ lane.unit = u
    BY <2>2 DEF LaneRec
  <2> HIDE DEF lane
  <2>9. Bare(lane) = Bare(lanes[l])
    BY <2>7, <2>8 DEF Bare
  <2>10. \A m \in Lane : Bare(lanes'[m]) = Bare(lanes[m])
    BY <2>2, <2>3, <2>9
  <2>11. [m \in Lane |-> Bare(lanes'[m])] = [m \in Lane |-> Bare(lanes[m])]
    BY <2>10
  <2>12. Core' = Core
    BY <1>1, <2>1, <2>11 DEF Core
  <2> QED BY <1>1, <1>3, <2>1, <2>12 DEF Stays, Live, Poisoned
<1> QED BY <1>4, <1>5

LEMMA RecordedSteps ==
  ASSUME SInv, Walked, deliverRecorded
  PROVE  Stays /\ Logs
<1>1. /\ quiesce.phase = "recording"
      /\ ended' = ended /\ nextIndex' = nextIndex /\ nextSched' = nextSched /\ issued' = issued
      /\ status' = status /\ history' = history
  BY DEF deliverRecorded
<1>2. Logs
  <2>1. /\ Longer(log, log') /\ DOMAIN log' \subseteq DOMAIN log \cup {quiesce.id}
        /\ log'[quiesce.id] = Decision(quiesce.id)
    BY DecisionSound
  <2>2. ASSUME quiesce.id \notin DOMAIN log
        PROVE  log'[quiesce.id].inFlight = quiesce.pending /\ log'[quiesce.id].settled = quiesce.chosen
    BY <2>1, <2>2 DEF Decision, Recorded, Entry
  <2> QED BY <1>1, <2>1, <2>2 DEF Logs, Decided
<1>3. CASE Poisoned
  <2>1. quiesce' = Idle /\ poison' = poison
    BY <1>3 DEF deliverRecorded
  <2> QED BY <1>1, <1>2, <1>3, <2>1 DEF Stays, Live, Poisoned, Idle
<1>4. CASE ~Poisoned /\ FollowsRecord(Decision(quiesce.id))
  <2>1. /\ quiesce' = [quiesce EXCEPT !.phase = "following", !.chosen = Decision(quiesce.id).settled]
        /\ lanes' = lanes /\ turn' = turn /\ runnable' = runnable /\ inFlight' = inFlight /\ poison' = poison
    BY <1>4 DEF deliverRecorded
  <2>2. quiesce'.phase = "following"
    BY <2>1 DEF SInv, Types, Quiesces
  <2>3. Core' = Core
    <3>1. (quiesce'.phase \in {"recording", "following"}) = (quiesce.phase \in {"recording", "following"})
      BY <1>1, <2>2
    <3>2. [m \in Lane |-> Bare(lanes'[m])] = [m \in Lane |-> Bare(lanes[m])]
      BY <2>1
    <3> QED BY <1>1, <2>1, <3>1, <3>2 DEF Core
  <2> QED BY <1>1, <1>2, <2>1, <2>2, <2>3 DEF Stays, Live, Poisoned
<1>5. CASE ~Poisoned /\ ~FollowsRecord(Decision(quiesce.id))
  <2>1. fail("diverged", lanes)
    BY <1>5 DEF deliverRecorded
  <2> QED BY <1>1, <1>2, <2>1, FailStays DEF Faults
<1> QED BY <1>3, <1>4, <1>5

LEMMA SequencerSteps ==
  ASSUME SInv, Walked, grantNext \/ quiesceSettled \/ follow
  PROVE  (Stays \/ Goes) /\ Logs
<1>1. log' = log
  BY DEF grantNext, quiesceSettled, follow
<1>2. CASE grantNext /\ runnable # <<>>
  <2>1. issued' = issued /\ history' = history
    BY <1>2 DEF grantNext
  <2> QED BY <1>1, <1>2, <2>1, GrantMoves, GoesOn
<1>3. CASE grantNext /\ runnable = <<>>
  <2>1. /\ quiesce.phase = "idle" /\ quiesce' = [Idle EXCEPT !.phase = "watching"]
        /\ lanes' = lanes /\ ended' = ended /\ turn' = turn /\ runnable' = runnable /\ inFlight' = inFlight
        /\ nextIndex' = nextIndex /\ nextSched' = nextSched /\ issued' = issued /\ poison' = poison
        /\ history' = history /\ status' = status
    BY <1>3 DEF grantNext
  <2>2. quiesce'.phase = "watching"
    BY <2>1 DEF Idle
  <2>3. Core' = Core
    <3>1. (quiesce'.phase \in {"recording", "following"}) = (quiesce.phase \in {"recording", "following"})
      BY <2>1, <2>2
    <3>2. [m \in Lane |-> Bare(lanes'[m])] = [m \in Lane |-> Bare(lanes[m])]
      BY <2>1
    <3> QED BY <2>1, <3>1, <3>2 DEF Core
  <2> QED BY <1>1, <2>1, <2>2, <2>3 DEF Stays, Live, Poisoned, Logs, Answered
<1>4. CASE quiesceSettled
  <2>1. Live /\ Live' /\ Moves(log', Core, Core')
    BY <1>4, QuiesceMoves
  <2>2. CASE issued' = issued /\ history' = history /\ ~Core'.asked
    BY <1>1, <2>1, <2>2 DEF Goes, Logs, Answered
  <2>3. CASE Core'.asked /\ Fits(quiesce', Core') /\ \E n \in Nat : Reserve(<<"sched", n>>)
    <3>1. \A n \in Nat : <<"sched", n>> \in OpName
      BY DEF OpName
    <3>2. \E name \in OpName : Reserve(name)
      BY <2>3, <3>1
    <3> QED BY <1>1, <2>1, <2>3, <3>2 DEF Goes, Logs, Answered
  <2> QED BY <1>4, <2>2, <2>3, QuiesceMoves
<1>5. CASE follow
  <2>1. issued' = issued /\ history' = history
    BY <1>5 DEF follow
  <2> QED BY <1>1, <1>5, <2>1, FollowMoves, GoesOn
<1> QED BY <1>2, <1>3, <1>4, <1>5

LEMMA LastSteps ==
  ASSUME SInv, runCompletes \/ runFails \/ \E l \in Lane : endLaneFatal(l)
  PROVE  Stays /\ Logs
<1>1. CASE runCompletes
  <2> DEFINE as == [lanes EXCEPT ![Root].phase = "ended"]
  <2>1. /\ issued' = issued /\ history' = history /\ log' = log
        /\ \/ status' = "completed" /\ quiesce' = quiesce
           \/ fail("unfinished", as)
    BY <1>1 DEF runCompletes
  <2> HIDE DEF as
  <2>2. CASE status' = "completed" /\ quiesce' = quiesce
    BY <2>1, <2>2 DEF Stays, Live, Logs, Answered
  <2>3. CASE fail("unfinished", as)
    BY <2>1, <2>3, FailStays DEF Faults, Logs, Answered
  <2> QED BY <2>1, <2>2, <2>3
<1>2. CASE runFails
  <2>1. /\ issued' = issued /\ history' = history /\ log' = log /\ quiesce' = quiesce /\ status' = "failed"
    BY <1>2 DEF runFails, engine
  <2> QED BY <2>1 DEF Stays, Live, Logs, Answered
<1>3. ASSUME NEW l \in Lane, endLaneFatal(l) PROVE Stays /\ Logs
  <2> DEFINE as == [lanes EXCEPT ![l].phase = "ended"]
  <2>1. /\ issued' = issued /\ history' = history /\ log' = log /\ fail("error", as)
    BY <1>3 DEF endLaneFatal
  <2> HIDE DEF as
  <2> QED BY <2>1, FailStays DEF Faults, Logs, Answered
<1> QED BY <1>1, <1>2, <1>3

LEMMA DrainingSteps ==
  ASSUME SInv, Walked, NEW l \in Lane, NEW value, settleDraining(l, value)
  PROVE  Stays /\ Logs
<1>1. /\ Poisoned /\ RunsBody(lanes[l]) /\ SettlesTo(UnitOf(l), value)
      /\ issued' = issued /\ history' = history /\ poison' = poison /\ quiesce' = quiesce
  BY DEF settleDraining
<1>2. lanes[l].unit # None
  BY <1>1 DEF RunsBody
<1> QED BY <1>1, <1>2, SettlesLogs, PoisonedStays

LEMMA NextSteps ==
  ASSUME SInv, Walked, Next
  PROVE  crash \/ ((Stays \/ Goes) /\ Logs)
<1>1. ASSUME NEW l \in Lane, \/ spawn(l) \/ step(l) \/ issueHead(l) \/ awaitParked(l)
                             \/ joinAny(l) \/ joinAll(l) \/ endLane(l) \/ unwind(l)
      PROVE  (Stays \/ Goes) /\ Logs
  BY <1>1, CodeSteps
<1>2. ASSUME NEW l \in Lane, NEW value \in Outcome, inTurn(l, value) \/ settle(l, value) \/ settleDraining(l, value)
      PROVE  (Stays \/ Goes) /\ Logs
  BY <1>2, InTurnSteps, SettleSteps, DrainingSteps
<1>3. ASSUME grantNext \/ quiesceSettled \/ deliverRecorded \/ follow \/ runCompletes \/ runFails
      PROVE  (Stays \/ Goes) /\ Logs
  BY <1>3, SequencerSteps, RecordedSteps, LastSteps
<1>4. ASSUME \E l \in Lane : endLaneFatal(l) PROVE (Stays \/ Goes) /\ Logs
  BY <1>4, LastSteps
<1> QED BY <1>1, <1>2, <1>3, <1>4 DEF Next, Runs

-----------------------------------------------------------------------------
(* The way all executions of the run go.  It begins where an execution     *)
(* does, each place on it follows from the one before and the record, and  *)
(* at its end the history has been issued.                                 *)

(* A place where the sequencer asks for a decision: its operation is no    *)
(* lane's, and what is on record for it was decided there.                 *)
AskSound(lg, c) ==
  /\ Len(c.issued) \in DOMAIN c.issued /\ c.issued[Len(c.issued)] \in {"sched"} \X Nat
  /\ Len(c.issued) \in DOMAIN lg =>
       lg[Len(c.issued)].inFlight = NamesOf(c) /\ lg[Len(c.issued)].settled \subseteq IndexesOf(c)

Way(way, n, lg, h) ==
  /\ way[0] = Start /\ way[n].issued = h
  /\ \A k \in 0..n : way[k].issued \in Seq(OpName) /\ Longer(way[k].issued, h)
  /\ \A k \in 0..n : k < n => Moves(lg, way[k], way[k + 1])
  /\ \A k \in 0..n : way[k].asked => AskSound(lg, way[k])
  /\ \A j, k \in 0..n : j < k =>
       /\ Len(way[j].issued) <= Len(way[k].issued)
       /\ way[k].asked => Len(way[j].issued) < Len(way[k].issued)

(* An execution is at a place on it, and what it is about to record was    *)
(* decided at one.                                                         *)
On(way, n, iss, live, c, q) ==
  /\ \E k \in 0..n : way[k].issued = iss /\ (live => way[k] = c)
  /\ q.phase = "recording" => \E j \in 0..n : Fits(q, way[j])

OneWay(lg, h, iss, live, c, q) == \E n \in Nat : \E way : Way(way, n, lg, h) /\ On(way, n, iss, live, c, q)

Trail == OneWay(log, history, issued, Live, Core, quiesce)

LEMMA LongerTrans ==
  ASSUME NEW p, NEW q, NEW r, Longer(p, q), Longer(q, r)
  PROVE  Longer(p, r)
BY DEF Longer

LEMMA TrailWalked ==
  ASSUME Trail
  PROVE  Walked
<1>1. PICK n \in Nat : \E way : Way(way, n, log, history) /\ On(way, n, issued, Live, Core, quiesce)
  BY DEF Trail, OneWay
<1>2. PICK way : Way(way, n, log, history) /\ On(way, n, issued, Live, Core, quiesce)
  BY <1>1
<1> QED BY <1>2 DEF Way, On, Walked

(* What is added to the record changes no move that was made.              *)
LEMMA MovesKept ==
  ASSUME NEW lg, NEW lg2, NEW c, NEW d, Moves(lg, c, d), Longer(lg, lg2)
  PROVE  Moves(lg2, c, d)
<1>1. Ready(lg, c) /\ d = Moved(lg, c)
  BY DEF Moves
<1>2. Ready(lg2, c)
  BY <1>1 DEF Ready, Longer
<1>3. CASE c.turn # None
  BY <1>1, <1>2, <1>3 DEF Moves, Moved
<1>4. CASE c.turn = None /\ c.runnable # <<>>
  <2> DEFINE w == Head(c.runnable)
  <2>1. w.completed => lg2[c.lanes[w.lane].unit.id].value = lg[c.lanes[w.lane].unit.id].value
    BY <1>1, <1>4 DEF Ready, Longer
  <2>2. Granted(lg, c, w) = Granted(lg2, c, w)
    <3> HIDE DEF w
    <3>1. CASE w.completed
      BY <2>1, <3>1 DEF Granted
    <3>2. CASE ~w.completed
      BY <3>2 DEF Granted
    <3> QED BY <3>1, <3>2
  <2> QED BY <1>1, <1>2, <1>4, <2>2 DEF Moves, Moved
<1>5. CASE c.turn = None /\ c.runnable = <<>> /\ c.asked
  <2>1. lg2[Len(c.issued)].settled = lg[Len(c.issued)].settled
    BY <1>1, <1>5 DEF Ready, Longer
  <2>2. Chosen(lg2, c) = Chosen(lg, c)
    BY <2>1 DEF Chosen
  <2> QED BY <1>1, <1>2, <1>5, <2>2 DEF Moves, Moved
<1>6. CASE c.turn = None /\ c.runnable = <<>> /\ ~c.asked
  BY <1>1, <1>2, <1>6 DEF Moves, Moved
<1> QED BY <1>3, <1>4, <1>5, <1>6

(* An operation of a lane's own is no decision.                            *)
LEMMA WayAnswered ==
  ASSUME NEW n \in Nat, NEW way, NEW lg, NEW lg2, NEW h, NEW iss, Way(way, n, lg, h), Longer(iss, h),
         Answered(lg, lg2, iss)
  PROVE  Way(way, n, lg2, h)
<1>1. CASE lg2 = lg
  BY <1>1
<1>2. ASSUME NEW id \in DOMAIN iss, iss[id] \in {"step", "wait"} \X Key, Longer(lg, lg2),
             DOMAIN lg2 \subseteq DOMAIN lg \cup {id}
      PROVE  Way(way, n, lg2, h)
  <2>1. h[id] \in {"step", "wait"} \X Key
    BY <1>2 DEF Longer
  <2>2. ASSUME NEW k \in 0..n, way[k].asked PROVE AskSound(lg2, way[k])
    <3> DEFINE m == Len(way[k].issued)
    <3>1. AskSound(lg, way[k]) /\ Longer(way[k].issued, h)
      BY <2>2 DEF Way
    <3>2. m \in DOMAIN way[k].issued /\ h[m] \in {"sched"} \X Nat
      BY <3>1 DEF AskSound, Longer
    <3>3. m # id
      BY <2>1, <3>2
    <3>4. m \in DOMAIN lg2 => m \in DOMAIN lg /\ lg2[m] = lg[m]
      BY <1>2, <3>3 DEF Longer
    <3> QED BY <3>1, <3>4 DEF AskSound
  <2>3. ASSUME NEW k \in 0..n, k < n PROVE Moves(lg2, way[k], way[k + 1])
    BY <1>2, <2>3, MovesKept DEF Way
  <2> QED BY <2>2, <2>3 DEF Way
<1> QED BY <1>1, <1>2 DEF Answered

(* A decision is recorded for the place it was made at.                    *)
LEMMA WayDecided ==
  ASSUME NEW n \in Nat, NEW way, NEW lg, NEW lg2, NEW h, NEW q, Way(way, n, lg, h), Decided(lg, lg2, q),
         NEW j \in 0..n, Fits(q, way[j])
  PROVE  Way(way, n, lg2, h)
<1>1. ASSUME NEW k \in 0..n, way[k].asked PROVE AskSound(lg2, way[k])
  <2> DEFINE m == Len(way[k].issued)
  <2>1. AskSound(lg, way[k])
    BY <1>1 DEF Way
  <2>2. CASE m \in DOMAIN lg \/ m \notin DOMAIN lg2
    <3>1. m \in DOMAIN lg2 => m \in DOMAIN lg /\ lg2[m] = lg[m]
      BY <2>2 DEF Decided, Longer
    <3> QED BY <2>1, <3>1 DEF AskSound
  <2>3. CASE m \notin DOMAIN lg /\ m \in DOMAIN lg2
    <3>1. m = q.id /\ lg2[m].inFlight = q.pending /\ lg2[m].settled = q.chosen
      BY <2>3 DEF Decided
    <3>2. way[j].asked /\ m = Len(way[j].issued) /\ q.pending = NamesOf(way[j]) /\ q.chosen \subseteq IndexesOf(way[j])
      BY <3>1 DEF Fits
    <3>3. m \in Nat
      <4>1. way[k].issued \in Seq(OpName)
        BY DEF Way
      <4> QED BY <4>1
    <3>4. k = j
      <4>1. CASE j < k
        BY <1>1, <3>2, <3>3, <4>1 DEF Way
      <4>2. CASE k < j
        BY <3>2, <3>3, <4>2 DEF Way
      <4> QED BY <4>1, <4>2
    <3> QED BY <2>1, <3>1, <3>2, <3>4 DEF AskSound
  <2> QED BY <2>2, <2>3
<1>2. ASSUME NEW k \in 0..n, k < n PROVE Moves(lg2, way[k], way[k + 1])
  BY <1>2, MovesKept DEF Way, Decided
<1> QED BY <1>1, <1>2 DEF Way

(* An execution that goes on stays on the way, or makes it longer.         *)
Issues(iss, iss2, h, h2, name) == iss2 = Append(iss, name) /\ h2 = IF Len(iss) = Len(h) THEN iss2 ELSE h
IssuesAny(iss, iss2, h, h2) ==
  (iss2 = iss /\ h2 = h) \/ \E name \in OpName : Issues(iss, iss2, h, h2, name)
IssuesAsked(d, iss, h, h2) == d.asked => \E i \in Nat : Issues(iss, d.issued, h, h2, <<"sched", i>>)
Beyond(way, way2, n, n2, d) ==
  0..n \subseteq 0..n2 /\ (\A j \in 0..n : way2[j] = way[j]) /\ \E j \in 0..n2 : way2[j] = d

LEMMA WayGoes ==
  ASSUME NEW n \in Nat, NEW way, NEW lg, NEW h \in Seq(OpName), NEW h2, Way(way, n, lg, h), DOMAIN lg \subseteq DOMAIN h,
         NEW k \in 0..n, NEW d, Moves(lg, way[k], d),
         IssuesAny(way[k].issued, d.issued, h, h2), IssuesAsked(d, way[k].issued, h, h2)
  PROVE  \E n2 \in Nat : \E way2 : Way(way2, n2, lg, h2) /\ Beyond(way, way2, n, n2, d)
<1> USE DEF IssuesAny, IssuesAsked, Beyond
<1> DEFINE iss == way[k].issued
           iss2 == d.issued
<1>1. iss \in Seq(OpName) /\ Longer(iss, h)
  BY DEF Way
<1>2. Len(iss) \in Nat /\ Len(h) \in Nat /\ Len(iss) <= Len(h) /\ (Len(iss) = Len(h) => iss = h)
  <2> HIDE DEF iss
  <2> QED BY <1>1, SameLength
<1>3. ASSUME NEW name \in OpName, Issues(iss, iss2, h, h2, name)
      PROVE  /\ iss2 \in Seq(OpName) /\ Len(iss2) = Len(iss) + 1 /\ Longer(iss, iss2)
             /\ Len(iss2) \in DOMAIN iss2 /\ iss2[Len(iss2)] = name
  <2>1. iss2 = Append(iss, name)
    BY <1>3 DEF Issues
  <2> HIDE DEF iss, iss2
  <2> QED BY <1>1, <1>2, <2>1, AppendIs DEF Longer
<1>4. CASE k < n
  <2>1. k + 1 \in 0..n /\ Moves(lg, way[k], way[k + 1])
    BY <1>4 DEF Way
  <2>2. d = way[k + 1]
    BY <2>1 DEF Moves
  <2>3. iss2 \in Seq(OpName) /\ Longer(iss2, h)
    BY <2>1, <2>2 DEF Way
  <2>4. Len(iss2) <= Len(h)
    <3> HIDE DEF iss2
    <3> QED BY <2>3, SameLength
  <2>5. h2 = h
    <3>1. CASE \E name \in OpName : Issues(iss, iss2, h, h2, name)
      <4>1. PICK name \in OpName : Issues(iss, iss2, h, h2, name)
        BY <3>1
      <4>2. Len(iss2) = Len(iss) + 1
        BY <1>3, <4>1
      <4>3. Len(iss) # Len(h)
        BY <1>2, <2>4, <4>2
      <4> QED BY <4>1, <4>3 DEF Issues
    <3> QED BY <3>1
  <2> QED BY <2>1, <2>2, <2>5
<1>5. CASE k = n
  <2> DEFINE way2 == [i \in 0..(n + 1) |-> IF i = n + 1 THEN d ELSE way[i]]
  <2>1. iss = h
    BY <1>5 DEF Way
  <2>2. /\ h2 = iss2 /\ iss2 \in Seq(OpName) /\ Longer(h, iss2) /\ Len(h) <= Len(iss2) /\ Len(iss2) \in Nat
    <3>1. CASE iss2 = iss /\ h2 = h
      BY <1>2, <2>1, <3>1, LongerSelf
    <3>2. CASE \E name \in OpName : Issues(iss, iss2, h, h2, name)
      <4>1. PICK name \in OpName : Issues(iss, iss2, h, h2, name)
        BY <3>2
      <4>2. iss2 \in Seq(OpName) /\ Len(iss2) = Len(iss) + 1 /\ Longer(iss, iss2)
        BY <1>3, <4>1
      <4>3. h2 = iss2
        BY <2>1, <4>1 DEF Issues
      <4> QED BY <1>2, <2>1, <4>2, <4>3
    <3> QED BY <3>1, <3>2
  <2>3. d.asked => Len(h) < Len(iss2) /\ AskSound(lg, d)
    <3> SUFFICES ASSUME d.asked PROVE Len(h) < Len(iss2) /\ AskSound(lg, d)
      OBVIOUS
    <3>1. PICK i \in Nat : Issues(iss, iss2, h, h2, <<"sched", i>>)
      OBVIOUS
    <3>2. <<"sched", i>> \in OpName /\ <<"sched", i>> \in {"sched"} \X Nat
      BY DEF OpName
    <3>3. Len(iss2) = Len(h) + 1 /\ Len(iss2) \in DOMAIN iss2 /\ iss2[Len(iss2)] = <<"sched", i>>
      BY <1>3, <2>1, <3>1, <3>2
    <3>4. Len(iss2) \notin DOMAIN lg
      <4>1. DOMAIN h = 1..Len(h)
        OBVIOUS
      <4> QED BY <1>2, <3>3, <4>1
    <3> QED BY <1>2, <3>2, <3>3, <3>4 DEF AskSound
  <2>4. /\ way2[n + 1] = d /\ n + 1 \in Nat /\ n + 1 \in 0..(n + 1) /\ 0..n \subseteq 0..(n + 1)
        /\ \A j \in 0..(n + 1) : j = n + 1 \/ j \in 0..n
        /\ \A j \in 0..n : way2[j] = way[j] /\ j < n + 1 /\ 0 \in 0..n /\ n \in 0..n
    OBVIOUS
  <2> HIDE DEF way2
  <2>5. way2[0] = Start /\ way2[n + 1].issued = h2
    BY <2>2, <2>4 DEF Way
  <2>6. ASSUME NEW j \in 0..(n + 1) PROVE way2[j].issued \in Seq(OpName) /\ Longer(way2[j].issued, h2)
    <3>1. CASE j = n + 1
      BY <2>2, <2>4, <3>1, LongerSelf
    <3>2. CASE j \in 0..n
      <4>1. way2[j] = way[j] /\ way[j].issued \in Seq(OpName) /\ Longer(way[j].issued, h)
        BY <2>4, <3>2 DEF Way
      <4> QED BY <2>2, <4>1, LongerTrans
    <3> QED BY <2>4, <3>1, <3>2
  <2>7. ASSUME NEW j \in 0..(n + 1), j < n + 1 PROVE Moves(lg, way2[j], way2[j + 1])
    <3>1. CASE j = n
      BY <1>5, <2>4, <3>1
    <3>2. CASE j # n
      <4>1. j \in 0..n /\ j < n /\ j + 1 \in 0..n
        BY <2>7, <3>2
      <4> QED BY <2>4, <4>1 DEF Way
    <3> QED BY <3>1, <3>2
  <2>8. ASSUME NEW j \in 0..(n + 1), way2[j].asked PROVE AskSound(lg, way2[j])
    <3>1. CASE j = n + 1
      BY <2>3, <2>4, <2>8, <3>1
    <3>2. CASE j \in 0..n
      BY <2>4, <2>8, <3>2 DEF Way
    <3> QED BY <2>4, <3>1, <3>2
  <2>9. ASSUME NEW i \in 0..(n + 1), NEW j \in 0..(n + 1), i < j
        PROVE  /\ Len(way2[i].issued) <= Len(way2[j].issued)
               /\ way2[j].asked => Len(way2[i].issued) < Len(way2[j].issued)
    <3>1. i \in 0..n /\ way2[i] = way[i]
      BY <2>4, <2>9
    <3>2. CASE j \in 0..n
      BY <2>4, <2>9, <3>1, <3>2 DEF Way
    <3>3. CASE j = n + 1
      <4>1. way[i].issued \in Seq(OpName) /\ Longer(way[i].issued, h)
        BY <3>1 DEF Way
      <4>2. Len(way[i].issued) <= Len(h) /\ Len(way[i].issued) \in Nat
        BY <4>1, SameLength
      <4> QED BY <1>2, <2>2, <2>3, <2>4, <3>1, <3>3, <4>2
    <3> QED BY <2>4, <3>2, <3>3
  <2>10. Way(way2, n + 1, lg, h2)
    BY <2>5, <2>6, <2>7, <2>8, <2>9 DEF Way
  <2> QED BY <2>4, <2>10
<1>6. k < n \/ k = n
  OBVIOUS
<1> QED
  <2> HIDE DEF iss, iss2
  <2> QED BY <1>4, <1>5, <1>6

(* Whatever an execution does, it is on the one way.                       *)
LEMMA InitTrail == Init => Trail
<1> SUFFICES ASSUME Init PROVE Trail
  OBVIOUS
<1>1. /\ issued = <<>> /\ history = <<>> /\ DOMAIN log = {} /\ quiesce.phase = "idle"
  BY DEF Init, Idle
<1>2. Core = Start
  <2>1. [l \in Lane |-> Bare(lanes[l])] = [l \in Lane |-> Bare(Fresh[l])]
    BY DEF Init
  <2>2. (quiesce.phase \in {"recording", "following"}) = FALSE
    BY <1>1
  <2> QED BY <2>1, <2>2 DEF Init, Core, Start
<1> DEFINE way == [i \in {0} |-> Start]
<1>3. /\ way[0] = Start /\ 0 \in Nat /\ 0..0 = {0} /\ Start.issued = <<>> /\ ~Start.asked
      /\ <<>> \in Seq(OpName)
  BY DEF Start, Stand
<1> HIDE DEF way
<1>4. Way(way, 0, log, history)
  <2>1. Longer(<<>>, <<>>)
    BY LongerSelf
  <2>2. \A j, k \in 0..0 : ~(j < k)
    OBVIOUS
  <2> QED BY <1>1, <1>3, <2>1, <2>2 DEF Way
<1>5. On(way, 0, issued, Live, Core, quiesce)
  BY <1>1, <1>2, <1>3 DEF On
<1> QED BY <1>3, <1>4, <1>5 DEF Trail, OneWay

LEMMA TrailNext ==
  ASSUME SInv, Trail, Next
  PROVE  Trail'
<1>1. Walked
  BY TrailWalked
<1>2. PICK n \in Nat : \E way : Way(way, n, log, history) /\ On(way, n, issued, Live, Core, quiesce)
  BY DEF Trail, OneWay
<1>3. PICK way : Way(way, n, log, history) /\ On(way, n, issued, Live, Core, quiesce)
  BY <1>2
<1>4. CASE crash
  <2>1. /\ issued' = <<>> /\ log' = log /\ history' = history /\ quiesce'.phase = "idle"
    BY <1>4 DEF crash, Idle
  <2>2. Core' = Start
    <3>1. [l \in Lane |-> Bare(lanes'[l])] = [l \in Lane |-> Bare(Fresh[l])]
      BY <1>4 DEF crash
    <3>2. (quiesce'.phase \in {"recording", "following"}) = FALSE
      BY <2>1
    <3> QED BY <1>4, <3>1, <3>2 DEF crash, Core, Start
  <2>3. 0 \in 0..n /\ way[0] = Start /\ Start.issued = <<>>
    BY <1>3 DEF Way, Start, Stand
  <2>4. On(way, n, issued', Live', Core', quiesce')
    BY <2>1, <2>2, <2>3 DEF On
  <2> QED BY <1>3, <2>1, <2>4 DEF Trail, OneWay
<1>5. ASSUME Logs PROVE Way(way, n, log', history) /\ DOMAIN log' \subseteq DOMAIN history
  <2>1. DOMAIN log \subseteq DOMAIN history /\ DOMAIN issued \subseteq DOMAIN history
    BY <1>1 DEF SInv, LogNames, Walked, Longer
  <2>2. CASE Answered(log, log', issued)
    <3>1. Way(way, n, log', history)
      BY <1>1, <1>3, <2>2, WayAnswered DEF Walked
    <3> QED BY <2>1, <2>2, <3>1 DEF Answered
  <2>3. CASE Decided(log, log', quiesce)
    <3>1. quiesce.phase = "recording" /\ quiesce.id \in DOMAIN issued
      BY <2>3 DEF Decided, SInv, Quiescing
    <3>2. PICK j \in 0..n : Fits(quiesce, way[j])
      BY <1>3, <3>1 DEF On
    <3>3. Way(way, n, log', history)
      BY <1>3, <2>3, <3>2, WayDecided
    <3> QED BY <2>1, <2>3, <3>1, <3>3 DEF Decided
  <2> QED BY <1>5, <2>2, <2>3 DEF Logs
<1>6. CASE Stays /\ Logs
  <2>1. On(way, n, issued', Live', Core', quiesce')
    BY <1>3, <1>6 DEF Stays, On
  <2>2. Way(way, n, log', history')
    BY <1>5, <1>6 DEF Stays
  <2> QED BY <2>1, <2>2 DEF Trail, OneWay
<1>7. CASE Goes /\ Logs
  <2>1. /\ Live /\ Live' /\ Moves(log', Core, Core')
        /\ (issued' = issued /\ history' = history) \/ \E name \in OpName : Reserve(name)
        /\ Core'.asked => Fits(quiesce', Core') /\ \E i \in Nat : Reserve(<<"sched", i>>)
    BY <1>7 DEF Goes
  <2>2. PICK k \in 0..n : way[k] = Core
    BY <1>3, <2>1 DEF On
  <2>3. /\ Core.issued = issued /\ Core'.issued = issued'
        /\ quiesce'.phase = "recording" => Core'.asked
    BY CoreFields DEF Core, Stand
  <2>4. history \in Seq(OpName)
    BY DEF SInv, Types
  <2>5. \A name : Reserve(name) => Issues(issued, issued', history, history', name)
    BY DEF Reserve, Issues
  <2> DEFINE d == Core'
  <2>6. IssuesAny(way[k].issued, d.issued, history, history') /\ IssuesAsked(d, way[k].issued, history, history')
    BY <2>1, <2>2, <2>3, <2>5 DEF IssuesAny, IssuesAsked
  <2>7. Moves(log', way[k], d) /\ Way(way, n, log', history) /\ DOMAIN log' \subseteq DOMAIN history
    BY <1>5, <1>7, <2>1, <2>2
  <2>8. d.issued = issued' /\ (quiesce'.phase = "recording" => Fits(quiesce', d))
    BY <2>1, <2>3
  <2> HIDE DEF d
  <2>9. PICK n2 \in Nat : \E way2 : Way(way2, n2, log', history') /\ Beyond(way, way2, n, n2, d)
    BY <2>4, <2>6, <2>7, WayGoes
  <2>10. PICK way2 : Way(way2, n2, log', history') /\ \E j \in 0..n2 : way2[j] = d
    BY <2>9 DEF Beyond
  <2>11. On(way2, n2, issued', Live', d, quiesce')
    BY <2>8, <2>10 DEF On
  <2>12. OneWay(log', history', issued', Live', d, quiesce')
    BY <2>10, <2>11 DEF OneWay
  <2> QED BY <2>12 DEF Trail, d
<1> QED BY <1>1, <1>4, <1>6, <1>7, NextSteps

IInv == SInv /\ Trail

LEMMA StutterSound ==
  ASSUME IInv, UNCHANGED vars
  PROVE  IInv'
<1>1. /\ lanes' = lanes /\ ended' = ended /\ turn' = turn /\ runnable' = runnable /\ scheduled' = scheduled
      /\ inFlight' = inFlight /\ quiesce' = quiesce /\ poison' = poison /\ nextIndex' = nextIndex
      /\ nextSched' = nextSched /\ issued' = issued /\ log' = log /\ status' = status
      /\ history' = history /\ crashes' = crashes
  BY DEF vars, engine
<1>2. Types' /\ LanesSound' /\ LogNames' /\ ErrorsFail' /\ Turns'
  BY <1>1 DEF IInv, SInv, Types, LanesSound, LogNames, ErrorsFail, Turns, Poisoned, UnitOf, Phase
<1>3. Flying' /\ Waking' /\ Halted' /\ EndedOnce' /\ Over'
  BY <1>1 DEF IInv, SInv, Flying, Waking, Halted, EndedOnce, Over, Poisoned, UnitOf, Phase
<1>4. Quiescing'
  BY <1>1 DEF IInv, SInv, Quiescing, Poisoned, Names, Indexes, UnitOf
<1>5. Core' = Core
  <2>1. [l \in Lane |-> Bare(lanes'[l])] = [l \in Lane |-> Bare(lanes[l])]
    BY <1>1
  <2> QED BY <1>1, <2>1 DEF Core
<1>6. Live' = Live
  BY <1>1 DEF Live, Poisoned
<1>7. Trail'
  BY <1>1, <1>5, <1>6 DEF IInv, Trail
<1> QED BY <1>2, <1>3, <1>4, <1>7 DEF IInv, SInv

(* The invariant: what holds of an execution as it stands, and that it is  *)
(* on the way all executions of the run go.                                *)
THEOREM Invariance == Spec => []IInv
<1>1. Init => IInv
  BY InitSound, InitTrail DEF IInv
<1>2. IInv /\ [Next]_vars => IInv'
  <2> SUFFICES ASSUME IInv, [Next]_vars PROVE IInv'
    OBVIOUS
  <2>1. CASE Next
    <3>1. SInv /\ Trail /\ Walked
      BY TrailWalked DEF IInv
    <3> QED BY <2>1, <3>1, NextSound, TrailNext DEF IInv
  <2>2. CASE UNCHANGED vars
    BY <2>2, StutterSound
  <2> QED BY <2>1, <2>2
<1> QED BY <1>1, <1>2, PTL DEF Spec

(* Types, and that a lane with an operation in flight waits for it.        *)
THEOREM TypeCorrect == Spec => []TypeOK
<1>1. IInv => TypeOK
  <2> SUFFICES ASSUME IInv PROVE TypeOK
    OBVIOUS
  <2>1. \A l \in Lane : lanes[l] \in LaneRec /\ LaneSound(lanes[l], issued, log)
    BY LaneTyped DEF IInv
  <2>2. \A l \in Lane : Phase(l) \in Phases /\ lanes[l].on \subseteq Lane
    BY <2>1 DEF LaneRec, Phase
  <2>3. \A l \in Lane : UnitOf(l) = None \/ UnitOf(l).outcome \in Outcome \cup {None}
    BY <2>1 DEF LaneRec, Unit, UnitOf
  <2>4. \A l \in ToSet(inFlight) : Phase(l) \in {"parking", "awaiting"} /\ UnitOf(l) # None
    BY InFlightTyped DEF IInv, SInv, Flying, UnitOf
  <2>5. IsInjective(inFlight) /\ IsInjective(ended)
    BY DEF IInv, SInv, Flying, EndedOnce
  <2>6. /\ turn \in Lane \cup {None} /\ poison \in {None} \cup Faults
        /\ quiesce.phase \in {"idle", "watching", "recording", "following"}
        /\ status \in {"running", "completed", "failed"} /\ crashes \in 0..MaxCrashes
    BY DEF IInv, SInv, Types, Quiesces
  <2>7. DOMAIN log \subseteq DOMAIN history
    BY DEF IInv, SInv, LogNames
  <2> QED BY <2>2, <2>3, <2>4, <2>5, <2>6, <2>7 DEF TypeOK
<1> QED BY <1>1, Invariance, PTL

(* What an execution issues is what was issued there before it.            *)
LEMMA StepWalks ==
  ASSUME IInv, IInv', Next
  PROVE  Operations!Next \/ UNCHANGED <<history, issued>>
<1>1. /\ issued \in Seq(OpName) /\ history \in Seq(OpName)
      /\ issued' \in Seq(OpName) /\ history' \in Seq(OpName)
  BY DEF IInv, SInv, Types
<1>2. Walked
  BY TrailWalked DEF IInv
<1>3. Longer(issued', history')
  <2>1. PICK n \in Nat : \E way : Way(way, n, log', history') /\ On(way, n, issued', Live', Core', quiesce')
    BY DEF IInv, Trail, OneWay
  <2>2. PICK way : Way(way, n, log', history') /\ On(way, n, issued', Live', Core', quiesce')
    BY <2>1
  <2> QED BY <2>2 DEF Way, On
<1>4. CASE crash
  BY <1>4 DEF crash, Operations!Next, Operations!Replay
<1>5. CASE issued' = issued /\ history' = history
  BY <1>5
<1>6. ASSUME NEW name \in OpName, Reserve(name)
      PROVE  Operations!Next
  <2>1. /\ issued' = Append(issued, name) /\ Len(issued) \in Nat /\ Len(history) \in Nat
        /\ Len(issued') = Len(issued) + 1 /\ Len(issued) <= Len(history)
        /\ Len(issued) = Len(history) => issued = history
        /\ history' = IF Len(issued) = Len(history) THEN issued' ELSE history
    <3>1. issued' = Append(issued, name) /\ history' = IF Len(issued) = Len(history) THEN issued' ELSE history
      BY <1>6 DEF Reserve
    <3> QED BY <1>1, <1>2, <3>1, SameLength DEF Walked
  <2>2. CASE issued = history
    <3>1. SubSeq(issued', 1, Len(issued)) = issued
      BY <1>1, <2>1
    <3> QED BY <2>1, <2>2, <3>1 DEF Operations!Next, Operations!Extend
  <2>3. CASE issued # history
    <3>1. history' = history /\ Len(issued) < Len(history)
      BY <2>1, <2>3
    <3> DEFINE s == SubSeq(history, 1, Len(issued) + 1)
    <3>2. s \in Seq(OpName) /\ Len(s) = Len(issued) + 1 /\ \A i \in 1..(Len(issued) + 1) : s[i] = history[i]
      BY <1>1, <2>1, <3>1
    <3>3. DOMAIN issued' = 1..(Len(issued) + 1) /\ \A i \in 1..(Len(issued) + 1) : issued'[i] = history[i]
      BY <1>1, <1>3, <2>1, <3>1 DEF Longer
    <3> HIDE DEF s
    <3>4. issued' = s
      BY <1>1, <2>1, <3>2, <3>3, SeqEqual
    <3> QED BY <3>1, <3>4 DEF Operations!Next, Operations!Reissue, s
  <2> QED BY <2>2, <2>3
<1>7. crash \/ Stays \/ Goes
  BY <1>2, NextSteps DEF IInv
<1> QED BY <1>4, <1>5, <1>6, <1>7 DEF Stays, Goes

(* All executions of a run walk one history of operations (ImplementsLog): *)
(* wherever the process died, whatever order operations settle in again,   *)
(* the function id of an operation is the one it was recorded under.       *)
THEOREM ReplaysWalkHistory == Spec => ImplementsLog
<1>1. Init => Operations!Init
  BY DEF Init, Operations!Init
<1>2. IInv /\ IInv' /\ [Next]_vars => [Operations!Next]_<<history, issued>>
  <2> SUFFICES ASSUME IInv, IInv', [Next]_vars PROVE [Operations!Next]_<<history, issued>>
    OBVIOUS
  <2>1. CASE Next
    BY <2>1, StepWalks
  <2>2. CASE UNCHANGED vars
    BY <2>2 DEF vars
  <2> QED BY <2>1, <2>2
<1> QED BY <1>1, <1>2, Invariance, PTL DEF Spec, ImplementsLog, Operations!Spec

(* What an execution is handed is what was recorded under the same name,   *)
(* so no operation comes to something unexpected, and a decision on record *)
(* was made about what is in flight now.                                   *)
LEMMA DecisionFollows ==
  ASSUME IInv, quiesce.phase = "recording", ~Poisoned
  PROVE  FollowsRecord(Decision(quiesce.id))
<1>1. Walked
  BY TrailWalked DEF IInv
<1>2. /\ quiesce.id = Len(issued) /\ quiesce.id \in DOMAIN issued /\ status = "running"
      /\ quiesce.pending = Names(inFlight) /\ quiesce.chosen \subseteq Indexes(ToSet(inFlight))
  BY DEF IInv, SInv, Quiescing, Over, Types
<1>3. CASE ~Recorded(quiesce.id)
  BY <1>2, <1>3 DEF FollowsRecord, Decision, Entry
<1>4. CASE Recorded(quiesce.id)
  <2>1. quiesce.id \in DOMAIN log /\ Decision(quiesce.id) = log[quiesce.id]
    BY <1>4 DEF Recorded, Decision
  <2>2. log[quiesce.id].name = SchedName
    <3>1. log[quiesce.id].name = history[quiesce.id]
      BY <2>1 DEF IInv, SInv, LogNames
    <3>2. history[quiesce.id] = issued[quiesce.id]
      BY <1>1, <1>2 DEF Walked, Longer
    <3> QED BY <3>1, <3>2 DEF SchedName
  <2>3. PICK n \in Nat : \E way : Way(way, n, log, history) /\ On(way, n, issued, Live, Core, quiesce)
    BY DEF IInv, Trail, OneWay
  <2>4. PICK way : Way(way, n, log, history) /\ On(way, n, issued, Live, Core, quiesce)
    BY <2>3
  <2>5. PICK k \in 0..n : way[k] = Core
    BY <1>2, <2>4 DEF On, Live
  <2>6. Core.asked /\ Core.issued = issued
    BY CoreFields
  <2>7. AskSound(log, Core)
    BY <2>4, <2>5, <2>6 DEF Way
  <2>8. log[quiesce.id].inFlight = NamesOf(Core) /\ log[quiesce.id].settled \subseteq IndexesOf(Core)
    BY <1>2, <2>1, <2>6, <2>7 DEF AskSound
  <2> QED BY <1>2, <2>1, <2>2, <2>8, CoreNames DEF FollowsRecord, IInv
<1> QED BY <1>3, <1>4

LEMMA FailIs ==
  ASSUME NEW error, NEW as, fail(error, as), error # "diverged"
  PROVE  poison' # "diverged"
BY DEF fail

LEMMA StepFollows ==
  ASSUME IInv, NeverDiverges, [Next]_vars
  PROVE  NeverDiverges'
<1>1. SInv /\ Walked /\ poison # "diverged"
  BY TrailWalked DEF IInv, NeverDiverges
<1>2. ASSUME NEW l \in Lane, \/ spawn(l) \/ step(l) \/ issueHead(l) \/ awaitParked(l)
                             \/ joinAny(l) \/ joinAll(l) \/ endLane(l) \/ unwind(l)
      PROVE  NeverDiverges'
  BY <1>1, <1>2 DEF NeverDiverges, spawn, step, issueHead, awaitParked, joinAny, joinAll, endLane, unwind
<1>3. ASSUME NEW l \in Lane, NEW value, lanes[l].unit # None, SettlesTo(UnitOf(l), value)
      PROVE  Fault(value) # "diverged"
  BY <1>1, <1>3, SettlesSound DEF Fault
<1>4. ASSUME NEW l \in Lane, NEW value \in Outcome, inTurn(l, value) PROVE NeverDiverges'
  <2>1. /\ Phase(l) = "head" /\ SettlesTo(UnitOf(l), value)
        /\ poison' = poison \/ fail(Fault(value), [lanes EXCEPT ![l] = GiveUp(@)])
    BY <1>4 DEF inTurn
  <2>2. lanes[l].unit # None
    BY <1>1, <2>1, LaneTyped DEF LaneSound, Phase
  <2> QED BY <1>1, <1>3, <2>1, <2>2, FailIs DEF NeverDiverges
<1>5. ASSUME NEW l \in Lane, NEW value \in Outcome, settle(l, value) PROVE NeverDiverges'
  <2> DEFINE as == [lanes EXCEPT ![l].unit.outcome = value]
  <2>1. /\ l \in ToSet(inFlight) /\ SettlesTo(UnitOf(l), value)
        /\ poison' = poison \/ fail(Fault(value), as)
    BY <1>5 DEF settle
  <2>2. lanes[l].unit # None
    BY <1>1, <2>1, InFlightTyped
  <2> HIDE DEF as
  <2> QED BY <1>1, <1>3, <2>1, <2>2, FailIs DEF NeverDiverges
<1>6. ASSUME NEW l \in Lane, NEW value \in Outcome, settleDraining(l, value) PROVE NeverDiverges'
  BY <1>1, <1>6 DEF NeverDiverges, settleDraining
<1>7. ASSUME grantNext \/ quiesceSettled \/ follow \/ runFails PROVE NeverDiverges'
  BY <1>1, <1>7 DEF NeverDiverges, grantNext, quiesceSettled, follow, runFails, engine
<1>8. ASSUME deliverRecorded PROVE NeverDiverges'
  <2>1. Poisoned \/ FollowsRecord(Decision(quiesce.id))
    BY <1>8, DecisionFollows DEF deliverRecorded
  <2>2. poison' = poison
    BY <1>8, <2>1 DEF deliverRecorded
  <2> QED BY <1>1, <2>2 DEF NeverDiverges
<1>9. ASSUME runCompletes PROVE NeverDiverges'
  <2> DEFINE as == [lanes EXCEPT ![Root].phase = "ended"]
  <2>1. poison' = poison \/ (fail("unfinished", as) /\ "unfinished" # "diverged")
    BY <1>9 DEF runCompletes
  <2> HIDE DEF as
  <2> QED BY <1>1, <2>1, FailIs DEF NeverDiverges
<1>10. ASSUME crash PROVE NeverDiverges'
  <2>1. poison' = None /\ "diverged" # None
    BY <1>10, NoneAssumption DEF crash, Faults
  <2> QED BY <2>1 DEF NeverDiverges
<1>11. ASSUME NEW l \in Lane, endLaneFatal(l) PROVE NeverDiverges'
  <2> DEFINE as == [lanes EXCEPT ![l].phase = "ended"]
  <2>1. fail("error", as) /\ "error" # "diverged"
    BY <1>11 DEF endLaneFatal
  <2> HIDE DEF as
  <2> QED BY <2>1, FailIs DEF NeverDiverges
<1>12. CASE UNCHANGED vars
  BY <1>1, <1>12 DEF vars, engine, NeverDiverges
<1> QED BY <1>2, <1>4, <1>5, <1>6, <1>7, <1>8, <1>9, <1>10, <1>11, <1>12 DEF Next, Runs

(* No run diverges from its record (NeverDiverges): whatever the lanes'    *)
(* code, its first lane's too, wherever the process died and in whatever   *)
(* order operations settle again.                                          *)
THEOREM NeverDivergesHolds == Spec => []NeverDiverges
<1>1. Init => NeverDiverges
  BY NoneAssumption DEF Init, NeverDiverges, Faults
<1>2. IInv /\ NeverDiverges /\ [Next]_vars => NeverDiverges'
  BY StepFollows
<1> QED BY <1>1, <1>2, Invariance, PTL DEF Spec

(* What came of an operation that leaves its lane is handed to it.         *)
HandedOver(m) ==
  UnitOf(m) # None /\ UnitOf(m).outcome \notin {None} \cup Errors /\ UnitOf(m)' = None
    => lanes'[m].seen = Append(lanes[m].seen, UnitOf(m).outcome)

LEMMA KeptHands ==
  ASSUME NEW m \in Lane, lanes[m].unit # None => lanes'[m].unit # None \/ lanes[m].unit.outcome = None
  PROVE  HandedOver(m)
BY DEF HandedOver, UnitOf

LEMMA OthersKept ==
  ASSUME SInv, NEW l \in Lane, NEW lane, lanes' = [lanes EXCEPT ![l] = lane], NEW m \in Lane,
         m = l => HandedOver(m)
  PROVE  HandedOver(m)
<1>1. CASE m = l
  BY <1>1
<1>2. CASE m # l
  <2>1. lanes'[m] = lanes[m]
    BY <1>2 DEF SInv, Types
  <2> QED BY <2>1, KeptHands
<1> QED BY <1>1, <1>2

LEMMA FailHands ==
  ASSUME SInv, NEW error, NEW as, fail(error, as), NEW m \in Lane,
         as[m] = lanes[m] \/ (lanes[m].unit # None => lanes[m].unit.outcome = None)
  PROVE  HandedOver(m)
<1>1. lanes'[m] = Refuse(as[m])
  BY DEF fail
<1>2. CASE lanes[m].unit # None => lanes[m].unit.outcome = None
  BY <1>2, KeptHands
<1>3. CASE as[m] = lanes[m] /\ lanes[m].unit # None
  <2>1. /\ lanes[m].phase \in {"head", "parking", "awaiting"}
        /\ lanes[m].phase = "head" => lanes[m].unit.outcome = None
        /\ LaneSound(lanes[m], issued, log)
    BY <1>3, LaneTyped DEF LaneSound
  <2>2. CASE lanes[m].phase = "head"
    BY <2>1, <2>2, KeptHands
  <2>3. CASE lanes[m].phase = "parking"
    BY <1>1, <1>3, <2>3, KeptHands DEF Refuse
  <2>4. CASE lanes[m].phase = "awaiting" /\ lanes[m].unit.outcome = None
    BY <2>4, KeptHands
  <2>5. CASE lanes[m].phase = "awaiting" /\ lanes[m].unit.outcome # None
    <3>1. lanes'[m] = hand(lanes[m])
      BY <1>1, <1>3, <2>5 DEF Refuse
    <3>2. hand(lanes[m]).seen = Append(lanes[m].seen, lanes[m].unit.outcome)
      BY <1>3, <2>1, <2>5, HandSound
    <3> QED BY <3>1, <3>2 DEF HandedOver, UnitOf
  <2> QED BY <2>1, <2>2, <2>3, <2>4, <2>5
<1> QED BY <1>2, <1>3

LEMMA CodeHands ==
  ASSUME SInv, NEW l \in Lane, NEW m \in Lane,
         \/ spawn(l) \/ step(l) \/ issueHead(l) \/ awaitParked(l)
         \/ joinAny(l) \/ joinAll(l) \/ endLane(l) \/ unwind(l)
  PROVE  HandedOver(m)
<1>1. lanes \in [Lane -> LaneRec] /\ lanes[l] \in LaneRec /\ lanes[m] \in LaneRec
  BY DEF SInv, Types
<1>2. CASE spawn(l)
  <2>1. PICK new \in Lane : lanes' = [lanes EXCEPT ![l].seen = Append(@, new), ![new].phase = "queued"]
    BY <1>2 DEF spawn
  <2>2. lanes'[m].unit = lanes[m].unit
    BY <1>1, <2>1 DEF LaneRec
  <2> QED BY <2>2, KeptHands
<1>3. CASE step(l) \/ issueHead(l) \/ joinAny(l) \/ joinAll(l) \/ endLane(l)
  <2>1. lanes[l].unit = None
    <3>1. Holds(l)
      BY <1>3 DEF step, issueHead, joinAny, joinAll, endLane
    <3> QED BY <3>1, AtCode
  <2>2. m # l => lanes'[m].unit = lanes[m].unit
    <3>1. CASE ~endLane(l)
      BY <1>1, <1>3, <3>1 DEF step, issueHead, joinAny, joinAll, issue, Join
    <3>2. CASE endLane(l)
      <4> DEFINE woken == [lanes[m] EXCEPT !.phase = "woken", !.on = {},
                             !.seen = IF Command(m).do = "joinAny" THEN Append(@, l) ELSE @]
      <4>1. m # l => lanes'[m] = lanes[m] \/ lanes'[m] = woken
        BY <3>2 DEF endLane
      <4>2. woken.unit = lanes[m].unit
        BY <1>1 DEF LaneRec
      <4> HIDE DEF woken
      <4> QED BY <4>1, <4>2
    <3> QED BY <3>1, <3>2
  <2> QED BY <2>1, <2>2, KeptHands
<1>4. CASE awaitParked(l)
  <2>1. CASE ~Poisoned
    <3>1. lanes' = [lanes EXCEPT ![l].phase = "awaiting"]
      BY <1>4, <2>1 DEF awaitParked
    <3>2. lanes'[m].unit = lanes[m].unit
      BY <1>1, <3>1 DEF LaneRec
    <3> QED BY <3>2, KeptHands
  <2>2. CASE Poisoned
    <3> DEFINE lane == IF lanes[l].unit.outcome # None THEN hand(lanes[l]) ELSE GiveUp(lanes[l])
    <3>1. lanes' = [lanes EXCEPT ![l] = lane]
      BY <1>1, <1>4, <2>2 DEF awaitParked
    <3>2. lanes'[l] = lane
      BY <1>1, <3>1
    <3>3. HandedOver(l)
      <4>1. CASE lanes[l].unit = None \/ lanes[l].unit.outcome = None
        BY <4>1, KeptHands
      <4>2. CASE lanes[l].unit # None /\ lanes[l].unit.outcome # None
        <5>1. lanes'[l] = hand(lanes[l]) /\ LaneSound(lanes[l], issued, log)
          BY <3>2, <4>2, LaneTyped
        <5>2. hand(lanes[l]).seen = Append(lanes[l].seen, lanes[l].unit.outcome)
          BY <4>2, <5>1, HandSound
        <5> QED BY <5>1, <5>2 DEF HandedOver, UnitOf
      <4> QED BY <4>1, <4>2
    <3> HIDE DEF lane
    <3> QED BY <3>1, <3>3, OthersKept
  <2> QED BY <2>1, <2>2
<1>5. CASE unwind(l)
  <2>1. lanes' = [lanes EXCEPT ![l].phase = "ended"]
    BY <1>5 DEF unwind
  <2>2. lanes'[m].unit = lanes[m].unit
    BY <1>1, <2>1 DEF LaneRec
  <2> QED BY <2>2, KeptHands
<1> QED BY <1>2, <1>3, <1>4, <1>5

LEMMA SettlingHands ==
  ASSUME SInv, Walked, NEW l \in Lane, NEW m \in Lane, NEW value \in Outcome,
         inTurn(l, value) \/ settle(l, value) \/ settleDraining(l, value)
  PROVE  HandedOver(m)
<1>1. lanes \in [Lane -> LaneRec] /\ lanes[l] \in LaneRec
  BY DEF SInv, Types
<1>2. lanes[l].unit # None => lanes[l].unit.outcome = None
  <2>1. CASE inTurn(l, value)
    BY <2>1, LaneTyped DEF inTurn, LaneSound, Phase
  <2>2. CASE settle(l, value) \/ settleDraining(l, value)
    BY <2>2 DEF settle, settleDraining, RunsBody, UnitOf
  <2> QED BY <2>1, <2>2
<1>3. HandedOver(l)
  BY <1>2, KeptHands
<1>4. \/ \A k \in Lane : k # l => lanes'[k] = lanes[k]
      \/ \E error, as : fail(error, as) /\ \A k \in Lane : k # l => as[k] = lanes[k]
  <2>1. CASE inTurn(l, value)
    <3>1. CASE Poisoned \/ value \notin Errors
      <4>1. \A k \in Lane : k # l => lanes'[k] = lanes[k]
        BY <1>1, <2>1, <3>1 DEF inTurn, issue
      <4> QED BY <4>1
    <3>2. CASE ~Poisoned /\ value \in Errors
      <4> DEFINE as == [lanes EXCEPT ![l] = GiveUp(@)]
      <4>1. fail(Fault(value), as) /\ \A k \in Lane : k # l => as[k] = lanes[k]
        BY <1>1, <2>1, <3>2 DEF inTurn
      <4> HIDE DEF as
      <4> QED BY <4>1
    <3> QED BY <3>1, <3>2
  <2>2. CASE settle(l, value)
    <3> DEFINE as == [lanes EXCEPT ![l].unit.outcome = value]
    <3>1. /\ IF value \in Errors THEN fail(Fault(value), as) ELSE lanes' = as
          /\ \A k \in Lane : k # l => as[k] = lanes[k]
      BY <1>1, <2>2 DEF settle
    <3> HIDE DEF as
    <3> QED BY <3>1
  <2>3. CASE settleDraining(l, value)
    <3>1. \A k \in Lane : k # l => lanes'[k] = lanes[k]
      BY <1>1, <2>3 DEF settleDraining
    <3> QED BY <3>1
  <2> QED BY <2>1, <2>2, <2>3
<1>5. CASE m # l
  <2>1. CASE \A k \in Lane : k # l => lanes'[k] = lanes[k]
    BY <1>5, <2>1, KeptHands
  <2>2. CASE \E error, as : fail(error, as) /\ \A k \in Lane : k # l => as[k] = lanes[k]
    <3>1. PICK error, as : fail(error, as) /\ \A k \in Lane : k # l => as[k] = lanes[k]
      BY <2>2
    <3> QED BY <1>5, <3>1, FailHands
  <2> QED BY <1>4, <2>1, <2>2
<1> QED BY <1>3, <1>5

LEMMA SequencerHands ==
  ASSUME SInv, NEW m \in Lane,
         grantNext \/ quiesceSettled \/ deliverRecorded \/ follow \/ runCompletes \/ runFails
  PROVE  HandedOver(m)
<1>1. lanes \in [Lane -> LaneRec] /\ lanes[m] \in LaneRec
  BY DEF SInv, Types
<1>2. CASE lanes' = lanes
  BY <1>2, KeptHands
<1>3. CASE grantNext /\ runnable # <<>>
  <2> DEFINE w == Head(runnable)
             l == w.lane
             lane == IF w.completed THEN hand(lanes[l]) ELSE [lanes[l] EXCEPT !.phase = "running"]
  <2>1. lanes' = [lanes EXCEPT ![l] = lane]
    BY <1>3 DEF grantNext
  <2>2. w \in Wakes /\ w = runnable[1] /\ 1 \in DOMAIN runnable
    BY <1>3, TailIs DEF SInv, Types
  <2>3. l \in Lane /\ WakeSound(w, lanes[l], ToSet(inFlight))
    BY <2>2 DEF Wakes, SInv, Waking, WakesSound
  <2>4. LaneSound(lanes[l], issued, log) /\ lanes'[l] = lane
    BY <1>1, <2>1, <2>3, LaneTyped
  <2>5. HandedOver(l)
    <3>1. CASE w.completed
      <4>1. lanes[l].unit # None /\ lanes[l].unit.outcome # None
        BY <2>3, <2>4, <3>1 DEF WakeSound, LaneSound
      <4>2. hand(lanes[l]).seen = Append(lanes[l].seen, lanes[l].unit.outcome)
        BY <2>4, <4>1, HandSound
      <4> QED BY <2>4, <3>1, <4>2 DEF HandedOver, UnitOf
    <3>2. CASE ~w.completed
      <4>1. lanes[l].unit = None
        BY <2>3, <2>4, <3>2 DEF WakeSound, LaneSound
      <4> QED BY <2>3, <4>1, KeptHands
    <3> QED BY <3>1, <3>2
  <2> HIDE DEF w, l, lane
  <2> QED BY <2>1, <2>3, <2>5, OthersKept
<1>4. CASE deliverRecorded /\ lanes' # lanes
  <2>1. fail("diverged", lanes)
    BY <1>4 DEF deliverRecorded
  <2> QED BY <2>1, FailHands
<1>5. CASE runCompletes
  <2> DEFINE as == [lanes EXCEPT ![Root].phase = "ended"]
  <2>1. lanes' = as \/ fail("unfinished", as)
    BY <1>5 DEF runCompletes
  <2>2. Root \in Lane /\ lanes[Root].unit = None
    BY <1>5, LaneAssumption, AtCode DEF runCompletes
  <2>3. m # Root => as[m] = lanes[m]
    BY <1>1
  <2> HIDE DEF as
  <2>4. CASE lanes' = as
    BY <2>2, <2>3, <2>4, KeptHands
  <2>5. CASE fail("unfinished", as)
    BY <2>2, <2>3, <2>5, FailHands
  <2> QED BY <2>1, <2>4, <2>5
<1>6. (grantNext /\ runnable # <<>>) \/ lanes' = lanes \/ (deliverRecorded /\ lanes' # lanes) \/ runCompletes
  BY DEF grantNext, quiesceSettled, deliverRecorded, follow, runFails, engine
<1> QED BY <1>2, <1>3, <1>4, <1>5, <1>6

LEMMA FatalHands ==
  ASSUME SInv, NEW l \in Lane, NEW m \in Lane, endLaneFatal(l)
  PROVE  HandedOver(m)
<1> DEFINE as == [lanes EXCEPT ![l].phase = "ended"]
<1>1. Holds(l) /\ fail("error", as)
  BY DEF endLaneFatal
<1>2. lanes[l].unit = None
  BY <1>1, AtCode
<1>3. m # l => as[m] = lanes[m]
  BY DEF SInv, Types
<1> HIDE DEF as
<1> QED BY <1>1, <1>2, <1>3, FailHands

(* An operation that settled is handed to its lane, even when the run      *)
(* fails before the lane could be granted the turn (SettledIsHanded).      *)
THEOREM SettledHanded == Spec => SettledIsHanded
<1>1. ASSUME IInv, [Next]_vars, crashes' = crashes, NEW m \in Lane
      PROVE  HandedOver(m)
  <2>1. SInv /\ Walked
    BY <1>1, TrailWalked DEF IInv
  <2>2. ~crash
    <3>1. crashes \in 0..MaxCrashes
      BY <2>1 DEF SInv, Types
    <3> QED BY <1>1, <3>1, CrashAssumption DEF crash
  <2>3. CASE UNCHANGED vars
    BY <2>3, KeptHands DEF vars, engine
  <2>4. CASE Next
    <3>1. ASSUME NEW l \in Lane, \/ spawn(l) \/ step(l) \/ issueHead(l) \/ awaitParked(l)
                                 \/ joinAny(l) \/ joinAll(l) \/ endLane(l) \/ unwind(l)
          PROVE  HandedOver(m)
      BY <2>1, <3>1, CodeHands
    <3>2. ASSUME NEW l \in Lane, NEW value \in Outcome,
                 inTurn(l, value) \/ settle(l, value) \/ settleDraining(l, value)
          PROVE  HandedOver(m)
      BY <2>1, <3>2, SettlingHands
    <3>3. ASSUME grantNext \/ quiesceSettled \/ deliverRecorded \/ follow \/ runCompletes \/ runFails
          PROVE  HandedOver(m)
      BY <2>1, <3>3, SequencerHands
    <3>4. ASSUME NEW l \in Lane, endLaneFatal(l) PROVE HandedOver(m)
      BY <2>1, <3>4, FatalHands
    <3> QED BY <2>2, <2>4, <3>1, <3>2, <3>3, <3>4 DEF Next, Runs
  <2> QED BY <1>1, <2>3, <2>4
<1>2. IInv /\ [Next]_vars =>
        [\A l \in Lane :
           /\ crashes' = crashes
           /\ UnitOf(l) # None /\ UnitOf(l).outcome \notin {None} \cup Errors
           /\ UnitOf(l)' = None
           => lanes'[l].seen = Append(lanes[l].seen, UnitOf(l).outcome)]_vars
  BY <1>1 DEF HandedOver
<1> QED BY <1>2, Invariance, PTL DEF Spec, SettledIsHanded

-----------------------------------------------------------------------------
(* NobodyForgotten, lane by lane, with what it takes to keep it: a lane    *)
(* that parks is in flight, and a lane that ended is known to have.        *)
Minded(l) ==
  /\ Phase(l) = "awaiting" => l \in ToSet(inFlight) \/ Wake(l, TRUE) \in ToSet(runnable)
  /\ Phase(l) = "parking" => l \in ToSet(inFlight)
  /\ Phase(l) \in {"queued", "woken"} => Wake(l, FALSE) \in ToSet(runnable)
  /\ Phase(l) = "joining" => \A m \in lanes[l].on : Phase(m) # "ended"

Drains(l) ==
  \/ Phase(l) \in {"unborn", "running", "head", "parking", "ended"}
  \/ Phase(l) = "awaiting" /\ RunsBody(lanes[l])

Granting == turn = None => scheduled \/ (quiesce.phase # "idle" /\ inFlight # <<>>)
EndedKnown == \A l \in Lane : Phase(l) = "ended" => l \in ToSet(ended)

Minding == (\A l \in Lane : Minded(l)) /\ Granting /\ EndedKnown
NobodyLost == status = "running" => IF Poisoned THEN \A l \in Lane : Drains(l) ELSE Minding

\* Both lists go on where they were, and the lanes in one are woken.
LEMMA WakesCover ==
  ASSUME NEW r \in Seq(Wakes), NEW s \in Seq(Lane), NEW c \in BOOLEAN
  PROVE  /\ ToSet(r) \subseteq ToSet(r \o WakesOf(s, c))
         /\ \A x \in ToSet(s) : Wake(x, c) \in ToSet(r \o WakesOf(s, c))
<1> DEFINE w == WakesOf(s, c)
           q == r \o w
<1>1. Len(s) \in Nat /\ DOMAIN s = 1..Len(s) /\ \A i \in 1..Len(s) : s[i] \in Lane
  OBVIOUS
<1>2. w \in Seq(Wakes) /\ Len(w) = Len(s) /\ \A i \in 1..Len(s) : w[i] = Wake(s[i], c)
  <2>1. \A i \in 1..Len(s) : Wake(s[i], c) \in Wakes
    BY <1>1 DEF Wake, Wakes
  <2>2. w \in [1..Len(s) -> Wakes] /\ \A i \in 1..Len(s) : w[i] = Wake(s[i], c)
    BY <1>1, <2>1 DEF WakesOf
  <2> HIDE DEF w
  <2> QED BY <1>1, <2>2
<1> HIDE DEF w
<1>3. /\ q \in Seq(Wakes) /\ Len(q) = Len(r) + Len(w)
      /\ \A i \in 1..(Len(r) + Len(w)) : q[i] = IF i <= Len(r) THEN r[i] ELSE w[i - Len(r)]
  BY <1>2, ConcatProperties
<1> HIDE DEF q
<1>4. Len(r) \in Nat /\ DOMAIN r = 1..Len(r) /\ DOMAIN q = 1..(Len(r) + Len(s))
  BY <1>2, <1>3
<1>5. ASSUME NEW i \in DOMAIN r PROVE i \in DOMAIN q /\ q[i] = r[i]
  BY <1>1, <1>2, <1>3, <1>4
<1>6. ASSUME NEW i \in DOMAIN s PROVE Len(r) + i \in DOMAIN q /\ q[Len(r) + i] = Wake(s[i], c)
  BY <1>1, <1>2, <1>3, <1>4
<1>7. \A i \in DOMAIN r : r[i] \in ToSet(q)
  BY <1>5 DEF ToSet
<1>8. \A i \in DOMAIN s : Wake(s[i], c) \in ToSet(q)
  BY <1>6 DEF ToSet
<1> QED BY <1>7, <1>8 DEF ToSet, q, w

\* No lane of a set is left out.
LEMMA SetToSeqCovers ==
  ASSUME NEW S \in SUBSET Lane
  PROVE  S \subseteq ToSet(SetToSeq(S))
<1> DEFINE s == SetToSeq(S)
           n == Cardinality(S)
<1>1. IsFiniteSet(S) /\ n \in Nat
  BY LaneAssumption, FS_Subset, FS_CardinalityType
<1>2. s \in Seq(Lane) /\ DOMAIN s = 1..n /\ IsInjective(s) /\ ToSet(s) \subseteq S
  BY SetToSeqIs
<1> HIDE DEF s, n
<1>3. \A i \in 1..n : s[i] \in S
  BY <1>2 DEF ToSet
<1>4. s \in [1..n -> S]
  BY <1>2, <1>3
<1>5. s \in Injection(1..n, S)
  BY <1>2, <1>4 DEF Injection, IsInjective
<1>6. Cardinality(1..n) = n
  BY <1>1, FS_Interval
<1>7. s \in Surjection(1..n, S)
  BY <1>1, <1>5, <1>6, FS_Injection DEF n
<1> QED BY <1>2, <1>7 DEF Surjection, ToSet, s

\* A lane nothing happened to.
LEMMA StaysMinded ==
  ASSUME NEW l \in Lane, Minded(l), lanes'[l] = lanes[l],
         ToSet(runnable) \subseteq ToSet(runnable'), ToSet(inFlight) \subseteq ToSet(inFlight'),
         \A m \in lanes[l].on : Phase(m)' = "ended" => Phase(m) = "ended"
  PROVE  Minded(l)'
BY DEF Minded, Phase

\* One lane goes on, and does not end.
LEMMA OneMoves ==
  ASSUME SInv, Minding, ~Poisoned', NEW l \in Lane,
         \A m \in Lane : m # l => lanes'[m] = lanes[m],
         Phase(l)' # "ended", Minded(l)', Granting', ended' = ended,
         ToSet(runnable) \subseteq ToSet(runnable'), ToSet(inFlight) \subseteq ToSet(inFlight')
  PROVE  NobodyLost'
<1>1. \A m \in Lane : Phase(m)' = "ended" => Phase(m) = "ended"
  BY DEF Phase
<1>2. EndedKnown'
  BY <1>1 DEF Minding, EndedKnown
<1>3. ASSUME NEW m \in Lane, m # l PROVE Minded(m)'
  <2>1. lanes[m].on \subseteq Lane
    BY LaneTyped DEF LaneRec
  <2> QED BY <1>1, <1>3, <2>1, StaysMinded DEF Minding
<1> QED BY <1>2, <1>3 DEF Minding, NobodyLost

\* In a run that fails, whoever waits for anything but a step body goes on.
LEMMA RefuseDrains ==
  ASSUME NEW lane \in LaneRec
  PROVE  \/ Refuse(lane).phase \in {"unborn", "running", "head", "parking", "ended"}
         \/ Refuse(lane).phase = "awaiting" /\ RunsBody(Refuse(lane))
<1>1. hand(lane).phase = "running" /\ GiveUp(lane).phase = "running"
      /\ [lane EXCEPT !.phase = "ended"].phase = "ended"
  BY DEF hand, GiveUp, LaneRec
<1>2. lane.phase \in Phases
  BY DEF LaneRec
<1>3. CASE lane.phase = "awaiting"
  BY <1>1, <1>3 DEF Refuse
<1>4. CASE lane.phase \in {"joining", "woken", "queued"}
  BY <1>1, <1>4 DEF Refuse
<1>5. CASE lane.phase \in {"unborn", "running", "head", "parking", "ended"}
  BY <1>5 DEF Refuse
<1> QED BY <1>2, <1>3, <1>4, <1>5 DEF Phases

LEMMA FailDrains ==
  ASSUME NEW error, NEW as, fail(error, as), error \in Faults,
         \A l \in Lane : as[l] \in LaneRec
  PROVE  NobodyLost'
<1>1. Poisoned'
  BY NoneAssumption DEF fail, Poisoned, Outcome, Errors
<1>2. \A l \in Lane : lanes'[l] = Refuse(as[l])
  BY DEF fail
<1>3. \A l \in Lane : Drains(l)'
  BY <1>2, RefuseDrains DEF Drains, Phase
<1> QED BY <1>1, <1>3 DEF NobodyLost

\* After the failure, one lane goes on.
LEMMA OneDrains ==
  ASSUME NobodyLost, status = "running", Poisoned, UNCHANGED poison, NEW l \in Lane,
         \A m \in Lane : m # l => lanes'[m] = lanes[m], Drains(l)'
  PROVE  NobodyLost'
<1>1. Poisoned'
  BY DEF Poisoned
<1>2. \A m \in Lane : Drains(m)'
  BY DEF NobodyLost, Drains, Phase
<1> QED BY <1>1, <1>2 DEF NobodyLost

LEMMA SpawnMinds ==
  ASSUME SInv, Minding, NEW l \in Lane, spawn(l)
  PROVE  NobodyLost'
<1>1. PICK new \in Lane :
        /\ Phase(new) = "unborn"
        /\ lanes' = [lanes EXCEPT ![l].seen = Append(@, new), ![new].phase = "queued"]
        /\ runnable' = Append(runnable, Wake(new, FALSE))
  BY DEF spawn
<1>2. /\ Holds(l) /\ ended' = ended /\ turn' = turn /\ inFlight' = inFlight /\ poison' = poison
  BY DEF spawn
<1>3. lanes[l].phase = "running" /\ turn = l /\ l # None /\ ~Poisoned' /\ new # l
  BY <1>1, <1>2, AtCode, LaneAssumption DEF Phase, Poisoned
<1>4. lanes \in [Lane -> LaneRec] /\ runnable \in Seq(Wakes) /\ Wake(new, FALSE) \in Wakes
  BY DEF SInv, Types, Wakes, Wake
<1>5. ToSet(runnable') = ToSet(runnable) \cup {Wake(new, FALSE)}
  <2> DEFINE w == Wake(new, FALSE)
  <2>1. w \in Wakes /\ runnable' = Append(runnable, w)
    BY <1>1, <1>4
  <2> HIDE DEF w
  <2>2. ToSet(runnable') = ToSet(runnable) \cup {w}
    BY <1>4, <2>1, AppendIs
  <2> QED BY <2>2 DEF w
<1>6. /\ Phase(l)' = "running" /\ Phase(new)' = "queued"
      /\ \A m \in Lane : m \notin {l, new} => lanes'[m] = lanes[m]
  BY <1>1, <1>3, <1>4 DEF Phase, LaneRec
<1>7. \A m \in Lane : Phase(m)' = "ended" => Phase(m) = "ended"
  BY <1>6 DEF Phase
<1>8. EndedKnown' /\ Granting'
  BY <1>2, <1>3, <1>7 DEF Minding, EndedKnown, Granting
<1>9. ASSUME NEW m \in Lane PROVE Minded(m)'
  <2>1. CASE m = l
    BY <1>6, <2>1 DEF Minded
  <2>2. CASE m = new
    BY <1>5, <1>6, <2>2 DEF Minded
  <2>3. CASE m \notin {l, new}
    <3>1. lanes[m].on \subseteq Lane
      BY <1>4 DEF LaneRec
    <3> QED BY <1>2, <1>5, <1>6, <1>7, <2>3, <3>1, StaysMinded DEF Minding
  <2> QED BY <2>1, <2>2, <2>3
<1> QED BY <1>3, <1>8, <1>9 DEF NobodyLost, Minding

\* The lane that holds the turn asks for a step or a wait, or for a join.
LEMMA AskMinds ==
  ASSUME SInv, Minding, NEW l \in Lane, step(l) \/ issueHead(l) \/ joinAny(l) \/ joinAll(l)
  PROVE  NobodyLost'
<1>1. Holds(l) /\ lanes \in [Lane -> LaneRec] /\ inFlight \in Seq(Lane)
  BY DEF step, issueHead, joinAny, joinAll, SInv, Types
<1>2. ~Poisoned /\ turn = l /\ l # None
  BY <1>1, AtCode, LaneAssumption
<1>3. ended' = ended /\ runnable' = runnable /\ poison' = poison /\ ~Poisoned'
  BY <1>2 DEF step, issueHead, joinAny, joinAll, Poisoned
<1>4. \A m \in Lane : m # l => lanes'[m] = lanes[m]
  BY <1>1 DEF step, issueHead, joinAny, joinAll, issue, Join
<1>5. Granting'
  BY <1>2 DEF step, issueHead, joinAny, joinAll, Join, release, Granting
<1>6. ToSet(inFlight) \subseteq ToSet(inFlight')
  <2>1. inFlight' = inFlight \/ inFlight' = Append(inFlight, l)
    BY DEF step, issueHead, joinAny, joinAll, issue
  <2>2. inFlight' = Append(inFlight, l) => ToSet(inFlight') = ToSet(inFlight) \cup {l}
    BY <1>1, AppendIs
  <2> QED BY <2>1, <2>2
<1>7. Phase(l)' # "ended" /\ Minded(l)'
  <2>0. ASSUME NEW phase, NEW unit, lanes' = [lanes EXCEPT ![l].phase = phase, ![l].unit = unit]
        PROVE  Phase(l)' = phase
    BY <1>1, <2>0 DEF Phase, LaneRec
  <2>1. CASE step(l)
    <3>1. Phase(l)' = "awaiting" /\ inFlight' = Append(inFlight, l)
      BY <2>0, <2>1 DEF step, issue
    <3>2. ToSet(inFlight') = ToSet(inFlight) \cup {l}
      BY <1>1, <3>1, AppendIs
    <3> QED BY <3>1, <3>2 DEF Minded
  <2>2. CASE issueHead(l)
    <3>1. Phase(l)' = "head"
      BY <2>0, <2>2 DEF issueHead
    <3> QED BY <3>1 DEF Minded
  <2>3. CASE joinAny(l) \/ joinAll(l)
    <3>1. PICK on \in SUBSET Lane :
            \/ lanes' = [lanes EXCEPT ![l].phase = "joining", ![l].on = on] /\ on \cap ToSet(ended) = {}
            \/ \E x : lanes' = [lanes EXCEPT ![l].seen = Append(@, x)]
      <4>1. CASE joinAny(l)
        BY <4>1 DEF joinAny, Join
      <4>2. CASE joinAll(l)
        <5>1. PICK on \in SUBSET Lane :
                \/ lanes' = [lanes EXCEPT ![l].phase = "joining", ![l].on = on \ ToSet(ended)]
                \/ \E x : lanes' = [lanes EXCEPT ![l].seen = Append(@, x)]
          BY <4>2 DEF joinAll, Join
        <5>2. on \ ToSet(ended) \in SUBSET Lane /\ (on \ ToSet(ended)) \cap ToSet(ended) = {}
          OBVIOUS
        <5> QED BY <5>1, <5>2
      <4> QED BY <2>3, <4>1, <4>2
    <3>2. CASE \E x : lanes' = [lanes EXCEPT ![l].seen = Append(@, x)]
      <4>1. Phase(l)' = "running"
        BY <1>1, <3>2, AtCode DEF Phase, LaneRec
      <4> QED BY <4>1 DEF Minded
    <3>3. CASE lanes' = [lanes EXCEPT ![l].phase = "joining", ![l].on = on] /\ on \cap ToSet(ended) = {}
      <4>1. Phase(l)' = "joining" /\ lanes'[l].on = on
        BY <1>1, <3>3 DEF Phase, LaneRec
      <4>2. \A m \in on : Phase(m)' # "ended"
        BY <1>4, <3>3, <4>1 DEF Minding, EndedKnown, Phase
      <4> QED BY <4>1, <4>2 DEF Minded
    <3> QED BY <3>1, <3>2, <3>3
  <2> QED BY <2>1, <2>2, <2>3
<1> QED BY <1>3, <1>4, <1>5, <1>6, <1>7, OneMoves

LEMMA ParkMinds ==
  ASSUME SInv, NobodyLost, status = "running", NEW l \in Lane, awaitParked(l)
  PROVE  NobodyLost'
<1>1. /\ lanes \in [Lane -> LaneRec] /\ lanes[l] \in LaneRec /\ Phase(l) = "parking"
      /\ ended' = ended /\ runnable' = runnable /\ inFlight' = inFlight /\ poison' = poison
  BY DEF SInv, Types, awaitParked
<1>2. \A m \in Lane : m # l => lanes'[m] = lanes[m]
  BY <1>1 DEF awaitParked
<1>3. CASE Poisoned
  <2>1. hand(lanes[l]).phase = "running" /\ GiveUp(lanes[l]).phase = "running"
    BY <1>1 DEF hand, GiveUp, LaneRec
  <2>2. lanes'[l] = hand(lanes[l]) \/ lanes'[l] = GiveUp(lanes[l])
    BY <1>1, <1>3 DEF awaitParked
  <2>3. Drains(l)'
    BY <2>1, <2>2 DEF Drains, Phase
  <2> QED BY <1>1, <1>2, <1>3, <2>3, OneDrains
<1>4. CASE ~Poisoned
  <2>1. Minding
    BY <1>4 DEF NobodyLost
  <2>2. Phase(l)' = "awaiting" /\ Granting' /\ ~Poisoned'
    BY <1>1, <1>4 DEF awaitParked, release, Phase, LaneRec, Granting, Poisoned
  <2>3. Minded(l)'
    BY <1>1, <2>1, <2>2 DEF Minding, Minded
  <2> QED BY <1>1, <1>2, <2>1, <2>2, <2>3, OneMoves
<1> QED BY <1>3, <1>4

LEMMA EndLaneMinds ==
  ASSUME SInv, Minding, NEW l \in Lane, endLane(l)
  PROVE  NobodyLost'
<1> DEFINE J == Joiners(l)
           s == SetToSeq(J)
           woken(j) == [lanes[j] EXCEPT !.phase = "woken", !.on = {},
                          !.seen = IF Command(j).do = "joinAny" THEN Append(@, l) ELSE @]
<1>1. /\ Holds(l) /\ ended' = Append(ended, l) /\ turn' = None /\ scheduled' = TRUE
      /\ inFlight' = inFlight /\ poison' = poison
  BY DEF endLane, release
<1>2. /\ lanes \in [Lane -> LaneRec] /\ ended \in Seq(Lane) /\ runnable \in Seq(Wakes)
      /\ ~Poisoned' /\ lanes[l].phase = "running"
  BY <1>1, AtCode DEF SInv, Types, Poisoned
<1>3. J \in SUBSET Lane /\ l \notin J
  BY <1>2 DEF Joiners, Phase
<1>4. s \in Seq(Lane) /\ DOMAIN s = 1..Cardinality(J) /\ J \subseteq ToSet(s)
  BY <1>3, SetToSeqIs, SetToSeqCovers
<1>5. runnable' = runnable \o WakesOf(s, FALSE)
  <2>1. runnable' = runnable \o [i \in 1..Cardinality(J) |-> Wake(s[i], FALSE)]
    BY DEF endLane
  <2> QED BY <1>4, <2>1 DEF WakesOf
<1>6. /\ Phase(l)' = "ended" /\ \A j \in J : lanes'[j] = woken(j)
      /\ \A m \in Lane : m # l /\ m \notin J => lanes'[m] = lanes[m]
  <2> DEFINE me == [lanes[l] EXCEPT !.phase = "ended"]
  <2>1. lanes' = [j \in Lane |-> CASE j = l -> me [] j \in J -> woken(j) [] OTHER -> lanes[j]]
    BY DEF endLane
  <2>2. me.phase = "ended"
    BY <1>2 DEF LaneRec
  <2> HIDE DEF J, me, woken
  <2> QED BY <1>3, <2>1, <2>2 DEF Phase
<1>7. \A j \in J : Phase(j)' = "woken"
  <2>1. \A j \in J : woken(j).phase = "woken"
    BY <1>2, <1>3 DEF LaneRec
  <2> HIDE DEF J, woken
  <2> QED BY <1>6, <2>1 DEF Phase
<1> HIDE DEF s, woken
<1>8. /\ ToSet(runnable) \subseteq ToSet(runnable')
      /\ \A j \in J : Wake(j, FALSE) \in ToSet(runnable')
  <2>1. FALSE \in BOOLEAN
    OBVIOUS
  <2> HIDE DEF J
  <2> QED BY <1>2, <1>4, <1>5, <2>1, WakesCover
<1>9. ToSet(ended') = ToSet(ended) \cup {l}
  BY <1>1, <1>2, AppendIs
<1>10. EndedKnown' /\ Granting'
  <2>1. \A m \in Lane : m # l /\ Phase(m)' = "ended" => Phase(m) = "ended"
    BY <1>6, <1>7 DEF Phase
  <2> QED BY <1>1, <1>9, <2>1 DEF Minding, EndedKnown, Granting
<1>11. ASSUME NEW m \in Lane PROVE Minded(m)'
  <2>1. CASE m = l
    BY <1>6, <2>1 DEF Minded
  <2>2. CASE m \in J
    BY <1>7, <1>8, <2>2 DEF Minded
  <2>3. CASE m # l /\ m \notin J
    <3>1. Minded(m) /\ lanes'[m] = lanes[m] /\ lanes[m].on \subseteq Lane
      BY <1>2, <1>6, <2>3 DEF Minding, LaneRec
    <3>2. Phase(m) = "joining" => \A k \in lanes[m].on : Phase(k)' # "ended"
      <4>1. Phase(m) = "joining" => l \notin lanes[m].on
        BY <2>3 DEF Joiners
      <4> QED BY <1>6, <1>7, <3>1, <4>1 DEF Minded, Phase
    <3> QED BY <1>1, <1>8, <3>1, <3>2 DEF Minded, Phase
  <2> QED BY <2>1, <2>2, <2>3
<1> QED BY <1>2, <1>10, <1>11 DEF NobodyLost, Minding

\* What a lane waits for comes to something, in turn or in flight.
LEMMA InTurnMinds ==
  ASSUME SInv, NobodyLost, status = "running", NEW l \in Lane, NEW value, inTurn(l, value)
  PROVE  NobodyLost'
<1>1. lanes \in [Lane -> LaneRec] /\ lanes[l] \in LaneRec /\ Phase(l) = "head" /\ inFlight \in Seq(Lane)
  BY DEF SInv, Types, inTurn
<1>2. ended' = ended /\ GiveUp(lanes[l]).phase = "running"
  BY <1>1 DEF inTurn, GiveUp, LaneRec
<1>3. CASE Poisoned
  <2>1. lanes' = [lanes EXCEPT ![l] = GiveUp(lanes[l])] /\ UNCHANGED poison
    BY <1>1, <1>3 DEF inTurn
  <2>2. Drains(l)' /\ \A m \in Lane : m # l => lanes'[m] = lanes[m]
    BY <1>1, <1>2, <2>1 DEF Drains, Phase
  <2> QED BY <1>3, <2>1, <2>2, OneDrains
<1>4. CASE ~Poisoned /\ value \in Errors
  <2> DEFINE as == [lanes EXCEPT ![l] = GiveUp(lanes[l])]
  <2>1. fail(Fault(value), as)
    BY <1>1, <1>4 DEF inTurn
  <2>2. Fault(value) \in Faults
    BY DEF Fault, Faults
  <2>3. GiveUp(lanes[l]) \in LaneRec
    <3>1. LaneSound(GiveUp(lanes[l]), issued, log)
      BY LaneTyped, GiveUpSound
    <3> QED BY <3>1 DEF LaneSound
  <2>4. \A m \in Lane : as[m] \in LaneRec
    BY <1>1, <2>3
  <2> HIDE DEF as
  <2> QED BY <2>1, <2>2, <2>4, FailDrains
<1>5. CASE ~Poisoned /\ value \notin Errors
  <2>1. /\ issue(l, UnitOf(l).name, TRUE, "parking")
        /\ UNCHANGED <<turn, runnable, scheduled, quiesce, poison>>
    BY <1>5 DEF inTurn
  <2>2. Minding
    BY <1>5 DEF NobodyLost
  <2>3. /\ Phase(l)' = "parking" /\ inFlight' = Append(inFlight, l)
        /\ \A m \in Lane : m # l => lanes'[m] = lanes[m]
    BY <1>1, <2>1 DEF issue, Phase, LaneRec
  <2>4. ToSet(inFlight') = ToSet(inFlight) \cup {l}
    BY <1>1, <2>3, AppendIs
  <2>5. Minded(l)'
    BY <2>3, <2>4 DEF Minded
  <2>6. Granting' /\ ~Poisoned'
    <3>1. turn = l /\ l # None
      BY <1>1, <1>5, InTurnHolds, LaneAssumption
    <3> QED BY <1>5, <2>1, <3>1 DEF Granting, Poisoned
  <2> QED BY <1>2, <2>1, <2>2, <2>3, <2>4, <2>5, <2>6, OneMoves
<1> QED BY <1>3, <1>4, <1>5

LEMMA SettleMinds ==
  ASSUME SInv, Walked, NobodyLost, status = "running", NEW l \in Lane, NEW value, settle(l, value)
  PROVE  NobodyLost'
<1>1. /\ ~Poisoned /\ l \in ToSet(inFlight) /\ SettlesTo(UnitOf(l), value) /\ ended' = ended
      /\ lanes \in [Lane -> LaneRec] /\ Phase(l) \in {"parking", "awaiting"}
  BY DEF settle, SInv, Types, Flying
<1>2. lanes[l].unit # None /\ Phase(l) # "head"
  BY <1>1, LaneTyped DEF LaneSound, Phase
<1> DEFINE as == [lanes EXCEPT ![l].unit.outcome = value]
<1>3. LaneSound(Came(l, value), issued, log') /\ Came(l, value).phase = lanes[l].phase
  BY <1>1, <1>2, CameSound
<1>4. as[l] = Came(l, value) /\ \A m \in Lane : m # l => as[m] = lanes[m]
  BY <1>1 DEF Came
<1>5. IF value \in Errors THEN fail(Fault(value), as)
      ELSE lanes' = as /\ UNCHANGED <<turn, runnable, scheduled, inFlight, quiesce, poison>>
  BY DEF settle
<1> HIDE DEF as
<1>6. CASE value \in Errors
  <2>1. Fault(value) \in Faults
    BY DEF Fault, Faults
  <2>2. \A m \in Lane : as[m] \in LaneRec
    BY <1>1, <1>3, <1>4 DEF LaneSound
  <2> QED BY <1>5, <1>6, <2>1, <2>2, FailDrains
<1>7. CASE value \notin Errors
  <2>1. Minding /\ ~Poisoned'
    BY <1>1, <1>5, <1>7 DEF NobodyLost, Poisoned
  <2>2. Phase(l)' \in {"parking", "awaiting"}
    BY <1>1, <1>3, <1>4, <1>5, <1>7 DEF Phase
  <2>3. Minded(l)'
    BY <1>1, <1>5, <1>7, <2>2 DEF Minded
  <2>4. Granting'
    BY <1>5, <1>7, <2>1 DEF Minding, Granting
  <2> QED BY <1>1, <1>4, <1>5, <1>7, <2>1, <2>2, <2>3, <2>4, OneMoves
<1> QED BY <1>6, <1>7

\* A failed run drains.
LEMMA DrainingMinds ==
  ASSUME SInv, NobodyLost, status = "running", NEW l \in Lane,
         unwind(l) \/ \E value \in Outcome : settleDraining(l, value)
  PROVE  NobodyLost'
<1>1. lanes \in [Lane -> LaneRec] /\ lanes[l] \in LaneRec
  BY DEF SInv, Types
<1>2. Poisoned /\ UNCHANGED poison /\ \A m \in Lane : m # l => lanes'[m] = lanes[m]
  BY <1>1 DEF unwind, settleDraining
<1>3. Drains(l)'
  <2>1. CASE unwind(l)
    <3>1. Phase(l)' = "ended"
      BY <1>1, <2>1 DEF unwind, Phase, LaneRec
    <3> QED BY <3>1 DEF Drains
  <2>2. CASE \E value \in Outcome : settleDraining(l, value)
    <3>1. PICK value \in Outcome : settleDraining(l, value)
      BY <2>2
    <3>2. lanes[l].phase = "awaiting"
      <4>1. RunsBody(lanes[l]) /\ Phase(l) # "head"
        BY <3>1 DEF settleDraining
      <4>2. lanes[l].phase \in {"head", "parking", "awaiting"} /\ (lanes[l].phase = "parking" => lanes[l].unit.owned)
        BY <4>1, LaneTyped DEF LaneSound, RunsBody
      <4> QED BY <4>1, <4>2 DEF RunsBody, Phase
    <3> DEFINE came == [lanes[l] EXCEPT !.unit.outcome = value]
    <3>3. lanes'[l] = hand(came)
      BY <1>1, <3>1, <3>2 DEF settleDraining
    <3>4. hand(came).phase = "running"
      BY <1>1 DEF hand, LaneRec
    <3> QED BY <3>3, <3>4 DEF Drains, Phase
  <2> QED BY <2>1, <2>2
<1> QED BY <1>2, <1>3, OneDrains

LEMMA FatalMinds ==
  ASSUME SInv, NEW l \in Lane, endLaneFatal(l)
  PROVE  NobodyLost'
<1> DEFINE as == [lanes EXCEPT ![l].phase = "ended"]
<1>1. fail("error", as)
  BY DEF endLaneFatal
<1>2. lanes[l].unit = None
  <2>1. Holds(l)
    BY DEF endLaneFatal
  <2> QED BY <2>1, AtCode
<1>3. \A m \in Lane : as[m] \in LaneRec
  BY <1>2, LaneTyped, EndSound DEF LaneSound, SInv, Types
<1> HIDE DEF as
<1> QED BY <1>1, <1>3, FailDrains DEF Faults

\* The first in line is granted the turn; the others stay in line.
LEMMA GrantMinds ==
  ASSUME SInv, Minding, grantNext
  PROVE  NobodyLost'
<1>1. /\ ~Poisoned /\ turn = None /\ ended' = ended /\ inFlight' = inFlight /\ poison' = poison
      /\ lanes \in [Lane -> LaneRec] /\ runnable \in Seq(Wakes) /\ ~Poisoned'
  BY DEF grantNext, SInv, Types, Poisoned
<1>2. CASE runnable # <<>>
  <2>0. PICK w \in Wakes : w = Head(runnable)
    BY <1>1, <1>2, TailIs
  <2> DEFINE l == w.lane
             lane == IF w.completed THEN hand(lanes[l]) ELSE [lanes[l] EXCEPT !.phase = "running"]
  <2>1. turn' = l /\ runnable' = Tail(runnable) /\ lanes' = [lanes EXCEPT ![l] = lane]
    BY <1>2, <2>0 DEF grantNext
  <2>2. /\ w = runnable[1] /\ Len(runnable) \in Nat
        /\ DOMAIN Tail(runnable) = 1..(Len(runnable) - 1) /\ DOMAIN runnable = 1..Len(runnable)
        /\ \A i \in 1..(Len(runnable) - 1) : Tail(runnable)[i] = runnable[i + 1]
    BY <1>1, <1>2, <2>0
  <2>3. l \in Lane
    BY DEF Wakes
  <2>4. lane.phase = "running"
    BY <1>1, <2>3 DEF hand, LaneRec
  <2> HIDE DEF lane, l
  <2>5. Phase(l)' = "running" /\ \A m \in Lane : m # l => lanes'[m] = lanes[m]
    BY <1>1, <2>1, <2>3, <2>4 DEF Phase
  <2>6. \A i \in DOMAIN runnable : runnable[i] # w => runnable[i] \in ToSet(runnable')
    <3> SUFFICES ASSUME NEW i \in 1..Len(runnable), i # 1 PROVE runnable[i] \in ToSet(runnable')
      BY <2>2
    <3>1. i - 1 \in DOMAIN runnable' /\ runnable'[i - 1] = runnable[i]
      BY <2>1, <2>2
    <3> QED BY <3>1 DEF ToSet
  <2>7. \A x \in ToSet(runnable) : x.lane # l => x \in ToSet(runnable')
    BY <2>6 DEF ToSet, l
  <2>8. \A m \in Lane : Phase(m)' = "ended" => Phase(m) = "ended"
    BY <2>5 DEF Phase
  <2>9. EndedKnown' /\ Granting'
    BY <1>1, <2>1, <2>3, <2>8, LaneAssumption DEF Minding, EndedKnown, Granting
  <2>10. ASSUME NEW m \in Lane PROVE Minded(m)'
    <3>1. CASE m = l
      BY <2>5, <3>1 DEF Minded
    <3>2. CASE m # l
      <4>1. Minded(m) /\ lanes'[m] = lanes[m] /\ lanes[m].on \subseteq Lane
        BY <1>1, <2>5, <3>2 DEF Minding, LaneRec
      <4>2. \A c : Wake(m, c).lane = m
        BY DEF Wake
      <4>3. \A c : Wake(m, c) \in ToSet(runnable) => Wake(m, c) \in ToSet(runnable')
        BY <2>7, <3>2, <4>2
      <4> QED BY <1>1, <2>8, <4>1, <4>3 DEF Minded, Phase
    <3> QED BY <3>1, <3>2
  <2> QED BY <1>1, <2>9, <2>10 DEF NobodyLost, Minding
<1>3. CASE runnable = <<>>
  <2>1. /\ quiesce' = [Idle EXCEPT !.phase = "watching"] /\ inFlight # <<>>
        /\ lanes' = lanes /\ turn' = turn /\ runnable' = runnable
    BY <1>3 DEF grantNext
  <2>2. quiesce'.phase = "watching"
    BY <2>1 DEF Idle
  <2>3. \A m \in Lane : Minded(m)'
    BY <1>1, <2>1 DEF Minding, Minded, Phase
  <2>4. EndedKnown' /\ Granting'
    BY <1>1, <2>1, <2>2 DEF Minding, EndedKnown, Granting, Phase
  <2> QED BY <1>1, <2>3, <2>4 DEF NobodyLost, Minding
<1> QED BY <1>2, <1>3

\* What settled is delivered to its lanes, all of it.
LEMMA DeliverMinds ==
  ASSUME SInv, Minding, ~Poisoned, quiesce.phase # "idle", NEW S \in SUBSET Settled, deliver(S),
         UNCHANGED <<lanes, ended, poison>>
  PROVE  NobodyLost'
<1>1. /\ lanes' = lanes /\ ended' = ended /\ poison' = poison /\ ~Poisoned'
      /\ inFlight' = Rest(S) /\ scheduled' = TRUE
  BY DEF deliver, Poisoned
<1>2. /\ lanes \in [Lane -> LaneRec] /\ inFlight \in Seq(Lane) /\ runnable \in Seq(Wakes)
      /\ turn = None
  BY DEF SInv, Types, Quiescing
<1> DEFINE s == InOrder(S)
<1>3. s \in Seq(Lane) /\ ToSet(s) = ToSet(inFlight) \cap S
  BY <1>2, OnlyIs DEF InOrder
<1>4. ToSet(inFlight') = ToSet(inFlight) \ S
  <2>1. ToSet(inFlight') = ToSet(inFlight) \cap (ToSet(inFlight) \ S)
    BY <1>1, <1>2, OnlyIs DEF Rest
  <2> QED BY <2>1
<1>5. runnable' = runnable \o WakesOf(s, TRUE)
  BY DEF deliver, WakesOf
<1> HIDE DEF s
<1>6. ToSet(runnable) \subseteq ToSet(runnable') /\ \A x \in ToSet(s) : Wake(x, TRUE) \in ToSet(runnable')
  <2>1. TRUE \in BOOLEAN
    OBVIOUS
  <2> QED BY <1>2, <1>3, <1>5, <2>1, WakesCover
<1>7. ASSUME NEW m \in Lane PROVE Minded(m)'
  <2>1. Minded(m) /\ Phase(m) # "parking"
    BY <1>2, LaneAssumption DEF Minding, SInv, Turns
  <2> QED BY <1>1, <1>3, <1>4, <1>6, <2>1 DEF Minded, Phase
<1>8. EndedKnown' /\ Granting'
  BY <1>1 DEF Minding, EndedKnown, Granting, Phase
<1> QED BY <1>1, <1>7, <1>8 DEF NobodyLost, Minding

LEMMA QuiesceMinds ==
  ASSUME SInv, NobodyLost, status = "running", quiesceSettled \/ deliverRecorded \/ follow
  PROVE  NobodyLost'
<1>1. quiesce.phase # "idle" /\ status' = status
  BY DEF quiesceSettled, deliverRecorded, follow
<1>2. ASSUME ~Poisoned, UNCHANGED <<lanes, ended, turn, poison, runnable, inFlight>>, quiesce'.phase # "idle"
      PROVE  NobodyLost'
  <2>1. Minding /\ turn = None /\ ~scheduled
    BY <1>1, <1>2 DEF NobodyLost, SInv, Quiescing
  <2>2. ~Poisoned' /\ Granting'
    BY <1>2, <2>1 DEF Minding, Granting, Poisoned
  <2>3. EndedKnown' /\ \A m \in Lane : Minded(m)'
    BY <1>2, <2>1 DEF Minding, EndedKnown, Minded, Phase
  <2> QED BY <2>2, <2>3 DEF NobodyLost, Minding
<1>3. CASE quiesceSettled
  <2>1. ~Poisoned /\ UNCHANGED <<lanes, ended, turn, poison>>
    BY <1>3 DEF quiesceSettled, SInv, Quiescing
  <2>2. Minding
    BY <2>1 DEF NobodyLost
  <2>3. CASE Len(inFlight) = 1
    <3>1. deliver(Settled) /\ Settled \in SUBSET Settled
      BY <1>3, <2>3 DEF quiesceSettled
    <3> QED BY <1>1, <2>1, <2>2, <3>1, DeliverMinds
  <2>4. CASE Len(inFlight) # 1
    <3>1. /\ quiesce' = [phase |-> "recording", id |-> Len(issued) + 1,
                         pending |-> Names(inFlight), chosen |-> Indexes(Settled)]
          /\ UNCHANGED <<inFlight, runnable, scheduled>>
      BY <1>3, <2>4 DEF quiesceSettled
    <3>2. quiesce'.phase = "recording"
      BY <3>1
    <3> QED BY <1>2, <2>1, <3>1, <3>2
  <2> QED BY <2>3, <2>4
<1>4. CASE deliverRecorded
  <2>1. UNCHANGED <<ended, issued, status>>
    BY <1>4 DEF deliverRecorded
  <2>2. CASE Poisoned
    <3>1. UNCHANGED <<lanes, poison>>
      BY <1>4, <2>2 DEF deliverRecorded
    <3> QED BY <2>2, <3>1 DEF NobodyLost, Drains, Phase, Poisoned
  <2>3. CASE ~Poisoned /\ FollowsRecord(Decision(quiesce.id))
    <3>1. quiesce' = [quiesce EXCEPT !.phase = "following", !.chosen = Decision(quiesce.id).settled]
          /\ UNCHANGED <<lanes, turn, runnable, scheduled, inFlight, poison>>
      BY <1>4, <2>3 DEF deliverRecorded
    <3>2. quiesce'.phase = "following"
      BY <3>1 DEF SInv, Types, Quiesces
    <3> QED BY <1>2, <2>1, <2>3, <3>1, <3>2
  <2>4. CASE ~Poisoned /\ ~FollowsRecord(Decision(quiesce.id))
    <3>1. fail("diverged", lanes) /\ "diverged" \in Faults
      BY <1>4, <2>4 DEF deliverRecorded, Faults
    <3>2. \A m \in Lane : lanes[m] \in LaneRec
      BY LaneTyped
    <3> QED BY <3>1, <3>2, FailDrains
  <2> QED BY <2>2, <2>3, <2>4
<1>5. CASE follow
  <2> DEFINE S == {l \in Settled : UnitOf(l).index \in quiesce.chosen}
  <2>1. ~Poisoned /\ UNCHANGED <<lanes, ended, poison>> /\ deliver(S)
    BY <1>5 DEF follow, SInv, Quiescing
  <2>2. Minding /\ S \in SUBSET Settled
    BY <2>1 DEF NobodyLost
  <2> HIDE DEF S
  <2> QED BY <1>1, <2>1, <2>2, DeliverMinds
<1> QED BY <1>3, <1>4, <1>5

LEMMA FreshMinds == Begins => NobodyLost
<1> SUFFICES ASSUME Begins PROVE NobodyLost
  OBVIOUS
<1>1. /\ lanes = Fresh /\ turn = Root /\ poison = None /\ Root \in Lane /\ Root # None
  BY LaneAssumption DEF Begins
<1>2. \A l \in Lane : Phase(l) \in {"unborn", "running"}
  BY <1>1 DEF Fresh, Unborn, Phase
<1>3. \A l \in Lane : Minded(l)
  BY <1>2 DEF Minded
<1>4. EndedKnown /\ Granting
  BY <1>1, <1>2 DEF EndedKnown, Granting
<1> QED BY <1>1, <1>3, <1>4 DEF NobodyLost, Minding, Poisoned

\* A run that is over needs nobody.
LEMMA LastMinds ==
  ASSUME SInv, NobodyLost, runCompletes \/ runFails \/ UNCHANGED vars
  PROVE  NobodyLost'
<1>1. CASE runCompletes
  <2> DEFINE as == [lanes EXCEPT ![Root].phase = "ended"]
  <2>1. status' = "completed" \/ fail("unfinished", as)
    BY <1>1 DEF runCompletes
  <2>2. Root \in Lane /\ lanes[Root].unit = None
    BY <1>1, LaneAssumption, AtCode DEF runCompletes
  <2>3. \A m \in Lane : as[m] \in LaneRec
    BY <2>2, LaneTyped, EndSound DEF LaneSound, SInv, Types
  <2>4. "unfinished" \in Faults
    BY DEF Faults
  <2> HIDE DEF as
  <2> QED BY <2>1, <2>3, <2>4, FailDrains DEF NobodyLost
<1>2. CASE runFails
  BY <1>2 DEF runFails, NobodyLost
<1>3. CASE UNCHANGED vars
  <2>1. /\ lanes' = lanes /\ ended' = ended /\ turn' = turn /\ runnable' = runnable /\ scheduled' = scheduled
        /\ inFlight' = inFlight /\ quiesce' = quiesce /\ poison' = poison /\ status' = status
    BY <1>3 DEF vars, engine
  <2>2. \A m \in Lane : (Minded(m) => Minded(m)') /\ (Drains(m) => Drains(m)')
    BY <2>1 DEF Minded, Drains, Phase
  <2>3. (EndedKnown => EndedKnown') /\ (Granting => Granting')
    BY <2>1 DEF EndedKnown, Granting, Phase
  <2> QED BY <2>1, <2>2, <2>3 DEF NobodyLost, Minding, Poisoned
<1> QED BY <1>1, <1>2, <1>3

LEMMA NextMinds ==
  ASSUME IInv, NobodyLost, [Next]_vars
  PROVE  NobodyLost'
<1>1. SInv /\ Walked
  BY TrailWalked DEF IInv
<1>2. CASE status # "running"
  <2>1. CASE UNCHANGED vars
    BY <1>1, <2>1, LastMinds
  <2>2. CASE Next
    <3>1. status' = status \/ runCompletes \/ runFails
      BY <2>2 DEF Next, Runs, spawn, step, issueHead, awaitParked, joinAny, joinAll, endLane, unwind, inTurn,
                  settle, settleDraining, grantNext, quiesceSettled, deliverRecorded, follow, crash, endLaneFatal
    <3> QED BY <1>1, <1>2, <3>1, LastMinds DEF NobodyLost
  <2> QED BY <2>1, <2>2
<1>3. CASE status = "running"
  <2>1. ~Poisoned => Minding
    BY <1>3 DEF NobodyLost
  <2>2. ASSUME NEW l \in Lane, Holds(l) PROVE Minding
    BY <2>1, <2>2 DEF Holds
  <2>3. ASSUME NEW l \in Lane, spawn(l) \/ step(l) \/ issueHead(l) \/ joinAny(l) \/ joinAll(l) \/ endLane(l)
        PROVE  NobodyLost'
    <3>1. Minding
      <4>1. Holds(l)
        BY <2>3 DEF spawn, step, issueHead, joinAny, joinAll, endLane
      <4> QED BY <2>2, <4>1
    <3> QED BY <1>1, <2>3, <3>1, SpawnMinds, AskMinds, EndLaneMinds
  <2>4. ASSUME NEW l \in Lane, awaitParked(l) \/ unwind(l) PROVE NobodyLost'
    BY <1>1, <1>3, <2>4, ParkMinds, DrainingMinds
  <2>5. ASSUME NEW l \in Lane, NEW value \in Outcome, inTurn(l, value) \/ settle(l, value) \/ settleDraining(l, value)
        PROVE  NobodyLost'
    BY <1>1, <1>3, <2>5, InTurnMinds, SettleMinds, DrainingMinds
  <2>6. ASSUME grantNext PROVE NobodyLost'
    <3>1. Minding
      BY <2>1, <2>6 DEF grantNext
    <3> QED BY <1>1, <2>6, <3>1, GrantMinds
  <2>7. ASSUME quiesceSettled \/ deliverRecorded \/ follow PROVE NobodyLost'
    BY <1>1, <1>3, <2>7, QuiesceMinds
  <2>8. ASSUME runCompletes \/ runFails \/ UNCHANGED vars PROVE NobodyLost'
    BY <1>1, <2>8, LastMinds
  <2>9. ASSUME crash PROVE NobodyLost'
    <3>1. Begins'
      <4>1. SInv'
        BY <1>1, <2>9, CrashSound
      <4> QED BY <1>3, <2>9, <4>1 DEF crash, Begins, SInv, Types
    <3> QED BY <3>1, FreshMinds, PTL
  <2>10. ASSUME NEW l \in Lane, endLaneFatal(l) PROVE NobodyLost'
    BY <1>1, <2>10, FatalMinds
  <2> QED BY <2>3, <2>4, <2>5, <2>6, <2>7, <2>8, <2>9, <2>10 DEF Next, Runs
<1> QED BY <1>2, <1>3

(* No wake-up is lost, in any run of any lanes' code: whoever waits is     *)
(* where its wake-up comes from, the turn is being granted, and a failed   *)
(* run drains (NobodyForgotten).                                           *)
THEOREM NobodyForgottenHolds == Spec => []NobodyForgotten
<1>1. Init => NobodyLost
  <2>1. Init => Begins
    BY InitSound, CrashAssumption DEF Init, Begins, SInv, Types
  <2> QED BY <2>1, FreshMinds
<1>2. IInv /\ NobodyLost /\ [Next]_vars => NobodyLost'
  BY NextMinds
<1>3. NobodyLost => NobodyForgotten
  BY DEF NobodyLost, Minding, Minded, Granting, Drains, NobodyForgotten
<1> QED BY <1>1, <1>2, <1>3, Invariance, PTL DEF Spec
=============================================================================
