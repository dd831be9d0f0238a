------------------------- MODULE PlanInterpreterProofs -------------------------
(***************************************************************************)
(* Proofs about PlanInterpreter, for every finite plan: any levels, nodes, *)
(* guards and limits.                                                      *)
(***************************************************************************)
EXTENDS PlanInterpreter, FiniteSetTheorems, WellFoundedInduction, TLAPS

-----------------------------------------------------------------------------
(* The inductive invariant, in parts: what holds of a walk.                *)

Routers == {n \in Node : Kind[n] = "router"}
NodeState == {"pending"} \cup Settled \cup Working \cup Thrown
Walks == [at : [Node -> NodeState], port : [Routers -> Port \cup {None}],
          level : [Level -> {"idle", "open", "over"}], halt : [Level -> {None} \cup Thrown]]

(* A node that is past pending has the sources of its level settled behind *)
(* it, and a live guard unless it was skipped.                             *)
SourcesSettled(w) ==
  \A n \in Node : w.at[n] # "pending" => \A s \in inPlanSources[n] : w.at[s] \in Settled
Routed(w) ==
  \A n \in Node : w.at[n] # "pending" => (w.at[n] = "skipped" <=> ~isLive(n, w))

(* What a level will throw is there exactly when one of its nodes threw.   *)
HaltSays(w) == \A p \in Level : w.halt[p] = None <=> \A n \in In(p) : w.at[n] \notin Thrown

(* Nodes work in open levels, unless those broke, and open levels lie in   *)
(* nodes that wait.                                                        *)
WorksInOpen(w) ==
  \A n \in Node : w.at[n] \in Working => w.level[LevelOf[n]] = "open" \/ Broke(LevelOf[n], w)
OpenIsOwned(w) == \A p \in Level \ {Root} : w.level[p] = "open" => w.at[Owner[p]] = "nested"

(* Who owns a level that will throw still waits, or has thrown itself:     *)
(* what a level throws is gone from the walk only with its owner's own.    *)
ThrownRises(w) ==
  \A p \in Level \ {Root} : w.halt[p] # None => w.at[Owner[p]] \in {"nested"} \cup Thrown

(* Once its error lane has begun, a node has failed.                       *)
LaneMeansFailed(w) ==
  \A n \in Node : HasErrorLane(n) /\ w.level[Nested[n][1]] # "idle" => w.at[n] \in {"nested"} \cup Thrown

(* Nothing is left over in a level that ended well.                        *)
OverIsSettled(w) ==
  \A p \in Level : w.level[p] = "over" /\ w.halt[p] = None => \A n \in In(p) : w.at[n] \in Settled

(* A level's pump has come to rest: it throws, is full, or has none ready. *)
Pumped(p, w) ==
  w.halt[p] # None \/ ~(Cardinality(Active(p, w)) < Concurrency) \/ ready(p, w) = {}

Coherent(w) ==
  /\ w \in Walks
  /\ SourcesSettled(w) /\ Routed(w) /\ HaltSays(w)
  /\ WorksInOpen(w) /\ OpenIsOwned(w) /\ ThrownRises(w)
  /\ LaneMeansFailed(w) /\ OverIsSettled(w)

Sound(w) == Coherent(w) /\ \A p \in Level : w.level[p] = "open" => Pumped(p, w)

(* A fatal error is on its way up: in a level that is open, in a branch    *)
(* that is over and waits for the others, or in the run's own level.       *)
Carries(p, w) ==
  /\ w.halt[p] \in Fatal
  /\ \/ w.level[p] = "open"
     \/ w.level[p] = "over" /\ p = Root
     \/ /\ w.level[p] = "over" /\ p # Root
        /\ Kind[Owner[p]] = "parallel" /\ w.at[Owner[p]] = "nested"

(* It is somewhere, or may be lost in a level that broke.                  *)
Rising(w) == \E q \in Level : Carries(q, w) \/ Broke(q, w)

Counted ==
  /\ left \in [Node -> 0..MaxItems] /\ steps \in 0..MaxSteps /\ rounds \in 0..MaxRounds
  /\ cancelled \in BOOLEAN /\ fatalMet \in BOOLEAN

Ended ==
  /\ level[Root] # "idle"
  /\ end = (IF level[Root] = "over" THEN Outcome(Root) ELSE None)

IInv ==
  /\ Sound(Walk)
  /\ Counted /\ Ended
  /\ fatalMet => Rising(Walk)

-----------------------------------------------------------------------------
(* Induction and recursive definitions.                                    *)

(* A set of numbers has a least one.                                       *)
LEMMA LeastNat ==
  ASSUME NEW T \in SUBSET Nat, T # {}
  PROVE  \E x \in T : \A y \in T : x <= y
<1> DEFINE R == OpToRel(<, Nat)
<1>1. IsWellFoundedOn(R, Nat)
  BY NatLessThanWellFounded
<1>2. \A x, y \in Nat : <<x, y>> \in R <=> x < y
  BY DEF OpToRel
<1> HIDE DEF R
<1>3. PICK x \in T : \A y \in T : ~(<<y, x>> \in R)
  BY <1>1, WFMin
<1>4. \A y \in T : x \in Nat /\ y \in Nat
  OBVIOUS
<1>5. \A y \in T : ~(y < x)
  BY <1>2, <1>3, <1>4
<1> QED BY <1>4, <1>5

(* What is in a set from 0 on and never first leaves it stays in it.       *)
LEMMA SetInduction ==
  ASSUME NEW T, 0 \in T, \A k \in Nat : k \in T => k + 1 \in T
  PROVE  Nat \subseteq T
<1> SUFFICES ASSUME Nat \ T # {} PROVE FALSE
  OBVIOUS
<1>1. PICK x \in Nat \ T : \A y \in Nat \ T : x <= y
  BY LeastNat
<1>2. x # 0 /\ x - 1 \in Nat
  BY <1>1
<1>3. x - 1 \in T
  BY <1>1, <1>2
<1> QED BY <1>1, <1>2, <1>3

(* Steps can be iterated: what a recursive definition over the numbers     *)
(* asks of a function, some function does.                                 *)
Iterates(f, n, U, w, F) ==
  /\ f \in [0..n -> U] /\ f[0] = w
  /\ \A k \in Nat : k < n => f[k + 1] = F[k][f[k]]

Iterated(f, U, w, F) == f \in [Nat -> U] /\ f[0] = w /\ \A k \in Nat : f[k + 1] = F[k][f[k]]

LEMMA IterationExists ==
  ASSUME NEW U, NEW w \in U, NEW F \in [Nat -> [U -> U]]
  PROVE  \E f : Iterated(f, U, w, F)
<1> DEFINE T == {n \in Nat : \E g : Iterates(g, n, U, w, F)}
<1>1. 0 \in T
  <2> DEFINE g == [k \in 0..0 |-> w]
  <2>1. Iterates(g, 0, U, w, F)
    BY DEF Iterates
  <2> QED BY <2>1
<1>2. ASSUME NEW n \in Nat, n \in T PROVE n + 1 \in T
  <2>1. PICK g : Iterates(g, n, U, w, F)
    BY <1>2
  <2> DEFINE h == [k \in 0..(n + 1) |-> IF k = n + 1 THEN F[n][g[n]] ELSE g[k]]
  <2>2. g[n] \in U
    BY <2>1 DEF Iterates
  <2>3. h \in [0..(n + 1) -> U] /\ h[0] = w
    BY <2>1, <2>2 DEF Iterates
  <2>4. ASSUME NEW k \in Nat, k < n + 1 PROVE h[k + 1] = F[k][h[k]]
    BY <2>1, <2>4 DEF Iterates
  <2>5. Iterates(h, n + 1, U, w, F)
    BY <2>3, <2>4 DEF Iterates
  <2> QED BY <2>5
<1>3. \A n \in Nat : \E g : Iterates(g, n, U, w, F)
  <2> HIDE DEF T
  <2>1. Nat \subseteq T
    BY <1>1, <1>2, SetInduction
  <2> QED BY <2>1 DEF T
<1>4. ASSUME NEW n \in Nat, NEW m \in Nat, NEW g, NEW h,
             Iterates(g, n, U, w, F), Iterates(h, m, U, w, F)
      PROVE  \A k \in Nat : k <= n /\ k <= m => g[k] = h[k]
  <2> DEFINE S == {k \in Nat : k <= n /\ k <= m => g[k] = h[k]}
  <2>1. 0 \in S
    BY <1>4 DEF Iterates
  <2>2. ASSUME NEW k \in Nat, k \in S PROVE k + 1 \in S
    <3> SUFFICES ASSUME k + 1 <= n, k + 1 <= m PROVE g[k + 1] = h[k + 1]
      OBVIOUS
    <3>1. k < n /\ k < m /\ g[k] = h[k]
      BY <2>2
    <3>2. g[k + 1] = F[k][g[k]] /\ h[k + 1] = F[k][h[k]]
      BY <1>4, <3>1 DEF Iterates
    <3> QED BY <3>1, <3>2
  <2>3. Nat \subseteq S
    <3> HIDE DEF S
    <3> QED BY <2>1, <2>2, SetInduction
  <2> QED BY <2>3
<1> DEFINE G(n) == CHOOSE g : Iterates(g, n, U, w, F)
<1>5. \A n \in Nat : Iterates(G(n), n, U, w, F)
  BY <1>3
<1> HIDE DEF G
<1> DEFINE f == [n \in Nat |-> G(n)[n]]
<1>6. f \in [Nat -> U]
  BY <1>5 DEF Iterates
<1>7. f[0] = w
  BY <1>5 DEF Iterates
<1>8. ASSUME NEW k \in Nat PROVE f[k + 1] = F[k][f[k]]
  <2>1. Iterates(G(k + 1), k + 1, U, w, F) /\ Iterates(G(k), k, U, w, F)
    BY <1>5
  <2>2. G(k + 1)[k] = G(k)[k]
    BY <2>1, <1>4
  <2>3. G(k + 1)[k + 1] = F[k][G(k + 1)[k]]
    BY <2>1 DEF Iterates
  <2> QED BY <2>2, <2>3
<1>9. Iterated(f, U, w, F)
  BY <1>6, <1>7, <1>8 DEF Iterated
<1> QED BY <1>9
-----------------------------------------------------------------------------
(* The plan.                                                               *)

LEMMA PlanFacts ==
  /\ \A p \in Level : In(p) \subseteq Node
  /\ \A n \in Node : LevelOf[n] \in Level /\ n \in In(LevelOf[n])
  /\ \A n \in Node, p \in Level : n \in In(p) => LevelOf[n] = p
  /\ \A p \in Level \ {Root} : Owner[p] \in Node /\ p \in Range(Nested[Owner[p]])
  /\ \A n \in Node, p \in Level : p \in Range(Nested[n]) => p # Root /\ Owner[p] = n
<1>1. \A p \in Level : In(p) \subseteq Node
  BY PlanAssumption DEF In, Range
<1>2. ASSUME NEW n \in Node PROVE LevelOf[n] \in Level /\ n \in In(LevelOf[n])
  <2>1. \E p \in Level : n \in In(p)
    BY PlanAssumption
  <2> QED BY <2>1 DEF LevelOf
<1>3. ASSUME NEW n \in Node, NEW p \in Level, n \in In(p) PROVE LevelOf[n] = p
  BY <1>2, <1>3, PlanAssumption
<1>4. ASSUME NEW p \in Level \ {Root} PROVE Owner[p] \in Node /\ p \in Range(Nested[Owner[p]])
  <2>1. \E n \in Node : p \in Range(Nested[n])
    BY PlanAssumption
  <2> QED BY <2>1 DEF Owner
<1>5. ASSUME NEW n \in Node, NEW p \in Level, p \in Range(Nested[n]) PROVE p # Root /\ Owner[p] = n
  <2>1. p # Root
    BY <1>5, PlanAssumption DEF Range
  <2>2. PICK m \in Node : p \in Range(Nested[m]) /\ \A k \in Node \ {m} : p \notin Range(Nested[k])
    BY <2>1, PlanAssumption
  <2> QED BY <1>4, <1>5, <2>1, <2>2
<1> QED BY <1>1, <1>2, <1>3, <1>4, <1>5

LEMMA NestedFacts ==
  ASSUME NEW n \in Node
  PROVE  /\ Nested[n] \in Seq(Level \ {Root}) /\ Len(Nested[n]) \in Nat
         /\ DOMAIN Nested[n] = 1..Len(Nested[n])
         /\ \A i, j \in DOMAIN Nested[n] : Nested[n][i] = Nested[n][j] => i = j
         /\ Kind[n] = "leaf" => Len(Nested[n]) <= 1
         /\ Kind[n] \in {"forEach", "while"} => Len(Nested[n]) = 1
<1>1. /\ Nested[n] \in Seq(Level \ {Root}) /\ IsInjective(Nested[n])
      /\ Kind[n] = "leaf" => Len(Nested[n]) <= 1
      /\ Kind[n] \in {"forEach", "while"} => Len(Nested[n]) = 1
  BY Zenon, PlanAssumption
<1>2. Len(Nested[n]) \in Nat /\ DOMAIN Nested[n] = 1..Len(Nested[n])
  BY <1>1
<1> QED BY <1>1, <1>2 DEF IsInjective

(* What a leaf or a loop owns is its one level.                            *)
LEMMA OneLevel ==
  ASSUME NEW n \in Node, NEW p \in Level \ {Root}, Owner[p] = n, Kind[n] \in {"leaf", "forEach", "while"}
  PROVE  Nested[n] # <<>> /\ p = Nested[n][1]
<1>1. p \in Range(Nested[n])
  BY PlanFacts
<1>2. Nested[n] \in Seq(Level \ {Root}) /\ Len(Nested[n]) <= 1
  BY NestedFacts
<1>3. PICK i \in DOMAIN Nested[n] : p = Nested[n][i]
  BY <1>1 DEF Range
<1>4. DOMAIN Nested[n] = 1..Len(Nested[n]) /\ Len(Nested[n]) \in Nat
  BY <1>2
<1> QED BY <1>2, <1>3, <1>4

(* A loop has a body, and what has an error lane has its level.            *)
LEMMA BodyIsLevel ==
  ASSUME NEW n \in Node, Kind[n] \in {"forEach", "while"} \/ HasErrorLane(n)
  PROVE  Nested[n][1] \in Level \ {Root} /\ Owner[Nested[n][1]] = n
<1>1. Nested[n] \in Seq(Level \ {Root}) /\ DOMAIN Nested[n] = 1..Len(Nested[n]) /\ Len(Nested[n]) \in Nat
  BY NestedFacts
<1>2. 1 \in DOMAIN Nested[n]
  <2>1. CASE Kind[n] \in {"forEach", "while"}
    BY <1>1, <2>1, NestedFacts
  <2>2. CASE HasErrorLane(n)
    <3>1. Len(Nested[n]) # 0
      BY <1>1, <2>2 DEF HasErrorLane
    <3> QED BY <1>1, <3>1
  <2> QED BY <2>1, <2>2
<1>3. Nested[n][1] \in Level \ {Root} /\ Nested[n][1] \in Range(Nested[n])
  BY <1>1, <1>2 DEF Range
<1> QED BY <1>3, PlanFacts

(* No level lies in itself.                                                *)
LEMMA OwnerIsOutside ==
  ASSUME NEW p \in Level \ {Root}
  PROVE  LevelOf[Owner[p]] # p /\ LevelOf[Owner[p]] \in Level
<1>1. {p} \in (SUBSET Level) \ {{}}
  OBVIOUS
<1>2. \E q \in {p} : q = Root \/ LevelOf[Owner[q]] \notin {p}
  BY <1>1, PlanAssumption
<1> QED BY <1>2, PlanFacts

LEMMA SourcesAreHere ==
  ASSUME NEW n \in Node
  PROVE  inPlanSources[n] \subseteq In(LevelOf[n]) /\ inPlanSources[n] \subseteq Node
<1>1. inPlanSources[n] \subseteq In(LevelOf[n])
  BY DEF inPlanSources
<1> QED BY <1>1, PlanFacts

-----------------------------------------------------------------------------
(* The pump.                                                               *)

LEMMA LevelFacts ==
  ASSUME NEW p \in Level
  PROVE  /\ NodesOf[p] \in Seq(Node) /\ Len(NodesOf[p]) \in Nat
         /\ DOMAIN NodesOf[p] = 1..Len(NodesOf[p])
         /\ \A i \in DOMAIN NodesOf[p] : NodesOf[p][i] \in In(p)
         /\ \A n \in In(p) : \E i \in DOMAIN NodesOf[p] : n = NodesOf[p][i]
         /\ \A i, j \in DOMAIN NodesOf[p] : NodesOf[p][i] = NodesOf[p][j] => i = j
<1>1. NodesOf[p] \in Seq(Node) /\ IsInjective(NodesOf[p])
  BY Zenon, PlanAssumption
<1>2. Len(NodesOf[p]) \in Nat /\ DOMAIN NodesOf[p] = 1..Len(NodesOf[p])
  BY <1>1
<1>3. /\ \A i \in DOMAIN NodesOf[p] : NodesOf[p][i] \in In(p)
      /\ \A n \in In(p) : \E i \in DOMAIN NodesOf[p] : n = NodesOf[p][i]
  BY DEF In, Range
<1> QED BY <1>1, <1>2, <1>3 DEF IsInjective

(* What is ready is pending and has its sources settled.                   *)
LEMMA FirstReady ==
  ASSUME NEW p \in Level, NEW w, ready(p, w) # {}
  PROVE  LET n == NodesOf[p][Min(ready(p, w))]
         IN  /\ n \in In(p) /\ n \in Node /\ w.at[n] = "pending"
             /\ \A s \in inPlanSources[n] : w.at[s] \in Settled
<1>1. ready(p, w) \in SUBSET Nat
  BY LevelFacts DEF ready
<1>2. \E x \in ready(p, w) : \A y \in ready(p, w) : x <= y
  BY <1>1, LeastNat
<1>3. Min(ready(p, w)) \in ready(p, w)
  BY <1>2 DEF Min
<1>4. PICK i \in DOMAIN NodesOf[p] : i = Min(ready(p, w))
  BY <1>3 DEF ready
<1>5. w.at[NodesOf[p][i]] = "pending" /\ \A s \in inPlanSources[NodesOf[p][i]] : w.at[s] \in Settled
  BY <1>3, <1>4 DEF ready
<1>6. NodesOf[p][i] \in In(p) /\ NodesOf[p][i] \in Node
  BY LevelFacts, PlanFacts
<1> QED BY <1>4, <1>5, <1>6

(* What launching a node makes of it.                                      *)
Launches(n, w, u) ==
  /\ w.at[n] = "pending"
  /\ \A s \in inPlanSources[n] : w.at[s] \in Settled
  /\ u \in Walks /\ u.level = w.level
  /\ \A m \in Node \ {n} : u.at[m] = w.at[m]
  /\ \A m \in Routers \ {n} : u.port[m] = w.port[m]
  /\ \/ ~isLive(n, w) /\ u.at[n] = "skipped" /\ u.halt = w.halt
     \/ isLive(n, w) /\ u.at[n] = "ran" /\ Kind[n] = "router" /\ u.halt = w.halt
     \/ isLive(n, w) /\ u.at[n] = "started" /\ Kind[n] # "router" /\ u.halt = w.halt
     \/ isLive(n, w) /\ u.at[n] = "error" /\ u.halt = [w.halt EXCEPT ![LevelOf[n]] = "error"]

LEMMA LaunchIs ==
  ASSUME NEW w \in Walks, NEW pick \in Picks, NEW n \in Node, w.at[n] = "pending",
         \A s \in inPlanSources[n] : w.at[s] \in Settled
  PROVE  Launches(n, w, launch(n, w, pick))
<1> DEFINE u == launch(n, w, pick)
<1>0. w.at \in [Node -> NodeState] /\ w.port \in [Routers -> Port \cup {None}]
  BY DEF Walks
<1>1. CASE ~isLive(n, w)
  <2>1. u = [w EXCEPT !.at[n] = "skipped"]
    BY <1>1 DEF launch
  <2>2. "skipped" \in NodeState
    BY DEF NodeState, Settled
  <2>3. u \in Walks /\ u.level = w.level /\ u.halt = w.halt /\ u.port = w.port /\ u.at[n] = "skipped"
    BY <1>0, <2>1, <2>2 DEF Walks
  <2>4. \A m \in Node \ {n} : u.at[m] = w.at[m]
    BY <1>0, <2>1 DEF Walks
  <2> QED BY <1>1, <2>3, <2>4 DEF Launches
<1>2. CASE isLive(n, w) /\ Kind[n] = "router" /\ pick[n] # None
  <2>1. u = [w EXCEPT !.at[n] = "ran", !.port[n] = pick[n]]
    BY <1>2 DEF launch
  <2>2. "ran" \in NodeState
    BY DEF NodeState, Settled
  <2>3. pick[n] \in Port
    BY <1>2 DEF Picks
  <2>4. u \in Walks /\ u.level = w.level /\ u.halt = w.halt /\ u.at[n] = "ran"
    <3>1. u.at = [w.at EXCEPT ![n] = "ran"] /\ u.port = [w.port EXCEPT ![n] = pick[n]]
      BY <2>1 DEF Walks
    <3>2. u.at \in [Node -> NodeState] /\ u.port \in [Routers -> Port \cup {None}] /\ u.at[n] = "ran"
      BY <1>0, <2>2, <2>3, <3>1
    <3>3. u = [at |-> u.at, port |-> u.port, level |-> w.level, halt |-> w.halt]
      BY <2>1 DEF Walks
    <3> HIDE DEF u
    <3> QED BY <3>2, <3>3 DEF Walks
  <2>5. /\ \A m \in Node \ {n} : u.at[m] = w.at[m]
        /\ \A m \in Routers \ {n} : u.port[m] = w.port[m]
    BY <1>0, <2>1 DEF Walks
  <2> QED BY <1>2, <2>4, <2>5 DEF Launches
<1>3. CASE isLive(n, w) /\ Kind[n] = "router" /\ pick[n] = None
  <2>1. u = [w EXCEPT !.at[n] = "error", !.halt[LevelOf[n]] = "error"]
    BY <1>3 DEF launch
  <2>2. "error" \in NodeState /\ "error" \in Thrown
    BY DEF NodeState, Thrown
  <2>3. /\ w.halt \in [Level -> {None} \cup Thrown]
        /\ w = [at |-> w.at, port |-> w.port, level |-> w.level, halt |-> w.halt]
    BY DEF Walks
  <2>4. u.at = [w.at EXCEPT ![n] = "error"] /\ u.halt = [w.halt EXCEPT ![LevelOf[n]] = "error"]
        /\ u = [at |-> u.at, port |-> w.port, level |-> w.level, halt |-> u.halt]
    BY <2>1, <2>3
  <2> HIDE DEF u
  <2>5. u.at \in [Node -> NodeState] /\ u.halt \in [Level -> {None} \cup Thrown]
    BY <1>0, <2>2, <2>3, <2>4
  <2>6. u \in Walks /\ u.level = w.level /\ u.port = w.port
    BY <2>4, <2>5 DEF Walks
  <2>7. u.at[n] = "error" /\ \A m \in Node \ {n} : u.at[m] = w.at[m]
    BY <1>0, <2>4
  <2>8. Launches(n, w, u)
    BY <1>3, <2>4, <2>6, <2>7 DEF Launches
  <2> QED BY <2>8 DEF u
<1>4. CASE isLive(n, w) /\ Kind[n] # "router"
  <2>1. u = [w EXCEPT !.at[n] = "started"]
    BY <1>4 DEF launch
  <2>2. "started" \in NodeState
    BY DEF NodeState, Working
  <2>3. u \in Walks /\ u.level = w.level /\ u.halt = w.halt /\ u.port = w.port /\ u.at[n] = "started"
    BY <1>0, <2>1, <2>2 DEF Walks
  <2>4. \A m \in Node \ {n} : u.at[m] = w.at[m]
    BY <1>0, <2>1 DEF Walks
  <2> QED BY <1>4, <2>3, <2>4 DEF Launches
<1> QED BY <1>1, <1>2, <1>3, <1>4

(* A turn of the pump launches one of its level's nodes, or has come to    *)
(* rest.                                                                   *)
LEMMA PumpOnceIs ==
  ASSUME NEW p \in Level, NEW w \in Walks, NEW pick \in Picks
  PROVE  \/ Pumped(p, w) /\ pumpOnce(p, w, pick) = w
         \/ ~Pumped(p, w) /\ \E n \in In(p) : Launches(n, w, pumpOnce(p, w, pick))
<1>1. CASE w.halt[p] = None /\ Cardinality(Active(p, w)) < Concurrency /\ ready(p, w) # {}
  <2> DEFINE n == NodesOf[p][Min(ready(p, w))]
  <2>1. n \in In(p) /\ n \in Node /\ w.at[n] = "pending" /\ \A s \in inPlanSources[n] : w.at[s] \in Settled
    BY <1>1, FirstReady
  <2>2. pumpOnce(p, w, pick) = launch(n, w, pick)
    BY <1>1 DEF pumpOnce
  <2>3. ~Pumped(p, w)
    BY <1>1 DEF Pumped
  <2> HIDE DEF n
  <2> QED BY <2>1, <2>2, <2>3, LaunchIs
<1>2. CASE ~(w.halt[p] = None /\ Cardinality(Active(p, w)) < Concurrency /\ ready(p, w) # {})
  <2>1. pumpOnce(p, w, pick) = w
    BY <1>2 DEF pumpOnce
  <2>2. Pumped(p, w)
    BY <1>2 DEF Pumped
  <2> QED BY <2>1, <2>2
<1> QED BY <1>1, <1>2

LEMMA PumpOnceType ==
  ASSUME NEW p \in Level, NEW w \in Walks, NEW pick \in Picks
  PROVE  pumpOnce(p, w, pick) \in Walks
<1>1. CASE pumpOnce(p, w, pick) = w
  BY <1>1
<1>2. ASSUME NEW n \in In(p), Launches(n, w, pumpOnce(p, w, pick))
      PROVE  pumpOnce(p, w, pick) \in Walks
  BY <1>2 DEF Launches
<1> QED BY <1>1, <1>2, PumpOnceIs

(* What a level's walk starts from and every turn keeps holds of the pump: *)
(* T says what holds after each number of turns.                           *)
LEMMA PumpInduction ==
  ASSUME NEW p \in Level, NEW w \in Walks, NEW pick \in Picks, NEW T, <<0, w>> \in T,
         \A k \in Nat : \A v \in Walks : <<k, v>> \in T => <<k + 1, pumpOnce(p, v, pick)>> \in T
  PROVE  pump(p, w, pick) \in Walks /\ <<Len(NodesOf[p]), pump(p, w, pick)>> \in T
<1> DEFINE F == [k \in Nat |-> [v \in Walks |-> pumpOnce(p, v, pick)]]
           Defines(f) == f = [k \in Nat |-> IF k = 0 THEN w
                                ELSE CHOOSE u \in {pumpOnce(p, v, pick) : v \in {f[k - 1]}} : TRUE]
<1>1. F \in [Nat -> [Walks -> Walks]]
  BY PumpOnceType
<1>a. \E f : Iterated(f, Walks, w, F)
  <2> HIDE DEF F
  <2> QED BY <1>1, IterationExists
<1>b. PICK f : Iterated(f, Walks, w, F)
  BY <1>a
<1>2. f \in [Nat -> Walks] /\ f[0] = w /\ \A k \in Nat : f[k + 1] = F[k][f[k]]
  BY <1>b DEF Iterated
<1>3. Defines(f)
  <2>1. ASSUME NEW k \in Nat
        PROVE  f[k] = IF k = 0 THEN w ELSE CHOOSE u \in {pumpOnce(p, v, pick) : v \in {f[k - 1]}} : TRUE
    <3>1. CASE k = 0
      BY <1>2, <3>1
    <3>2. CASE k # 0
      <4>1. k - 1 \in Nat /\ f[k - 1] \in Walks
        BY <1>2, <3>2
      <4>2. f[k] = pumpOnce(p, f[k - 1], pick)
        <5>1. f[(k - 1) + 1] = F[k - 1][f[k - 1]]
          BY <1>2, <4>1
        <5>2. (k - 1) + 1 = k
          OBVIOUS
        <5> QED BY <4>1, <5>1, <5>2
      <4>3. {pumpOnce(p, v, pick) : v \in {f[k - 1]}} = {f[k]}
        BY <4>2
      <4> QED BY <3>2, <4>3
    <3> QED BY <3>1, <3>2
  <2> QED BY <1>2, <2>1
<1> DEFINE after == CHOOSE g : Defines(g)
<1>4. Defines(after)
  <2> HIDE DEF Defines
  <2> QED BY <1>3
<1>5. pump(p, w, pick) = after[Len(NodesOf[p])]
  BY DEF pump
<1> HIDE DEF after
<1> DEFINE S == {k \in Nat : after[k] \in Walks /\ <<k, after[k]>> \in T}
<1>6. 0 \in S
  BY <1>4
<1>7. ASSUME NEW k \in Nat, k \in S PROVE k + 1 \in S
  <2>1. after[k + 1] = CHOOSE u \in {pumpOnce(p, v, pick) : v \in {after[k]}} : TRUE
    BY <1>4
  <2>2. {pumpOnce(p, v, pick) : v \in {after[k]}} = {pumpOnce(p, after[k], pick)}
    OBVIOUS
  <2>3. after[k + 1] = pumpOnce(p, after[k], pick)
    BY <2>1, <2>2
  <2>4. pumpOnce(p, after[k], pick) \in Walks
    BY <1>7, PumpOnceType
  <2> QED BY <1>7, <2>3, <2>4
<1>8. Nat \subseteq S
  <2> HIDE DEF S
  <2> QED BY <1>6, <1>7, SetInduction
<1> QED BY <1>5, <1>8, LevelFacts

(* The walks differ in nothing a guard of m looks at.                      *)
LEMMA LiveSame ==
  ASSUME NEW m \in Node, NEW w, NEW u,
         \A s \in inPlanSources[m] : u.at[s] = w.at[s] /\ (Kind[s] = "router" => u.port[s] = w.port[s])
  PROVE  isLive(m, u) <=> isLive(m, w)
<1>1. ASSUME NEW g \in Guards[m] PROVE guardLive(m, g, u) <=> guardLive(m, g, w)
  <2>1. CASE g.source \in In(LevelOf[m])
    <3>1. g.source \in inPlanSources[m]
      BY <2>1 DEF inPlanSources
    <3> QED BY <3>1 DEF guardLive
  <2>2. CASE g.source \notin In(LevelOf[m])
    BY <2>2 DEF guardLive
  <2> QED BY <2>1, <2>2
<1> QED BY <1>1 DEF isLive

LEMMA StatesDiffer ==
  /\ "pending" \notin Settled \cup Working \cup Thrown
  /\ Settled \cap Working = {} /\ Settled \cap Thrown = {} /\ Working \cap Thrown = {}
  /\ "skipped" \in Settled /\ "ran" \in Settled
  /\ "started" \in Working /\ "working" \in Working /\ "nested" \in Working
  /\ Fatal \subseteq Thrown
  BY DEF Settled, Working, Thrown, Fatal

LEMMA LaunchCoherent ==
  ASSUME NEW p \in Level, NEW w, Coherent(w), w.level[p] = "open", NEW n \in In(p), NEW u, Launches(n, w, u)
  PROVE  Coherent(u)
<1>1. n \in Node /\ LevelOf[n] = p /\ w.at[n] = "pending"
  BY PlanFacts DEF Launches
<1>2. /\ u \in Walks /\ u.level = w.level
      /\ \A q \in Level \ {p} : u.halt[q] = w.halt[q]
      /\ \/ u.halt[p] = w.halt[p] /\ u.at[n] \in {"skipped", "ran", "started"}
         \/ u.halt[p] = "error" /\ u.at[n] = "error"
      /\ \A m \in Node \ {n} : u.at[m] = w.at[m]
      /\ \A m \in Routers \ {n} : u.port[m] = w.port[m]
  <2>1. w.halt \in [Level -> {None} \cup Thrown]
    BY DEF Coherent, Walks
  <2> QED BY <1>1, <2>1 DEF Launches
<1>3. /\ u.at[n] \in Settled \cup {"started", "error"} /\ u.at[n] \notin {"pending", "nested"}
      /\ u.at[n] \in Thrown <=> u.at[n] = "error"
  BY <1>2, StatesDiffer DEF Thrown, Fatal
<1>4. ASSUME NEW m \in Node, u.at[m] # "pending", NEW s \in inPlanSources[m]
      PROVE  s \in Node /\ s # n /\ w.at[s] \in Settled /\ u.at[s] = w.at[s]
  <2>1. w.at[s] \in Settled
    <3>1. CASE m = n
      BY <3>1 DEF Launches
    <3>2. CASE m # n
      BY <1>2, <1>4, <3>2 DEF Coherent, SourcesSettled
    <3> QED BY <3>1, <3>2
  <2>2. s \in Node
    BY SourcesAreHere
  <2> QED BY <1>1, <1>2, <2>1, <2>2, StatesDiffer
<1>5. SourcesSettled(u)
  BY <1>4 DEF SourcesSettled
<1>6. ASSUME NEW m \in Node, u.at[m] # "pending"
      PROVE  isLive(m, u) <=> isLive(m, w)
  <2>1. \A s \in inPlanSources[m] : u.at[s] = w.at[s] /\ (Kind[s] = "router" => u.port[s] = w.port[s])
    BY <1>2, <1>4, <1>6 DEF Routers
  <2> QED BY <2>1, LiveSame
<1>7. Routed(u)
  <2>1. ASSUME NEW m \in Node, u.at[m] # "pending" PROVE u.at[m] = "skipped" <=> ~isLive(m, u)
    <3>1. CASE m = n
      BY <1>6, <2>1, <3>1 DEF Launches
    <3>2. CASE m # n
      BY <1>2, <1>6, <2>1, <3>2 DEF Coherent, Routed
    <3> QED BY <3>1, <3>2
  <2> QED BY <2>1 DEF Routed
<1>8. HaltSays(u)
  <2>1. \A m \in Node \ {n} : u.at[m] \in Thrown <=> w.at[m] \in Thrown
    BY <1>2
  <2>2. HaltSays(w)
    BY DEF Coherent
  <2>3. \A q \in Level \ {p} : u.halt[q] = None <=> \A m \in In(q) : u.at[m] \notin Thrown
    BY <1>1, <1>2, <2>1, <2>2, PlanFacts DEF HaltSays
  <2>4. CASE u.at[n] = "error"
    <3>1. u.halt[p] # None /\ u.at[n] \in Thrown
      BY <1>2, <1>3, <2>4, NoneAssumption, StatesDiffer DEF Thrown
    <3> QED BY <2>3, <3>1 DEF HaltSays
  <2>5. CASE u.at[n] # "error"
    <3>1. u.halt[p] = w.halt[p] /\ u.at[n] \notin Thrown /\ w.at[n] \notin Thrown
      BY <1>1, <1>2, <1>3, <2>5, StatesDiffer
    <3>2. u.halt[p] = None <=> \A m \in In(p) : u.at[m] \notin Thrown
      BY <2>1, <2>2, <3>1, PlanFacts DEF HaltSays
    <3> QED BY <2>3, <3>2 DEF HaltSays
  <2> QED BY <2>4, <2>5
<1>9. WorksInOpen(u)
  <2>1. ASSUME NEW q \in Level, Broke(q, w) PROVE Broke(q, u)
    <3>1. PICK m \in In(q) : Kind[m] = "router" /\ w.at[m] = "error"
      BY <2>1 DEF Broke
    <3>2. m \in Node /\ m # n
      BY <1>1, <3>1, PlanFacts
    <3> QED BY <1>2, <3>1, <3>2 DEF Broke
  <2> QED BY <1>1, <1>2, <2>1, PlanFacts DEF WorksInOpen, Coherent
<1>14. ThrownRises(u)
  <2>1. ASSUME NEW q \in Level \ {Root}, u.halt[q] # None PROVE u.at[Owner[q]] \in {"nested"} \cup Thrown
    <3>1. w.at[Owner[q]] \in {"nested"} \cup Thrown
      <4>1. CASE q = p
        BY <2>1, <4>1 DEF Coherent, OpenIsOwned
      <4>2. CASE q # p
        BY <1>2, <2>1, <4>2 DEF Coherent, ThrownRises
      <4> QED BY <4>1, <4>2
    <3>2. Owner[q] \in Node /\ Owner[q] # n
      BY <1>1, <3>1, PlanFacts, StatesDiffer
    <3> QED BY <1>2, <3>1, <3>2
  <2> QED BY <2>1 DEF ThrownRises
<1>10. OpenIsOwned(u)
  <2>1. ASSUME NEW q \in Level \ {Root}, u.level[q] = "open" PROVE u.at[Owner[q]] = "nested"
    <3>1. w.at[Owner[q]] = "nested" /\ Owner[q] \in Node
      BY <1>2, <2>1, PlanFacts DEF Coherent, OpenIsOwned
    <3> QED BY <1>1, <1>2, <3>1
  <2> QED BY <2>1 DEF OpenIsOwned
<1>11. LaneMeansFailed(u)
  <2>1. ASSUME NEW m \in Node, HasErrorLane(m), u.level[Nested[m][1]] # "idle"
        PROVE  u.at[m] \in {"nested"} \cup Thrown
    <3>1. w.at[m] \in {"nested"} \cup Thrown
      BY <1>2, <2>1 DEF Coherent, LaneMeansFailed
    <3> QED BY <1>1, <1>2, <3>1, StatesDiffer
  <2> QED BY <2>1 DEF LaneMeansFailed
<1>12. OverIsSettled(u)
  <2>1. ASSUME NEW q \in Level, u.level[q] = "over", u.halt[q] = None, NEW m \in In(q) PROVE u.at[m] \in Settled
    <3>1. q # p /\ m \in Node /\ m # n
      BY <1>1, <1>2, <2>1, PlanFacts
    <3>2. w.at[m] \in Settled
      BY <1>2, <2>1, <3>1 DEF Coherent, OverIsSettled
    <3> QED BY <1>2, <3>1, <3>2
  <2> QED BY <2>1 DEF OverIsSettled
<1> QED BY <1>2, <1>5, <1>7, <1>8, <1>9, <1>10, <1>11, <1>12, <1>14 DEF Coherent

(* What the pump of a level makes of a walk.                               *)
Pumps(p, w, u) ==
  /\ u.level = w.level
  /\ \A q \in Level \ {p} : u.halt[q] = w.halt[q]
  /\ w.halt[p] # None => u.halt[p] = w.halt[p]
  /\ \A m \in Node \ In(p) : u.at[m] = w.at[m]
  /\ \A m \in Node : w.at[m] # "pending" => u.at[m] = w.at[m]

Pending(p, w) == {n \in In(p) : w.at[n] = "pending"}

LEMMA LevelIsFinite ==
  ASSUME NEW p \in Level
  PROVE  IsFiniteSet(In(p)) /\ Cardinality(In(p)) <= Len(NodesOf[p])
<1>1. NodesOf[p] \in [1..Len(NodesOf[p]) -> In(p)] /\ Len(NodesOf[p]) \in Nat
  BY LevelFacts
<1>2. NodesOf[p] \in Surjection(1..Len(NodesOf[p]), In(p))
  BY <1>1, LevelFacts DEF Surjection
<1> DEFINE l == Len(NodesOf[p])
<1>3. IsFiniteSet(1..l) /\ Cardinality(1..l) = l
  <2> HIDE DEF l
  <2>1. 1 \in Int /\ l \in Int /\ l >= 0
    BY <1>1 DEF l
  <2>2. IsFiniteSet(1..l) /\ Cardinality(1..l) = IF 1 > l THEN 0 ELSE l - 1 + 1
    BY <2>1, FS_Interval
  <2> QED BY <2>1, <2>2
<1> QED BY <1>2, <1>3, FS_Surjection

LEMMA PendingCount ==
  ASSUME NEW p \in Level, NEW w
  PROVE  /\ IsFiniteSet(Pending(p, w)) /\ Cardinality(Pending(p, w)) \in Nat
         /\ Cardinality(Pending(p, w)) <= Len(NodesOf[p])
         /\ Cardinality(Pending(p, w)) = 0 => Pumped(p, w)
<1>1. Pending(p, w) \in SUBSET In(p)
  BY DEF Pending
<1>2. IsFiniteSet(Pending(p, w)) /\ Cardinality(Pending(p, w)) <= Cardinality(In(p))
  BY <1>1, LevelIsFinite, FS_Subset
<1>3. Cardinality(Pending(p, w)) \in Nat /\ Cardinality(In(p)) \in Nat
  BY <1>2, LevelIsFinite, FS_CardinalityType
<1>4. ASSUME Pending(p, w) = {} PROVE ready(p, w) = {}
  BY <1>4, LevelFacts DEF Pending, ready
<1> QED BY <1>2, <1>3, <1>4, LevelIsFinite, LevelFacts, FS_EmptySet DEF Pumped

(* The pump of an open level keeps the walk coherent, and comes to rest.   *)
LEMMA PumpIs ==
  ASSUME NEW p \in Level, NEW w, Coherent(w), w.level[p] = "open", NEW pick \in Picks
  PROVE  LET u == pump(p, w, pick)
         IN  Coherent(u) /\ Pumps(p, w, u) /\ Pumped(p, u)
<1> DEFINE Inv(k, v) ==
             /\ Coherent(v) /\ Pumps(p, w, v)
             /\ Pumped(p, v) \/ Cardinality(Pending(p, v)) + k <= Len(NodesOf[p])
           T == {t \in Nat \X Walks : Inv(t[1], t[2])}
<1>0. w \in Walks /\ Len(NodesOf[p]) \in Nat
  BY LevelFacts DEF Coherent
<1>1. Inv(0, w)
  <2>1. Pumps(p, w, w)
    BY DEF Pumps
  <2>2. Cardinality(Pending(p, w)) + 0 <= Len(NodesOf[p])
    BY <1>0, PendingCount
  <2> QED BY <2>1, <2>2
<1>2. ASSUME NEW k \in Nat, NEW v \in Walks, Inv(k, v)
      PROVE  pumpOnce(p, v, pick) \in Walks /\ Inv(k + 1, pumpOnce(p, v, pick))
  <2> DEFINE u == pumpOnce(p, v, pick)
  <2>1. CASE Pumped(p, v) /\ u = v
    BY <1>2, <2>1
  <2>2. ASSUME ~Pumped(p, v), NEW n \in In(p), Launches(n, v, u) PROVE u \in Walks /\ Inv(k + 1, u)
    <3> HIDE DEF u
    <3>1. v.level[p] = "open"
      BY <1>2 DEF Pumps
    <3>2. Coherent(u)
      BY <1>2, <2>2, <3>1, LaunchCoherent
    <3>3. n \in Node /\ v.at[n] = "pending" /\ u.at[n] # "pending"
      BY <2>2, PlanFacts DEF Launches
    <3>4. Pumps(p, w, u)
      <4>1. /\ u.level = v.level /\ (\A m \in Node \ {n} : u.at[m] = v.at[m])
            /\ \A q \in Level \ {p} : u.halt[q] = v.halt[q]
        <5>1. v.halt \in [Level -> {None} \cup Thrown] /\ LevelOf[n] = p
          BY PlanFacts DEF Walks
        <5> QED BY <2>2, <5>1 DEF Launches
      <4>2. /\ v.level = w.level
            /\ \A q \in Level \ {p} : v.halt[q] = w.halt[q]
            /\ w.halt[p] # None => v.halt[p] = w.halt[p]
            /\ \A m \in Node \ In(p) : v.at[m] = w.at[m]
            /\ \A m \in Node : w.at[m] # "pending" => v.at[m] = w.at[m]
        BY <1>2 DEF Pumps
      <4>a. v.halt[p] = None
        BY <2>2 DEF Pumped
      <4>3. \A m \in Node \ In(p) : u.at[m] = w.at[m]
        BY <2>2, <4>1, <4>2
      <4>4. \A m \in Node : w.at[m] # "pending" => u.at[m] = w.at[m]
        BY <3>3, <4>1, <4>2
      <4>5. w.halt[p] = None
        BY <4>2, <4>a
      <4>6. u.level = w.level /\ \A q \in Level \ {p} : u.halt[q] = w.halt[q]
        BY <4>1, <4>2
      <4> QED BY <4>3, <4>4, <4>5, <4>6 DEF Pumps
    <3>5. Pending(p, u) = Pending(p, v) \ {n} /\ n \in Pending(p, v)
      BY <2>2, <3>3, PlanFacts DEF Pending, Launches
    <3>6. Cardinality(Pending(p, u)) = Cardinality(Pending(p, v)) - 1 /\ Cardinality(Pending(p, v)) \in Nat
      BY <3>5, PendingCount, FS_RemoveElement
    <3>7. Cardinality(Pending(p, v)) + k <= Len(NodesOf[p])
      BY <1>2, <2>2
    <3>8. Cardinality(Pending(p, u)) + (k + 1) <= Len(NodesOf[p])
      BY <3>6, <3>7, <1>0
    <3> QED BY <2>2, <3>2, <3>4, <3>8 DEF Coherent
  <2> HIDE DEF u
  <2> QED BY <1>2, <2>1, <2>2, PumpOnceIs DEF u
<1> HIDE DEF Inv
<1>3. <<0, w>> \in T
  BY <1>0, <1>1
<1>4. \A k \in Nat : \A v \in Walks : <<k, v>> \in T => <<k + 1, pumpOnce(p, v, pick)>> \in T
  BY <1>2
<1> HIDE DEF T
<1>5. <<Len(NodesOf[p]), pump(p, w, pick)>> \in T
  BY <1>0, <1>3, <1>4, PumpInduction
<1>6. Inv(Len(NodesOf[p]), pump(p, w, pick))
  BY <1>5 DEF T
<1> DEFINE u == pump(p, w, pick)
<1>7. Coherent(u) /\ Pumps(p, w, u) /\ (Pumped(p, u) \/ Cardinality(Pending(p, u)) + Len(NodesOf[p]) <= Len(NodesOf[p]))
  BY <1>6 DEF Inv
<1>8. Cardinality(Pending(p, u)) \in Nat /\ (Cardinality(Pending(p, u)) = 0 => Pumped(p, u))
  BY PendingCount
<1> HIDE DEF u
<1>9. Pumped(p, u)
  BY <1>0, <1>7, <1>8
<1> QED BY <1>7, <1>9 DEF u

(* A level that will throw starts nothing more.                            *)
LEMMA PumpStopped ==
  ASSUME NEW p \in Level, NEW w \in Walks, w.halt[p] # None, NEW pick \in Picks
  PROVE  pump(p, w, pick) = w
<1> DEFINE T == Nat \X {w}
<1>1. pumpOnce(p, w, pick) = w
  BY DEF pumpOnce
<1>2. <<0, w>> \in T /\ \A k \in Nat : \A v \in Walks : <<k, v>> \in T => <<k + 1, pumpOnce(p, v, pick)>> \in T
  BY <1>1
<1> HIDE DEF T
<1>3. <<Len(NodesOf[p]), pump(p, w, pick)>> \in T
  BY <1>2, PumpInduction
<1> QED BY <1>3 DEF T

(* A level that broke stays so while its failed router is left alone.      *)
LEMMA BrokeStays ==
  ASSUME NEW q \in Level, NEW w, NEW u, \A m \in In(q) : w.at[m] = "error" => u.at[m] = "error", Broke(q, w)
  PROVE  Broke(q, u)
  BY DEF Broke

(* A level that broke will throw.                                          *)
LEMMA BrokeThrows ==
  ASSUME NEW q \in Level, NEW w, HaltSays(w), Broke(q, w)
  PROVE  w.halt[q] # None
<1>1. "error" \in Thrown
  BY DEF Thrown
<1> QED BY <1>1 DEF HaltSays, Broke

(* A level at rest looks only at its own nodes.                            *)
LEMMA PumpedElsewhere ==
  ASSUME NEW q \in Level, NEW w, NEW u, u.halt[q] = w.halt[q], \A m \in In(q) : u.at[m] = w.at[m], Pumped(q, w)
  PROVE  Pumped(q, u)
<1>1. Active(q, u) = Active(q, w)
  BY DEF Active
<1>2. ASSUME NEW i \in DOMAIN NodesOf[q]
      PROVE  /\ u.at[NodesOf[q][i]] = w.at[NodesOf[q][i]]
             /\ \A s \in inPlanSources[NodesOf[q][i]] : u.at[s] = w.at[s]
  <2>1. NodesOf[q][i] \in In(q) /\ NodesOf[q][i] \in Node /\ LevelOf[NodesOf[q][i]] = q
    BY LevelFacts, PlanFacts
  <2>2. inPlanSources[NodesOf[q][i]] \subseteq In(q)
    BY <2>1, SourcesAreHere
  <2> QED BY <2>1, <2>2
<1>3. ready(q, u) = ready(q, w)
  BY <1>2 DEF ready
<1> QED BY <1>1, <1>3 DEF Pumped

LEMMA PumpSound ==
  ASSUME NEW p \in Level, NEW w, Coherent(w), w.level[p] = "open", NEW pick \in Picks,
         \A q \in Level \ {p} : w.level[q] = "open" => Pumped(q, w)
  PROVE  Sound(pump(p, w, pick)) /\ Pumps(p, w, pump(p, w, pick))
<1> DEFINE u == pump(p, w, pick)
<1>1. Coherent(u) /\ Pumps(p, w, u) /\ Pumped(p, u)
  BY PumpIs
<1> HIDE DEF u
<1>2. ASSUME NEW q \in Level \ {p}, u.level[q] = "open" PROVE Pumped(q, u)
  <2>1. Pumped(q, w) /\ u.halt[q] = w.halt[q]
    BY <1>1, <1>2 DEF Pumps
  <2>2. \A m \in In(q) : m \in Node \ In(p)
    BY PlanFacts
  <2>3. \A m \in In(q) : u.at[m] = w.at[m]
    BY <1>1, <2>2 DEF Pumps
  <2> QED BY <2>1, <2>3, PumpedElsewhere
<1>3. Sound(u)
  BY <1>1, <1>2 DEF Sound
<1> QED BY <1>1, <1>3 DEF u

(* Where nothing works, throws or is ready, everything has settled: the    *)
(* first node left over would have all its sources behind it.              *)
LEMMA RestIsSettled ==
  ASSUME NEW p \in Level, NEW w, Coherent(w), Active(p, w) = {}, Pumped(p, w), w.halt[p] = None
  PROVE  \A n \in In(p) : w.at[n] \in Settled
<1>1. ready(p, w) = {}
  <2>1. Cardinality(Active(p, w)) < Concurrency
    BY FS_EmptySet, BoundAssumption
  <2> QED BY <2>1 DEF Pumped
<1>2. \A n \in In(p) : n \in Node /\ LevelOf[n] = p /\ w.at[n] \in {"pending"} \cup Settled
  <2>1. \A n \in In(p) : w.at[n] \notin Working /\ w.at[n] \notin Thrown
    BY DEF Active, Coherent, HaltSays
  <2>2. w.at \in [Node -> NodeState]
    BY DEF Coherent, Walks
  <2> QED BY <2>1, <2>2, PlanFacts DEF NodeState
<1> DEFINE Late == {i \in DOMAIN NodesOf[p] : w.at[NodesOf[p][i]] = "pending"}
<1>3. Late = {}
  <2> SUFFICES ASSUME Late # {} PROVE FALSE
    OBVIOUS
  <2>1. Late \in SUBSET Nat
    BY LevelFacts
  <2>2. PICK i \in Late : \A j \in Late : i <= j
    <3> HIDE DEF Late
    <3> QED BY <2>1, LeastNat
  <2>3. ASSUME NEW s \in inPlanSources[NodesOf[p][i]] PROVE w.at[s] \in Settled
    <3>1. NodesOf[p][i] \in In(p) /\ NodesOf[p][i] \in Node /\ LevelOf[NodesOf[p][i]] = p
      BY LevelFacts, PlanFacts
    <3>2. PICK g \in Guards[NodesOf[p][i]] : s = g.source /\ g.source \in In(p)
      BY <2>3, <3>1 DEF inPlanSources
    <3>3. PICK j \in 1..(i - 1) : NodesOf[p][j] = s
      BY <3>2, PlanAssumption
    <3>4. j \in DOMAIN NodesOf[p] /\ j < i
      BY LevelFacts
    <3>5. j \notin Late
      BY <2>1, <2>2, <3>4
    <3>6. NodesOf[p][j] \in In(p)
      BY <3>4, LevelFacts
    <3> QED BY <1>2, <3>3, <3>4, <3>5, <3>6
  <2>4. i \in ready(p, w)
    BY <2>3 DEF ready
  <2> QED BY <1>1, <2>4
<1>4. ASSUME NEW n \in In(p) PROVE w.at[n] # "pending"
  BY <1>3, LevelFacts
<1> QED BY <1>2, <1>4

-----------------------------------------------------------------------------
(* Levels in levels.                                                       *)

(* Where no level broke, what is open lies in what is open, up to the      *)
(* run's own level.                                                        *)
LEMMA RootIsOpen ==
  ASSUME NEW w, Coherent(w), \A p \in Level : ~Broke(p, w), NEW q \in Level, w.level[q] = "open"
  PROVE  /\ w.level[Root] = "open"
         /\ q # Root => Active(Root, w) # {}
<1> DEFINE Opens == {p \in Level : w.level[p] = "open"}
           Inner == Opens \ {Root}
<1>1. ASSUME NEW p \in Opens, p # Root
      PROVE  Owner[p] \in Node /\ LevelOf[Owner[p]] \in Opens /\ w.at[Owner[p]] \in Working
  <2>1. Owner[p] \in Node /\ w.at[Owner[p]] = "nested"
    BY <1>1, PlanFacts DEF Coherent, OpenIsOwned
  <2> QED BY <2>1, StatesDiffer, PlanFacts DEF Coherent, WorksInOpen
<1>2. Root \in Opens
  <2>1. Opens \in (SUBSET Level) \ {{}}
    OBVIOUS
  <2>2. PICK p \in Opens : p = Root \/ LevelOf[Owner[p]] \notin Opens
    <3> HIDE DEF Opens
    <3> QED BY <2>1, PlanAssumption
  <2> HIDE DEF Opens
  <2> QED BY <1>1, <2>2
<1>3. ASSUME q # Root PROVE Active(Root, w) # {}
  <2>1. Inner \in (SUBSET Level) \ {{}}
    BY <1>3
  <2>2. PICK p \in Inner : p = Root \/ LevelOf[Owner[p]] \notin Inner
    <3> HIDE DEF Inner
    <3> QED BY <2>1, PlanAssumption
  <2>3. Owner[p] \in Node /\ LevelOf[Owner[p]] = Root /\ w.at[Owner[p]] \in Working
    <3> HIDE DEF Opens
    <3> QED BY <1>1, <2>2
  <2> QED BY <2>3, PlanFacts DEF Active
<1> QED BY <1>2, <1>3

(* What every step does: a level that broke stays so, and the run's own    *)
(* level neither begins nor ends, nor changes once it is over.             *)
Keeps(w, u) ==
  /\ \A q \in Level : Broke(q, w) => Broke(q, u)
  /\ u.level[Root] = w.level[Root]
  /\ w.level[Root] = "over" => u.halt[Root] = w.halt[Root]

LEMMA KeepsOn ==
  ASSUME NEW w, NEW v, NEW u, Keeps(w, v), Keeps(v, u)
  PROVE  Keeps(w, u)
  BY DEF Keeps

(* A node that works goes on working: as long as it does not leave its     *)
(* levels, nothing else changes.                                           *)
LEMMA WorkSound ==
  ASSUME NEW w, Sound(w), NEW n \in Node, w.at[n] \in Working, NEW x \in Working,
         w.at[n] = "nested" => x = "nested"
  PROVE  LET u == [w EXCEPT !.at[n] = x]
         IN  /\ Sound(u) /\ u.level = w.level /\ u.halt = w.halt /\ Keeps(w, u)
             /\ \A q \in Level : Carries(q, w) => Carries(q, u)
<1> DEFINE u == [w EXCEPT !.at[n] = x]
<1>1. /\ u \in Walks /\ u.level = w.level /\ u.halt = w.halt /\ u.port = w.port /\ u.at[n] = x
      /\ \A m \in Node \ {n} : u.at[m] = w.at[m]
  <2>1. w \in Walks
    BY DEF Sound, Coherent
  <2>2. x \in NodeState
    BY DEF NodeState
  <2> QED BY <2>1, <2>2 DEF Walks
<1> HIDE DEF u
<1>2. /\ SourcesSettled(w) /\ Routed(w) /\ HaltSays(w) /\ WorksInOpen(w) /\ OpenIsOwned(w)
      /\ ThrownRises(w) /\ LaneMeansFailed(w) /\ OverIsSettled(w)
  BY DEF Sound, Coherent
<1>3. \A m \in Node : /\ u.at[m] = "pending" <=> w.at[m] = "pending"
                      /\ u.at[m] \in Settled <=> w.at[m] \in Settled
                      /\ u.at[m] \in Thrown <=> w.at[m] \in Thrown
                      /\ u.at[m] \in Working <=> w.at[m] \in Working
                      /\ u.at[m] \in Settled => u.at[m] = w.at[m]
  BY <1>1, StatesDiffer
<1>4. \A m \in Node : \A s \in inPlanSources[m] : s \in Node
  BY SourcesAreHere
<1>5. SourcesSettled(u)
  BY <1>2, <1>3, <1>4 DEF SourcesSettled
<1>6. Routed(u)
  <2>1. ASSUME NEW m \in Node, u.at[m] # "pending" PROVE u.at[m] = "skipped" <=> ~isLive(m, u)
    <3>1. \A s \in inPlanSources[m] : u.at[s] = w.at[s] /\ u.port[s] = w.port[s]
      BY <1>1, <1>3, <1>4, <1>5, <2>1 DEF SourcesSettled
    <3>2. isLive(m, u) <=> isLive(m, w)
      BY <3>1, LiveSame
    <3>3. u.at[m] = "skipped" <=> w.at[m] = "skipped"
      BY <1>1, <1>3, StatesDiffer
    <3> QED BY <1>2, <1>3, <2>1, <3>2, <3>3 DEF Routed
  <2> QED BY <2>1 DEF Routed
<1>7. HaltSays(u)
  BY <1>1, <1>2, <1>3, PlanFacts DEF HaltSays
<1>15. \A q \in Level : Broke(q, w) => Broke(q, u)
  <2>1. "error" \in Thrown
    BY DEF Thrown
  <2>2. \A m \in Node : w.at[m] = "error" => u.at[m] = "error"
    BY <1>1, <2>1, StatesDiffer
  <2> QED BY <2>2, BrokeStays, PlanFacts
<1>8. WorksInOpen(u)
  BY <1>1, <1>2, <1>3, <1>15, PlanFacts DEF WorksInOpen
<1>16. ThrownRises(u)
  <2>1. ASSUME NEW q \in Level \ {Root}, u.halt[q] # None PROVE u.at[Owner[q]] \in {"nested"} \cup Thrown
    <3>1. w.at[Owner[q]] \in {"nested"} \cup Thrown /\ Owner[q] \in Node
      BY <1>1, <1>2, <2>1, PlanFacts DEF ThrownRises
    <3> QED BY <1>1, <3>1, StatesDiffer
  <2> QED BY <2>1 DEF ThrownRises
<1>9. OpenIsOwned(u)
  BY <1>1, <1>2, PlanFacts DEF OpenIsOwned
<1>10. LaneMeansFailed(u)
  <2>1. ASSUME NEW m \in Node, HasErrorLane(m), u.level[Nested[m][1]] # "idle"
        PROVE  u.at[m] \in {"nested"} \cup Thrown
    <3>1. w.at[m] \in {"nested"} \cup Thrown
      BY <1>1, <1>2, <2>1 DEF LaneMeansFailed
    <3> QED BY <1>1, <3>1, StatesDiffer
  <2> QED BY <2>1 DEF LaneMeansFailed
<1>11. OverIsSettled(u)
  BY <1>1, <1>2, <1>3, PlanFacts DEF OverIsSettled
<1>12. ASSUME NEW q \in Level, Pumped(q, w) PROVE Pumped(q, u)
  <2>1. Active(q, u) = Active(q, w)
    BY <1>3, PlanFacts DEF Active
  <2>2. ASSUME NEW i \in DOMAIN NodesOf[q]
        PROVE  /\ u.at[NodesOf[q][i]] = "pending" <=> w.at[NodesOf[q][i]] = "pending"
               /\ \A s \in inPlanSources[NodesOf[q][i]] : u.at[s] \in Settled <=> w.at[s] \in Settled
    <3>1. NodesOf[q][i] \in Node
      BY LevelFacts, PlanFacts
    <3> QED BY <1>3, <1>4, <3>1
  <2>3. ready(q, u) = ready(q, w)
    BY <2>2 DEF ready
  <2> QED BY <1>1, <1>12, <2>1, <2>3 DEF Pumped
<1>13. Sound(u)
  BY <1>1, <1>5, <1>6, <1>7, <1>8, <1>9, <1>10, <1>11, <1>12, <1>16 DEF Sound, Coherent
<1>14. \A q \in Level : Carries(q, w) => Carries(q, u)
  BY <1>1, PlanFacts DEF Carries
<1>17. Keeps(w, u)
  BY <1>1, <1>15 DEF Keeps
<1> QED BY <1>1, <1>13, <1>14, <1>17 DEF u

(* Levels have nodes of their own.                                         *)
LEMMA LevelsApart ==
  ASSUME NEW p \in Level, NEW q \in Level, p # q
  PROVE  In(p) \cap In(q) = {} /\ \A m \in In(q) : m \in Node \ In(p)
  BY PlanFacts

(* A level whose nodes rest is closed, or one that broke.                  *)
LEMMA CloseSound ==
  ASSUME NEW w, Sound(w), NEW p \in Level, w.level[p] = "open", Active(p, w) = {} \/ Broke(p, w)
  PROVE  LET u == [w EXCEPT !.level[p] = "over"]
         IN  /\ Sound(u) /\ u.at = w.at /\ u.halt = w.halt /\ u.level[p] = "over"
             /\ \A q \in Level \ {p} : u.level[q] = w.level[q]
             /\ \A q \in Level : Broke(q, w) => Broke(q, u)
             /\ p # Root => Keeps(w, u)
             /\ \A q \in Level \ {p} : Carries(q, w) => Carries(q, u)
             /\ w.halt[p] \in Fatal /\ (p = Root \/ Kind[Owner[p]] = "parallel") => Carries(p, u)
<1> DEFINE u == [w EXCEPT !.level[p] = "over"]
<1>1. /\ u \in Walks /\ u.at = w.at /\ u.halt = w.halt /\ u.port = w.port /\ u.level[p] = "over"
      /\ \A q \in Level \ {p} : u.level[q] = w.level[q]
  <2>1. w \in Walks
    BY DEF Sound, Coherent
  <2> QED BY <2>1 DEF Walks
<1> HIDE DEF u
<1>2. /\ SourcesSettled(w) /\ Routed(w) /\ HaltSays(w) /\ WorksInOpen(w) /\ OpenIsOwned(w)
      /\ ThrownRises(w) /\ LaneMeansFailed(w) /\ OverIsSettled(w)
  BY DEF Sound, Coherent
<1>3. SourcesSettled(u) /\ HaltSays(u)
  BY <1>1, <1>2 DEF SourcesSettled, HaltSays
<1>4. Routed(u)
  <2>1. ASSUME NEW m \in Node PROVE isLive(m, u) <=> isLive(m, w)
    BY <1>1, LiveSame
  <2> QED BY <1>1, <1>2, <2>1 DEF Routed
<1>13. \A q \in Level : Broke(q, w) <=> Broke(q, u)
  BY <1>1 DEF Broke
<1>5. WorksInOpen(u)
  BY <1>1, <1>2, <1>13, PlanFacts DEF WorksInOpen, Active
<1>14. ThrownRises(u)
  BY <1>1, <1>2 DEF ThrownRises
<1>6. OpenIsOwned(u)
  BY <1>1, <1>2 DEF OpenIsOwned
<1>7. LaneMeansFailed(u)
  BY <1>1, <1>2, BodyIsLevel DEF LaneMeansFailed
<1>8. OverIsSettled(u)
  <2>1. w.halt[p] = None => \A n \in In(p) : w.at[n] \in Settled
    BY <1>2, BrokeThrows, RestIsSettled DEF Sound
  <2> QED BY <1>1, <1>2, <2>1 DEF OverIsSettled
<1>9. ASSUME NEW q \in Level, u.level[q] = "open" PROVE Pumped(q, u)
  <2>1. Pumped(q, w)
    BY <1>1, <1>9 DEF Sound
  <2> QED BY <1>1, <2>1, PumpedElsewhere
<1>10. Sound(u)
  BY <1>1, <1>3, <1>4, <1>5, <1>6, <1>7, <1>8, <1>9, <1>14 DEF Sound, Coherent
<1>11. \A q \in Level \ {p} : Carries(q, w) => Carries(q, u)
  BY <1>1 DEF Carries
<1>12. w.halt[p] \in Fatal /\ (p = Root \/ Kind[Owner[p]] = "parallel") => Carries(p, u)
  BY <1>1, <1>2 DEF Carries, OpenIsOwned
<1>15. p # Root => Keeps(w, u)
  BY <1>1, <1>13, PlanAssumption DEF Keeps
<1> QED BY <1>1, <1>10, <1>11, <1>12, <1>13, <1>15 DEF u

-----------------------------------------------------------------------------
(* A level's walk begins.                                                  *)

(* What schedule starts the pump with.                                     *)
Reset(p, w) ==
  [at |-> [n \in Node |-> IF n \in In(p) THEN "pending" ELSE w.at[n]],
   port |-> w.port,
   level |-> [q \in Level |-> IF q = p THEN "open"
                              ELSE IF q # Root /\ Owner[q] \in In(p) THEN "idle"
                              ELSE w.level[q]],
   halt |-> [w.halt EXCEPT ![p] = None]]

LEMMA ResetCoherent ==
  ASSUME NEW w, Coherent(w), NEW p \in Level, p = Root \/ w.at[Owner[p]] = "nested", Active(p, w) = {},
         w.halt[p] = None
  PROVE  /\ Coherent(Reset(p, w))
         /\ \A q \in Level \ {p} : Carries(q, w) => Carries(q, Reset(p, w))
         /\ \A q \in Level : Broke(q, w) => Broke(q, Reset(p, w))
         /\ \A q \in Level : q # Root /\ Owner[q] \in In(p) => w.level[q] # "open"
<1> DEFINE u == Reset(p, w)
<1>0. w \in Walks
  BY DEF Coherent
<1>1. /\ u \in Walks /\ u.port = w.port
      /\ \A m \in In(p) : u.at[m] = "pending"
      /\ \A m \in Node \ In(p) : u.at[m] = w.at[m]
      /\ u.halt[p] = None /\ \A q \in Level \ {p} : u.halt[q] = w.halt[q]
  <2>1. [n \in Node |-> IF n \in In(p) THEN "pending" ELSE w.at[n]] \in [Node -> NodeState]
    BY <1>0 DEF Walks, NodeState
  <2>2. [q \in Level |-> IF q = p THEN "open" ELSE IF q # Root /\ Owner[q] \in In(p) THEN "idle" ELSE w.level[q]]
        \in [Level -> {"idle", "open", "over"}]
    BY <1>0 DEF Walks
  <2>3. [w.halt EXCEPT ![p] = None] \in [Level -> {None} \cup Thrown]
    BY <1>0 DEF Walks
  <2>4. u \in Walks
    BY <1>0, <2>1, <2>2, <2>3 DEF Walks, Reset
  <2> QED BY <1>0, <2>4, PlanFacts DEF Walks, Reset
<1>2. /\ u.level[p] = "open"
      /\ \A q \in Level \ {p} : u.level[q] = IF q # Root /\ Owner[q] \in In(p) THEN "idle" ELSE w.level[q]
  BY DEF Reset
<1> HIDE DEF u
<1>3. /\ SourcesSettled(w) /\ Routed(w) /\ HaltSays(w) /\ WorksInOpen(w) /\ OpenIsOwned(w)
      /\ ThrownRises(w) /\ LaneMeansFailed(w) /\ OverIsSettled(w)
  BY DEF Coherent
<1>4. \A m \in In(p) : w.at[m] \notin Working
  BY DEF Active
<1>5. ASSUME NEW q \in Level, q # Root, Owner[q] \in In(p) PROVE w.level[q] # "open" /\ ~Carries(q, w)
  BY <1>3, <1>4, <1>5, StatesDiffer DEF OpenIsOwned, Carries
<1>6. ASSUME NEW m \in Node, u.at[m] # "pending"
      PROVE  /\ m \notin In(p) /\ u.at[m] = w.at[m]
             /\ \A s \in inPlanSources[m] : u.at[s] = w.at[s] /\ u.port[s] = w.port[s]
  <2>1. m \notin In(p)
    BY <1>1, <1>6
  <2>2. inPlanSources[m] \subseteq Node \ In(p)
    BY <2>1, SourcesAreHere, PlanFacts
  <2> QED BY <1>1, <2>1, <2>2
<1>7. SourcesSettled(u)
  BY <1>3, <1>6 DEF SourcesSettled
<1>8. Routed(u)
  <2>1. ASSUME NEW m \in Node, u.at[m] # "pending" PROVE u.at[m] = "skipped" <=> ~isLive(m, u)
    <3>1. isLive(m, u) <=> isLive(m, w)
      BY <1>6, <2>1, LiveSame
    <3> QED BY <1>3, <1>6, <2>1, <3>1 DEF Routed
  <2> QED BY <2>1 DEF Routed
<1>9. HaltSays(u)
  <2>1. u.halt[p] = None <=> \A n \in In(p) : u.at[n] \notin Thrown
    BY <1>1, StatesDiffer
  <2>2. ASSUME NEW q \in Level \ {p} PROVE u.halt[q] = None <=> \A n \in In(q) : u.at[n] \notin Thrown
    <3>1. \A n \in In(q) : u.at[n] = w.at[n]
      BY <1>1, LevelsApart
    <3> QED BY <1>1, <1>3, <3>1 DEF HaltSays
  <2> QED BY <2>1, <2>2 DEF HaltSays
<1>16. ASSUME NEW q \in Level, Broke(q, w) PROVE Broke(q, u)
  <2>1. q # p
    BY <1>3, <1>16, BrokeThrows
  <2>2. \A m \in In(q) : u.at[m] = w.at[m]
    BY <1>1, <2>1, LevelsApart
  <2> QED BY <1>16, <2>2, BrokeStays
<1>10. WorksInOpen(u)
  <2>1. ASSUME NEW m \in Node, u.at[m] \in Working PROVE u.level[LevelOf[m]] = "open" \/ Broke(LevelOf[m], u)
    <3>1. m \notin In(p) /\ w.at[m] \in Working
      BY <1>6, <2>1, StatesDiffer
    <3>2. LevelOf[m] \in Level \ {p} /\ (w.level[LevelOf[m]] = "open" \/ Broke(LevelOf[m], w))
      BY <1>3, <3>1, PlanFacts DEF WorksInOpen
    <3> QED BY <1>2, <1>5, <1>16, <3>2
  <2> QED BY <2>1 DEF WorksInOpen
<1>11. OpenIsOwned(u)
  <2>1. ASSUME NEW q \in Level \ {Root}, u.level[q] = "open" PROVE u.at[Owner[q]] = "nested"
    <3>1. CASE q = p
      <4>1. Owner[p] \in Node /\ Owner[p] \notin In(p)
        BY <2>1, <3>1, OwnerIsOutside, PlanFacts
      <4> QED BY <1>1, <2>1, <3>1, <4>1
    <3>2. CASE q # p
      <4>1. w.level[q] = "open" /\ Owner[q] \notin In(p) /\ Owner[q] \in Node
        BY <1>2, <2>1, <3>2, PlanFacts
      <4> QED BY <1>1, <1>3, <4>1 DEF OpenIsOwned
    <3> QED BY <3>1, <3>2
  <2> QED BY <2>1 DEF OpenIsOwned
<1>17. ThrownRises(u)
  <2>1. ASSUME NEW q \in Level \ {Root}, u.halt[q] # None PROVE u.at[Owner[q]] \in {"nested"} \cup Thrown
    <3>1. w.at[Owner[q]] \in {"nested"} \cup Thrown /\ Owner[q] \in Node
      BY <1>1, <1>3, <2>1, PlanFacts DEF ThrownRises
    <3>2. Owner[q] \notin In(p)
      BY <1>3, <1>4, <3>1, StatesDiffer DEF HaltSays
    <3> QED BY <1>1, <3>1, <3>2
  <2> QED BY <2>1 DEF ThrownRises
<1>12. LaneMeansFailed(u)
  <2>1. ASSUME NEW m \in Node, HasErrorLane(m), u.level[Nested[m][1]] # "idle"
        PROVE  u.at[m] \in {"nested"} \cup Thrown
    <3> DEFINE q == Nested[m][1]
    <3>1. q \in Level \ {Root} /\ Owner[q] = m
      BY <2>1, BodyIsLevel
    <3> HIDE DEF q
    <3>2. CASE q = p
      <4>1. m \notin In(p) /\ w.at[m] = "nested"
        BY <3>1, <3>2, OwnerIsOutside, PlanFacts
      <4> QED BY <1>1, <4>1
    <3>3. CASE q # p
      <4>1. m \notin In(p) /\ w.level[q] # "idle"
        BY <1>2, <2>1, <3>1, <3>3 DEF q
      <4> QED BY <1>1, <1>3, <2>1, <4>1 DEF LaneMeansFailed, q
    <3> QED BY <3>2, <3>3
  <2> QED BY <2>1 DEF LaneMeansFailed
<1>13. OverIsSettled(u)
  <2>1. ASSUME NEW q \in Level, u.level[q] = "over", u.halt[q] = None, NEW m \in In(q) PROVE u.at[m] \in Settled
    <3>1. q # p /\ w.level[q] = "over"
      BY <1>2, <2>1
    <3>2. w.halt[q] = None /\ u.at[m] = w.at[m]
      BY <1>1, <2>1, <3>1, LevelsApart
    <3> QED BY <1>3, <3>1, <3>2 DEF OverIsSettled
  <2> QED BY <2>1 DEF OverIsSettled
<1>14. ASSUME NEW q \in Level \ {p}, Carries(q, w) PROVE Carries(q, u)
  <2>1. u.level[q] = w.level[q] /\ u.halt[q] = w.halt[q]
    BY <1>1, <1>2, <1>5, <1>14
  <2>2. q # Root => u.at[Owner[q]] = w.at[Owner[q]]
    BY <1>1, <1>5, <1>14, PlanFacts
  <2> QED BY <1>14, <2>1, <2>2 DEF Carries
<1>15. Coherent(u)
  BY <1>1, <1>7, <1>8, <1>9, <1>10, <1>11, <1>12, <1>13, <1>17 DEF Coherent
<1> QED BY <1>5, <1>14, <1>15, <1>16 DEF u

(* A level that nothing runs in, and that will throw nothing, may begin.   *)
LEMMA ScheduleSound ==
  ASSUME NEW w, Sound(w), NEW p \in Level, p = Root \/ w.at[Owner[p]] = "nested", Active(p, w) = {},
         w.halt[p] = None, NEW pick \in Picks
  PROVE  LET u == schedule(p, w, pick)
         IN  /\ Sound(u) /\ u.level[p] = "open"
             /\ \A q \in Level \ {p} : u.level[q] \in {w.level[q], "idle"}
             /\ \A q \in Level \ {p} : u.halt[q] = w.halt[q]
             /\ p # Root => Keeps(w, u)
             /\ \A m \in Node \ In(p) : u.at[m] = w.at[m]
             /\ \A q \in Level \ {p} : Carries(q, w) => Carries(q, u)
<1> DEFINE v == Reset(p, w)
           u == schedule(p, w, pick)
<1>1. u = pump(p, v, pick)
  BY DEF schedule, Reset
<1>2. /\ Coherent(v)
      /\ \A q \in Level \ {p} : Carries(q, w) => Carries(q, v)
      /\ \A q \in Level : Broke(q, w) => Broke(q, v)
      /\ \A q \in Level : q # Root /\ Owner[q] \in In(p) => w.level[q] # "open"
  BY ResetCoherent DEF Sound
<1>3. /\ v.level[p] = "open"
      /\ \A q \in Level \ {p} : v.level[q] \in {w.level[q], "idle"} /\ v.halt[q] = w.halt[q]
      /\ p # Root => v.level[Root] = w.level[Root]
      /\ \A m \in Node \ In(p) : v.at[m] = w.at[m]
  <2>1. w.halt \in [Level -> {None} \cup Thrown]
    BY DEF Sound, Coherent, Walks
  <2> QED BY <2>1, PlanAssumption DEF Reset
<1> HIDE DEF v
<1>4. ASSUME NEW q \in Level \ {p}, v.level[q] = "open" PROVE Pumped(q, v)
  <2>1. Pumped(q, w)
    BY <1>3, <1>4 DEF Sound
  <2>2. \A m \in In(q) : v.at[m] = w.at[m]
    BY <1>3, LevelsApart
  <2> QED BY <1>3, <2>1, <2>2, PumpedElsewhere
<1>5. Sound(u) /\ Pumps(p, v, u)
  BY <1>1, <1>2, <1>3, <1>4, PumpSound
<1> HIDE DEF u
<1>6. ASSUME NEW q \in Level \ {p}, Carries(q, w) PROVE Carries(q, u)
  <2>1. Carries(q, v)
    BY <1>2, <1>6
  <2>2. u.halt[q] = v.halt[q] /\ u.level[q] = v.level[q]
    BY <1>5 DEF Pumps
  <2>3. q # Root /\ v.at[Owner[q]] = "nested" => u.at[Owner[q]] = "nested"
    BY <1>5, PlanFacts DEF Pumps
  <2> QED BY <2>1, <2>2, <2>3 DEF Carries
<1>7. p # Root => Keeps(w, u)
  <2>1. "error" # "pending"
    OBVIOUS
  <2>2. \A q \in Level : Broke(q, v) => Broke(q, u)
    BY <1>5, <2>1, BrokeStays, PlanFacts DEF Pumps
  <2> QED BY <1>2, <1>3, <1>5, <2>2, PlanAssumption DEF Pumps, Keeps
<1> QED BY <1>3, <1>5, <1>6, <1>7 DEF Pumps, u

-----------------------------------------------------------------------------
(* A lane ends.                                                            *)

(* What its level takes of it before the pump goes on.                     *)
Taken(n, o, w) ==
  IF o = "ok" THEN [w EXCEPT !.at[n] = "ran"]
  ELSE [w EXCEPT !.at[n] = o, !.halt[LevelOf[n]] = IF Broke(LevelOf[n], w) THEN @ ELSE haltError(@, o)]

LEMMA TakenIs ==
  ASSUME NEW w \in Walks, NEW n \in Node, NEW o \in {"ok"} \cup Thrown
  PROVE  LET u == Taken(n, o, w)
             p == LevelOf[n]
         IN  /\ u \in Walks /\ u.level = w.level /\ u.port = w.port
             /\ u.at[n] = (IF o = "ok" THEN "ran" ELSE o)
             /\ \A m \in Node \ {n} : u.at[m] = w.at[m]
             /\ u.halt[p] = (IF o = "ok" \/ Broke(p, w) THEN w.halt[p] ELSE haltError(w.halt[p], o))
             /\ \A q \in Level \ {p} : u.halt[q] = w.halt[q]
             /\ haltError(w.halt[p], o) \in {w.halt[p], o}
             /\ o \in Fatal \/ w.halt[p] \in Fatal => haltError(w.halt[p], o) \in Fatal
<1> DEFINE u == Taken(n, o, w)
           p == LevelOf[n]
           h == haltError(w.halt[p], o)
           t == IF Broke(p, w) THEN w.halt[p] ELSE h
<1>0. /\ p \in Level /\ w.halt \in [Level -> {None} \cup Thrown] /\ w.at \in [Node -> NodeState]
      /\ w.level \in [Level -> {"idle", "open", "over"}] /\ w.port \in [Routers -> Port \cup {None}]
      /\ w = [at |-> w.at, port |-> w.port, level |-> w.level, halt |-> w.halt]
  BY PlanFacts DEF Walks
<1>1. h \in {w.halt[p], o} /\ (o \in Fatal \/ w.halt[p] \in Fatal => h \in Fatal)
  <2>1. None \notin Fatal
    BY NoneAssumption, StatesDiffer
  <2> QED BY <2>1 DEF haltError
<1>2. CASE o = "ok"
  <2>1. u = [w EXCEPT !.at[n] = "ran"]
    BY <1>2 DEF Taken
  <2>2. "ran" \in NodeState
    BY DEF NodeState, Settled
  <2> QED BY <1>0, <1>1, <1>2, <2>1, <2>2 DEF Walks
<1>3. CASE o # "ok"
  <2>1. u = [w EXCEPT !.at[n] = o, !.halt[p] = t]
    BY <1>3 DEF Taken
  <2>2. u.at = [w.at EXCEPT ![n] = o] /\ u.halt = [w.halt EXCEPT ![p] = t] /\ u.level = w.level /\ u.port = w.port
    BY <1>0, <2>1
  <2>3. u = [at |-> u.at, port |-> w.port, level |-> w.level, halt |-> u.halt]
    BY <1>0, <2>1
  <2>4. o \in NodeState /\ t \in {None} \cup Thrown
    BY <1>0, <1>1, <1>3 DEF NodeState
  <2> HIDE DEF u, h, t
  <2>5. u.at \in [Node -> NodeState] /\ u.halt \in [Level -> {None} \cup Thrown]
    BY <1>0, <2>2, <2>4
  <2>6. u \in Walks
    BY <1>0, <2>3, <2>5 DEF Walks
  <2>7. u.at[n] = o /\ (\A m \in Node \ {n} : u.at[m] = w.at[m]) /\ u.halt[p] = t
        /\ \A q \in Level \ {p} : u.halt[q] = w.halt[q]
    BY <1>0, <2>2
  <2> QED BY <1>1, <1>3, <2>2, <2>6, <2>7 DEF u, h, t
<1> QED BY <1>2, <1>3

LEMMA TakenCoherent ==
  ASSUME NEW w, Sound(w), NEW n \in Node, w.at[n] \in Working, NEW o \in {"ok"} \cup Thrown,
         \A q \in Level \ {Root} : Owner[q] = n => w.level[q] # "open",
         HasErrorLane(n) /\ w.level[Nested[n][1]] # "idle" => o # "ok",
         o = "ok" => \A q \in Level \ {Root} : Owner[q] = n => w.halt[q] = None
  PROVE  Coherent(Taken(n, o, w))
<1> DEFINE u == Taken(n, o, w)
           p == LevelOf[n]
<1>0. w \in Walks /\ p \in Level /\ n \in In(p) /\ (w.level[p] = "open" \/ Broke(p, w))
  BY PlanFacts DEF Sound, Coherent, WorksInOpen
<1>1. /\ u \in Walks /\ u.level = w.level /\ u.port = w.port
      /\ u.at[n] = (IF o = "ok" THEN "ran" ELSE o)
      /\ \A m \in Node \ {n} : u.at[m] = w.at[m]
      /\ u.halt[p] = (IF o = "ok" \/ Broke(p, w) THEN w.halt[p] ELSE haltError(w.halt[p], o))
      /\ \A q \in Level \ {p} : u.halt[q] = w.halt[q]
      /\ haltError(w.halt[p], o) \in {w.halt[p], o}
  BY <1>0, TakenIs
<1> HIDE DEF u, p
<1>2. /\ SourcesSettled(w) /\ Routed(w) /\ HaltSays(w) /\ WorksInOpen(w) /\ OpenIsOwned(w)
      /\ ThrownRises(w) /\ LaneMeansFailed(w) /\ OverIsSettled(w)
  BY DEF Sound, Coherent
<1>3. u.at[n] \notin Working /\ u.at[n] # "pending" /\ u.at[n] # "skipped"
  BY <1>1, StatesDiffer
<1>4. ASSUME NEW m \in Node, u.at[m] # "pending"
      PROVE  /\ w.at[m] # "pending"
             /\ \A s \in inPlanSources[m] : w.at[s] \in Settled /\ u.at[s] = w.at[s]
  <2>1. w.at[m] # "pending"
    BY <1>1, <1>4, StatesDiffer
  <2>2. \A s \in inPlanSources[m] : w.at[s] \in Settled /\ s # n /\ s \in Node
    BY <1>2, <2>1, SourcesAreHere, StatesDiffer DEF SourcesSettled
  <2> QED BY <1>1, <2>1, <2>2
<1>5. SourcesSettled(u)
  BY <1>4 DEF SourcesSettled
<1>6. Routed(u)
  <2>1. ASSUME NEW m \in Node, u.at[m] # "pending" PROVE u.at[m] = "skipped" <=> ~isLive(m, u)
    <3>1. isLive(m, u) <=> isLive(m, w)
      BY <1>1, <1>4, <2>1, LiveSame
    <3>2. u.at[m] = "skipped" <=> w.at[m] = "skipped"
      BY <1>1, <1>3, StatesDiffer
    <3> QED BY <1>2, <1>4, <2>1, <3>1, <3>2 DEF Routed
  <2> QED BY <2>1 DEF Routed
<1>7. HaltSays(u)
  <2>1. u.halt[p] = None <=> \A m \in In(p) : u.at[m] \notin Thrown
    <3>1. CASE o = "ok"
      <4>1. u.at[n] \notin Thrown /\ w.at[n] \notin Thrown /\ u.halt[p] = w.halt[p]
        BY <1>1, <3>1, StatesDiffer
      <4>2. \A m \in In(p) : u.at[m] \in Thrown <=> w.at[m] \in Thrown
        BY <1>0, <1>1, <4>1, PlanFacts
      <4> QED BY <1>0, <1>2, <4>1, <4>2 DEF HaltSays
    <3>2. CASE o # "ok"
      <4>1. u.at[n] \in Thrown
        BY <1>1, <3>2
      <4>2. u.halt[p] # None
        <5>1. haltError(w.halt[p], o) # None
          BY <3>2, NoneAssumption DEF haltError
        <5>2. Broke(p, w) => w.halt[p] # None
          BY <1>0, <1>2, BrokeThrows
        <5> QED BY <1>1, <3>2, <5>1, <5>2
      <4> QED BY <1>0, <4>1, <4>2
    <3> QED BY <3>1, <3>2
  <2>2. ASSUME NEW q \in Level \ {p} PROVE u.halt[q] = None <=> \A m \in In(q) : u.at[m] \notin Thrown
    <3>1. \A m \in In(q) : u.at[m] = w.at[m]
      BY <1>0, <1>1, LevelsApart
    <3> QED BY <1>1, <1>2, <3>1 DEF HaltSays
  <2> QED BY <2>1, <2>2 DEF HaltSays
<1>13. \A q \in Level : Broke(q, w) => Broke(q, u)
  <2>1. "error" \in Thrown
    BY DEF Thrown
  <2>2. \A m \in Node : w.at[m] = "error" => u.at[m] = "error"
    BY <1>1, <2>1, StatesDiffer
  <2> QED BY <2>2, BrokeStays, PlanFacts
<1>8. WorksInOpen(u)
  BY <1>1, <1>2, <1>3, <1>13, PlanFacts DEF WorksInOpen
<1>14. ThrownRises(u)
  <2>1. ASSUME NEW q \in Level \ {Root}, u.halt[q] # None PROVE u.at[Owner[q]] \in {"nested"} \cup Thrown
    <3>1. Owner[q] \in Node
      BY PlanFacts
    <3>2. CASE Owner[q] = n
      <4>1. q # p
        BY <1>0, <2>1, <3>2, OwnerIsOutside DEF p
      <4>2. o # "ok"
        BY <1>1, <2>1, <3>2, <4>1
      <4> QED BY <1>1, <3>2, <4>2
    <3>3. CASE Owner[q] # n
      <4>1. w.at[Owner[q]] \in {"nested"} \cup Thrown
        <5>1. CASE w.halt[q] # None
          BY <1>2, <5>1 DEF ThrownRises
        <5>2. CASE w.halt[q] = None
          <6>1. q = p
            BY <1>1, <2>1, <5>2
          <6>2. w.level[q] = "open"
            BY <1>0, <1>2, <5>2, <6>1, BrokeThrows
          <6> QED BY <1>2, <6>2 DEF OpenIsOwned
        <5> QED BY <5>1, <5>2
      <4> QED BY <1>1, <3>1, <3>3, <4>1
    <3> QED BY <3>2, <3>3
  <2> QED BY <2>1 DEF ThrownRises
<1>9. OpenIsOwned(u)
  BY <1>1, <1>2, PlanFacts DEF OpenIsOwned
<1>10. LaneMeansFailed(u)
  BY <1>1, <1>2 DEF LaneMeansFailed
<1>11. OverIsSettled(u)
  <2>1. ASSUME NEW q \in Level, u.level[q] = "over", u.halt[q] = None, NEW m \in In(q) PROVE u.at[m] \in Settled
    <3>1. q # p /\ w.level[q] = "over" /\ w.halt[q] = None
      <4>1. ASSUME q = p PROVE FALSE
        <5>1. Broke(p, w)
          BY <1>0, <1>1, <2>1, <4>1
        <5>2. w.halt[p] # None
          BY <1>0, <1>2, <5>1, BrokeThrows
        <5> QED BY <1>1, <2>1, <4>1, <5>1, <5>2
      <4> QED BY <1>1, <2>1, <4>1
    <3>2. u.at[m] = w.at[m]
      BY <1>0, <1>1, <3>1, LevelsApart
    <3> QED BY <1>2, <3>1, <3>2 DEF OverIsSettled
  <2> QED BY <2>1 DEF OverIsSettled
<1>12. Coherent(u)
  BY <1>1, <1>5, <1>6, <1>7, <1>8, <1>9, <1>10, <1>11, <1>14 DEF Coherent
<1> QED BY <1>12 DEF u

(* A lane may end whose levels are not open, and with an error lane behind *)
(* it only in failure.  A fatal error is in its level then, or that level  *)
(* broke.                                                                  *)
LEMMA LaneEndsSound ==
  ASSUME NEW w, Sound(w), NEW n \in Node, w.at[n] \in Working, NEW o \in {"ok"} \cup Thrown,
         \A q \in Level \ {Root} : Owner[q] = n => w.level[q] # "open",
         HasErrorLane(n) /\ w.level[Nested[n][1]] # "idle" => o # "ok",
         o = "ok" => \A q \in Level \ {Root} : Owner[q] = n => w.halt[q] = None,
         NEW pick \in Picks
  PROVE  LET u == laneEnds(n, o, w, pick)
         IN  /\ Sound(u) /\ Keeps(w, u)
             /\ o \in Fatal => Carries(LevelOf[n], u) \/ Broke(LevelOf[n], u)
             /\ \A q \in Level : Carries(q, w) /\ (q = Root \/ Owner[q] # n) => Carries(q, u)
<1> DEFINE v == Taken(n, o, w)
           u == laneEnds(n, o, w, pick)
           p == LevelOf[n]
<1>0. w \in Walks /\ p \in Level /\ n \in In(p) /\ (w.level[p] = "open" \/ Broke(p, w)) /\ HaltSays(w)
  BY PlanFacts DEF Sound, Coherent, WorksInOpen
<1>1. /\ v \in Walks /\ v.level = w.level
      /\ \A m \in Node \ {n} : v.at[m] = w.at[m]
      /\ v.halt[p] = (IF o = "ok" \/ Broke(p, w) THEN w.halt[p] ELSE haltError(w.halt[p], o))
      /\ \A q \in Level \ {p} : v.halt[q] = w.halt[q]
      /\ o \in Fatal \/ w.halt[p] \in Fatal => haltError(w.halt[p], o) \in Fatal
  BY <1>0, TakenIs
<1>2. Coherent(v)
  BY TakenCoherent
<1>3. u = IF o = "ok" THEN pump(p, v, pick) ELSE v
  BY DEF laneEnds, Taken
<1>a. o # "ok" => v.halt[p] # None
  <2>1. Broke(p, w) => w.halt[p] # None
    BY <1>0, BrokeThrows
  <2>2. o # "ok" => haltError(w.halt[p], o) # None
    BY NoneAssumption DEF haltError
  <2> QED BY <1>1, <2>1, <2>2
<1>b. Broke(p, w) => v.halt[p] # None /\ v.halt[p] = w.halt[p]
  BY <1>0, <1>1, BrokeThrows
<1> HIDE DEF v, p
<1>4. ASSUME NEW q \in Level \ {p}, v.level[q] = "open" PROVE Pumped(q, v)
  <2>1. Pumped(q, w)
    BY <1>1, <1>4 DEF Sound
  <2>2. \A m \in In(q) : v.at[m] = w.at[m]
    BY <1>0, <1>1, LevelsApart
  <2> QED BY <1>1, <2>1, <2>2, PumpedElsewhere
<1>5. Sound(u) /\ Pumps(p, v, u)
  <2>1. CASE v.halt[p] # None
    <3>1. u = v
      BY <1>0, <1>1, <1>3, <2>1, PumpStopped
    <3>2. Pumped(p, v)
      BY <2>1 DEF Pumped
    <3>3. Sound(v)
      BY <1>2, <1>4, <3>2 DEF Sound
    <3> QED BY <3>1, <3>3 DEF Pumps
  <2>2. CASE v.halt[p] = None
    <3>1. u = pump(p, v, pick) /\ v.level[p] = "open"
      BY <1>0, <1>1, <1>3, <1>a, <1>b, <2>2
    <3> QED BY <1>0, <1>2, <1>4, <3>1, PumpSound
  <2> QED BY <2>1, <2>2
<1> HIDE DEF u
<1>6. /\ u.level = w.level
      /\ \A q \in Level \ {p} : u.halt[q] = w.halt[q]
      /\ v.halt[p] # None => u.halt[p] = v.halt[p]
  BY <1>1, <1>5 DEF Pumps
<1>c. \A q \in Level : Broke(q, w) => Broke(q, u)
  <2>1. "error" \in Thrown /\ "error" # "pending"
    BY DEF Thrown
  <2>2. \A m \in Node : w.at[m] = "error" => u.at[m] = "error"
    BY <1>1, <1>5, <2>1, StatesDiffer DEF Pumps
  <2> QED BY <2>2, BrokeStays, PlanFacts
<1>d. Keeps(w, u)
  <2>1. w.level[Root] = "over" => u.halt[Root] = w.halt[Root]
    BY <1>0, <1>6, <1>b, PlanAssumption
  <2> QED BY <1>6, <1>c, <2>1 DEF Keeps
<1>7. ASSUME o \in Fatal PROVE Carries(p, u) \/ Broke(p, u)
  <2>1. o # "ok"
    BY <1>7 DEF Fatal
  <2>2. CASE Broke(p, w)
    BY <1>0, <1>c, <2>2
  <2>3. CASE ~Broke(p, w)
    BY <1>0, <1>1, <1>6, <1>7, <1>a, <2>1, <2>3 DEF Carries
  <2> QED BY <2>2, <2>3
<1>8. ASSUME NEW q \in Level, Carries(q, w), q = Root \/ Owner[q] # n PROVE Carries(q, u)
  <2>1. u.halt[q] \in Fatal
    <3>1. None \notin Fatal
      BY NoneAssumption, StatesDiffer
    <3> QED BY <1>0, <1>1, <1>6, <1>8, <3>1 DEF Carries
  <2>2. q # Root /\ w.at[Owner[q]] = "nested" => u.at[Owner[q]] = "nested"
    BY <1>1, <1>5, <1>8, PlanFacts DEF Pumps
  <2> QED BY <1>6, <1>8, <2>1, <2>2 DEF Carries
<1> QED BY <1>5, <1>7, <1>8, <1>d DEF u, p

(* A node that owns no open level, and whose error lane has not begun.     *)
LEMMA NotNested ==
  ASSUME NEW w, Coherent(w), NEW n \in Node, w.at[n] \in {"started", "working"}
  PROVE  /\ w.at[n] \in Working
         /\ \A q \in Level \ {Root} : Owner[q] = n => w.level[q] # "open" /\ w.halt[q] = None /\ ~Carries(q, w)
         /\ HasErrorLane(n) => w.level[Nested[n][1]] = "idle"
<1>1. w.at[n] \notin {"nested"} \cup Thrown /\ w.at[n] \in Working
  BY StatesDiffer DEF Thrown, Fatal
<1>2. \A q \in Level \ {Root} : Owner[q] = n => w.level[q] # "open" /\ w.halt[q] = None /\ ~Carries(q, w)
  BY <1>1 DEF Coherent, OpenIsOwned, ThrownRises, Carries
<1> QED BY <1>1, <1>2 DEF Coherent, LaneMeansFailed

(* Such a lane ends as it may, and what was on its way up goes on.         *)
LEMMA SimpleLaneEnds ==
  ASSUME NEW w, Sound(w), NEW n \in Node, w.at[n] \in {"started", "working"}, NEW o \in {"ok"} \cup Thrown,
         NEW pick \in Picks
  PROVE  LET u == laneEnds(n, o, w, pick)
         IN  Sound(u) /\ Keeps(w, u) /\ (o \in Fatal \/ Rising(w) => Rising(u))
<1> DEFINE u == laneEnds(n, o, w, pick)
<1>1. /\ w.at[n] \in Working
      /\ \A q \in Level \ {Root} : Owner[q] = n => w.level[q] # "open" /\ w.halt[q] = None /\ ~Carries(q, w)
      /\ HasErrorLane(n) => w.level[Nested[n][1]] = "idle"
  BY NotNested DEF Sound
<1>2. /\ Sound(u) /\ Keeps(w, u)
      /\ o \in Fatal => Carries(LevelOf[n], u) \/ Broke(LevelOf[n], u)
      /\ \A q \in Level : Carries(q, w) /\ (q = Root \/ Owner[q] # n) => Carries(q, u)
  BY <1>1, LaneEndsSound
<1> HIDE DEF u
<1>3. o \in Fatal \/ Rising(w) => Rising(u)
  BY <1>1, <1>2, PlanFacts DEF Rising, Keeps
<1> QED BY <1>2, <1>3 DEF u

(* A level that is not open and will throw nothing has nobody at work.     *)
LEMMA NobodyWorks ==
  ASSUME NEW w, Coherent(w), NEW p \in Level, w.level[p] # "open", w.halt[p] = None
  PROVE  Active(p, w) = {}
<1>1. ~Broke(p, w)
  BY BrokeThrows DEF Coherent
<1> QED BY <1>1, PlanFacts DEF Coherent, WorksInOpen, Active

(* A node opens a level of its own.                                        *)
LEMMA OpensLevel ==
  ASSUME NEW w, Sound(w), NEW n \in Node, w.at[n] \in {"started", "working"},
         NEW p \in Level \ {Root}, Owner[p] = n, NEW pick \in Picks
  PROVE  LET u == schedule(p, [w EXCEPT !.at[n] = "nested"], pick)
         IN  Sound(u) /\ Keeps(w, u) /\ (Rising(w) => Rising(u))
<1> DEFINE v == [w EXCEPT !.at[n] = "nested"]
           u == schedule(p, v, pick)
<1>1. /\ w.at[n] \in Working
      /\ \A q \in Level \ {Root} : Owner[q] = n => w.level[q] # "open" /\ w.halt[q] = None /\ ~Carries(q, w)
  BY NotNested DEF Sound
<1>2. v.at[n] = "nested"
  BY DEF Sound, Coherent, Walks
<1>3. /\ Sound(v) /\ v.level = w.level /\ v.halt = w.halt /\ Keeps(w, v)
      /\ \A q \in Level : Carries(q, w) => Carries(q, v)
  BY <1>1, WorkSound, StatesDiffer
<1> HIDE DEF v
<1>4. Active(p, v) = {} /\ v.halt[p] = None
  BY <1>1, <1>3, NobodyWorks DEF Sound
<1>5. Sound(u) /\ Keeps(v, u) /\ \A q \in Level \ {p} : Carries(q, v) => Carries(q, u)
  BY <1>2, <1>3, <1>4, ScheduleSound
<1> HIDE DEF u
<1>6. Keeps(w, u)
  BY <1>3, <1>5, KeepsOn
<1>7. Rising(w) => Rising(u)
  BY <1>1, <1>3, <1>5, <1>6 DEF Rising, Keeps
<1> QED BY <1>5, <1>6, <1>7 DEF u, v

(* A level is over, and the lane of the leaf or loop that owns it ends.    *)
LEMMA ClosesAndEnds ==
  ASSUME NEW w, Sound(w), NEW n \in Node, w.at[n] = "nested", Kind[n] \in {"leaf", "forEach", "while"},
         NEW p \in Level \ {Root}, Owner[p] = n, w.level[p] = "open", Active(p, w) = {} \/ Broke(p, w),
         NEW o \in {"ok"} \cup Thrown, w.halt[p] \in Fatal => o \in Fatal, Kind[n] = "leaf" => o # "ok",
         o = "ok" => w.halt[p] = None, NEW pick \in Picks
  PROVE  LET u == laneEnds(n, o, [w EXCEPT !.level[p] = "over"], pick)
         IN  Sound(u) /\ Keeps(w, u) /\ (o \in Fatal \/ Rising(w) => Rising(u))
<1> DEFINE v == [w EXCEPT !.level[p] = "over"]
           u == laneEnds(n, o, v, pick)
<1>1. /\ Sound(v) /\ v.at = w.at /\ v.halt = w.halt /\ v.level[p] = "over" /\ Keeps(w, v)
      /\ \A q \in Level \ {p} : Carries(q, w) => Carries(q, v)
  BY CloseSound
<1> HIDE DEF v
<1>3. \A q \in Level \ {Root} : Owner[q] = n => q = p
  BY OneLevel
<1>4. HasErrorLane(n) => o # "ok"
  BY DEF HasErrorLane
<1>5. v.at[n] \in Working
  BY <1>1, StatesDiffer
<1>6. /\ Sound(u) /\ Keeps(v, u)
      /\ o \in Fatal => Carries(LevelOf[n], u) \/ Broke(LevelOf[n], u)
      /\ \A q \in Level : Carries(q, v) /\ (q = Root \/ Owner[q] # n) => Carries(q, u)
  BY <1>1, <1>3, <1>4, <1>5, LaneEndsSound
<1> HIDE DEF u
<1>2. Keeps(w, u)
  BY <1>1, <1>6, KeepsOn
<1>7. ASSUME Rising(w), o \notin Fatal PROVE Rising(u)
  <2>1. PICK q \in Level : Carries(q, w) \/ Broke(q, w)
    BY <1>7 DEF Rising
  <2>2. CASE Broke(q, w)
    BY <1>2, <2>2 DEF Rising, Keeps
  <2>3. CASE Carries(q, w)
    <3>1. q # p
      BY <1>7, <2>3 DEF Carries
    <3>2. Carries(q, v) /\ (q = Root \/ Owner[q] # n)
      BY <1>1, <1>3, <2>3, <3>1
    <3> QED BY <1>6, <3>2 DEF Rising
  <2> QED BY <2>1, <2>2, <2>3
<1>8. o \in Fatal => Rising(u)
  BY <1>6, PlanFacts DEF Rising
<1> QED BY <1>2, <1>6, <1>7, <1>8 DEF u, v

(* A loop's next round begins in the level its last one left.              *)
LEMMA NextRound ==
  ASSUME NEW w, Sound(w), NEW p \in Level \ {Root}, w.at[Owner[p]] = "nested", Active(p, w) = {},
         w.halt[p] = None, NEW pick \in Picks
  PROVE  LET u == schedule(p, w, pick)
         IN  Sound(u) /\ Keeps(w, u) /\ (Rising(w) => Rising(u))
<1> DEFINE u == schedule(p, w, pick)
<1>1. Sound(u) /\ Keeps(w, u) /\ \A q \in Level \ {p} : Carries(q, w) => Carries(q, u)
  BY ScheduleSound
<1>2. ~Carries(p, w)
  BY NoneAssumption, StatesDiffer DEF Carries
<1> HIDE DEF u
<1>3. Rising(w) => Rising(u)
  BY <1>1, <1>2 DEF Rising, Keeps
<1> QED BY <1>1, <1>3 DEF u

-----------------------------------------------------------------------------
(* Actions.                                                                *)

LEMMA WalkIs ==
  /\ Walk.at = at /\ Walk.port = port /\ Walk.level = level /\ Walk.halt = halt
  BY DEF Walk

LEMMA BecomesIs ==
  ASSUME NEW w \in Walks, Becomes(w)
  PROVE  Walk' = w
<1>1. w = [at |-> w.at, port |-> w.port, level |-> w.level, halt |-> w.halt]
  BY DEF Walks
<1> QED BY <1>1 DEF Walk, Becomes

(* Nothing begins, and nothing has failed.                                 *)
LEMMA InitIInv == Init => IInv
<1> SUFFICES ASSUME Init PROVE IInv
  OBVIOUS
<1>1. PICK pick \in Picks :
        LET w == schedule(Root, [at |-> [n \in Node |-> "pending"],
                                 port |-> [n \in DOMAIN pick |-> None],
                                 level |-> [p \in Level |-> "idle"],
                                 halt |-> [p \in Level |-> None]], pick)
        IN  at = w.at /\ port = w.port /\ level = w.level /\ halt = w.halt
  BY DEF Init
<1> DEFINE v == [at |-> [n \in Node |-> "pending"], port |-> [n \in DOMAIN pick |-> None],
                 level |-> [p \in Level |-> "idle"], halt |-> [p \in Level |-> None]]
           w == schedule(Root, v, pick)
<1>2. at = w.at /\ port = w.port /\ level = w.level /\ halt = w.halt
  BY <1>1
<1>3. v \in Walks
  <2>1. DOMAIN pick = Routers
    BY DEF Picks, Routers
  <2> QED BY <2>1 DEF Walks, NodeState
<1>4. /\ \A n \in Node : v.at[n] = "pending"
      /\ \A p \in Level : v.level[p] = "idle" /\ v.halt[p] = None
  OBVIOUS
<1> HIDE DEF v
<1>5. \A p \in Level : \A n \in In(p) : v.at[n] = "pending"
  BY <1>4, PlanFacts
<1>6. SourcesSettled(v) /\ Routed(v) /\ HaltSays(v)
  BY <1>4, <1>5, StatesDiffer DEF SourcesSettled, Routed, HaltSays
<1>7. WorksInOpen(v) /\ OpenIsOwned(v) /\ ThrownRises(v) /\ LaneMeansFailed(v) /\ OverIsSettled(v)
  BY <1>4, StatesDiffer, BodyIsLevel DEF WorksInOpen, OpenIsOwned, ThrownRises, LaneMeansFailed, OverIsSettled
<1>8. Sound(v)
  BY <1>3, <1>4, <1>6, <1>7 DEF Sound, Coherent
<1>9. Active(Root, v) = {} /\ Root \in Level
  BY <1>4, <1>8, NobodyWorks, PlanAssumption DEF Sound
<1>10. Sound(w) /\ w.level[Root] = "open"
  BY <1>4, <1>8, <1>9, ScheduleSound
<1> HIDE DEF w
<1>11. w \in Walks /\ Walk = w
  <2>1. w \in Walks
    BY <1>10 DEF Sound, Coherent
  <2>2. w = [at |-> w.at, port |-> w.port, level |-> w.level, halt |-> w.halt]
    BY <2>1 DEF Walks
  <2> QED BY <1>2, <2>1, <2>2 DEF Walk
<1>12. Sound(Walk) /\ level[Root] = "open"
  BY <1>2, <1>10, <1>11
<1>13. Counted
  <2>1. 0 \in 0..MaxItems /\ 0 \in 0..MaxSteps /\ 0 \in 0..MaxRounds
    BY BoundAssumption
  <2>2. left = [n \in Node |-> 0] /\ steps = 0 /\ rounds = 0 /\ cancelled = FALSE /\ fatalMet = FALSE
    BY DEF Init
  <2> QED BY <2>1, <2>2 DEF Counted
<1>14. Ended /\ ~fatalMet
  BY <1>12 DEF Init, Ended
<1> QED BY <1>12, <1>13, <1>14 DEF IInv

(* What a step must do: make a sound walk of a sound one, charge within    *)
(* the limits, and let no fatal error go.                                  *)
LEMMA StepHolds ==
  ASSUME IInv, NEW w, Sound(w), Becomes(w), Keeps(Walk, w), end' = end, Counted', fatalMet' => Rising(w)
  PROVE  IInv'
<1>1. Walk' = w
  BY BecomesIs DEF Sound, Coherent
<1>2. Sound(Walk)'
  BY <1>1
<1>3. Ended'
  <2>1. level'[Root] = level[Root] /\ (level[Root] = "over" => halt'[Root] = halt[Root])
    BY WalkIs DEF Becomes, Keeps
  <2> QED BY <2>1 DEF IInv, Ended, Outcome
<1>4. (fatalMet => Rising(Walk))'
  BY <1>1
<1> QED BY <1>2, <1>3, <1>4 DEF IInv

LEMMA FatalRises == IInv => (fatalMet => Rising(Walk))
  BY DEF IInv

LEMMA ChargeHolds ==
  ASSUME IInv, NEW n \in Node, charge(n)
  PROVE  IInv'
<1>1. /\ Sound(Walk) /\ at[n] = "started" /\ at[n] \in Working /\ Walk.at[n] = at[n]
      /\ end' = end
  BY StatesDiffer, WalkIs DEF IInv, charge
<1>2. Counted'
  BY BoundAssumption DEF IInv, Counted, charge
<1>3. CASE ~cancelled /\ steps < MaxSteps
  <2> DEFINE w == [Walk EXCEPT !.at[n] = "working"]
  <2>1. Becomes(w) /\ fatalMet' = (fatalMet \/ steps + 1 = steps)
    BY <1>3 DEF charge
  <2>2. Sound(w) /\ Keeps(Walk, w) /\ \A q \in Level : Carries(q, Walk) => Carries(q, w)
    BY <1>1, StatesDiffer, WorkSound
  <2>4. fatalMet' = fatalMet
    <3>1. steps \in Int
      BY DEF IInv, Counted
    <3>2. steps + 1 # steps
      BY <3>1
    <3> QED BY <2>1, <3>2 DEF IInv, Counted
  <2>5. fatalMet' => Rising(w)
    BY <2>2, <2>4, FatalRises DEF Rising, Keeps
  <2> HIDE DEF w
  <2> QED BY <1>1, <1>2, <2>1, <2>2, <2>5, StepHolds
<1>4. CASE ~(~cancelled /\ steps < MaxSteps)
  <2>1. PICK pick \in Picks : Becomes(laneEnds(n, IF cancelled THEN "cancel" ELSE "fatal", Walk, pick))
    BY <1>4 DEF charge
  <2> DEFINE o == IF cancelled THEN "cancel" ELSE "fatal"
             w == laneEnds(n, o, Walk, pick)
  <2>2. o \in Fatal /\ o \in {"ok"} \cup Thrown
    BY DEF Fatal, Thrown
  <2>3. Sound(w) /\ Keeps(Walk, w) /\ Rising(w)
    <3> HIDE DEF o
    <3> QED BY <1>1, <2>2, SimpleLaneEnds
  <2>4. Becomes(w)
    BY <2>1
  <2> HIDE DEF w
  <2> QED BY <1>1, <1>2, <2>3, <2>4, StepHolds
<1> QED BY <1>3, <1>4

LEMMA LeafReturnsHolds ==
  ASSUME IInv, NEW n \in Node, leafReturns(n)
  PROVE  IInv'
<1>1. /\ Sound(Walk) /\ at[n] = "working" /\ at[n] \in Working /\ Walk.at[n] = at[n]
      /\ end' = end /\ fatalMet' = fatalMet
  BY StatesDiffer, WalkIs DEF IInv, leafReturns
<1>2. Counted'
  BY DEF IInv, Counted, leafReturns
<1>3. PICK pick \in Picks : Becomes(laneEnds(n, "ok", Walk, pick))
  BY DEF leafReturns
<1> DEFINE w == laneEnds(n, "ok", Walk, pick)
<1>4. Sound(w) /\ Keeps(Walk, w) /\ (Rising(Walk) => Rising(w))
  BY <1>1, SimpleLaneEnds
<1>5. Becomes(w)
  BY <1>3
<1> HIDE DEF w
<1> QED BY <1>1, <1>2, <1>4, <1>5, FatalRises, StepHolds

LEMMA LeafThrowsHolds ==
  ASSUME IInv, NEW n \in Node, NEW o \in {"error", "fatal"}, leafThrows(n, o)
  PROVE  IInv'
<1>1. /\ Sound(Walk) /\ Kind[n] = "leaf" /\ at[n] = "working" /\ at[n] \in Working /\ Walk.at[n] = at[n]
      /\ end' = end /\ fatalMet' = (fatalMet \/ o = "fatal" \/ cancelled)
  BY StatesDiffer, WalkIs DEF IInv, leafThrows
<1>2. Counted'
  BY DEF IInv, Counted, leafThrows
<1>3. PICK pick \in Picks : Becomes(handled(n, IF o # "fatal" /\ cancelled THEN "cancel" ELSE o, pick))
  BY DEF leafThrows
<1> DEFINE t == IF o # "fatal" /\ cancelled THEN "cancel" ELSE o
           w == handled(n, t, pick)
<1>4. t \in {"ok"} \cup Thrown /\ (t \notin Fatal => fatalMet' = fatalMet)
  BY <1>1 DEF Fatal, Thrown, IInv, Counted
<1>5. Becomes(w)
  BY <1>3
<1> HIDE DEF t
<1>6. Sound(w) /\ Keeps(Walk, w) /\ (t \in Fatal \/ Rising(Walk) => Rising(w))
  <2>1. CASE t \in Fatal
    <3>1. w = laneEnds(n, t, Walk, pick)
      BY <2>1 DEF handled
    <3> QED BY <1>1, <1>4, <2>1, <3>1, SimpleLaneEnds
  <2>2. CASE t \notin Fatal /\ HasErrorLane(n)
    <3> DEFINE p == Nested[n][1]
    <3>1. w = schedule(p, [Walk EXCEPT !.at[n] = "nested"], pick)
      BY <2>2 DEF handled
    <3>2. p \in Level \ {Root} /\ Owner[p] = n
      BY <2>2, BodyIsLevel
    <3> HIDE DEF w, p
    <3> QED BY <1>1, <2>2, <3>1, <3>2, OpensLevel
  <2>3. CASE t \notin Fatal /\ ~HasErrorLane(n)
    <3>1. \E x \in {"ok"} \cup Thrown : w = laneEnds(n, x, Walk, pick)
      BY <1>4, <2>3 DEF handled
    <3> QED BY <1>1, <2>3, <3>1, SimpleLaneEnds
  <2> QED BY <2>1, <2>2, <2>3
<1> HIDE DEF w
<1>7. fatalMet' => Rising(w)
  BY <1>4, <1>6, FatalRises
<1> QED BY <1>1, <1>2, <1>5, <1>6, <1>7, StepHolds

(* A level's beginning is a walk, whatever it begins from.                 *)
LEMMA ScheduleType ==
  ASSUME NEW p \in Level, NEW w \in Walks, NEW pick \in Picks
  PROVE  schedule(p, w, pick) \in Walks
<1> DEFINE v == Reset(p, w)
           T == Nat \X Walks
<1>1. v \in Walks
  <2>1. [n \in Node |-> IF n \in In(p) THEN "pending" ELSE w.at[n]] \in [Node -> NodeState]
    BY DEF Walks, NodeState
  <2>2. [q \in Level |-> IF q = p THEN "open" ELSE IF q # Root /\ Owner[q] \in In(p) THEN "idle" ELSE w.level[q]]
        \in [Level -> {"idle", "open", "over"}]
    BY DEF Walks
  <2>3. [w.halt EXCEPT ![p] = None] \in [Level -> {None} \cup Thrown]
    BY DEF Walks
  <2> QED BY <2>1, <2>2, <2>3 DEF Walks, Reset
<1>2. schedule(p, w, pick) = pump(p, v, pick)
  BY DEF schedule, Reset
<1> HIDE DEF v
<1>3. \A u \in Walks : pumpOnce(p, u, pick) \in Walks
  BY PumpOnceType
<1>4. \A k \in Nat : \A u \in Walks : <<k, u>> \in T => <<k + 1, pumpOnce(p, u, pick)>> \in T
  BY <1>3
<1>5. <<0, v>> \in T
  BY <1>1
<1> HIDE DEF T
<1> QED BY <1>1, <1>2, <1>4, <1>5, PumpInduction

(* What the branches of a node have made of the walk, one after another.   *)
Begins(begun, n, pick) ==
  begun = [i \in 0..Len(Nested[n]) |->
             IF i = 0 THEN [Walk EXCEPT !.at[n] = "nested"]
             ELSE schedule(Nested[n][i], begun[i - 1], pick)]

LEMMA BeginsExists ==
  ASSUME Walk \in Walks, NEW n \in Node, NEW pick \in Picks
  PROVE  \E begun : Begins(begun, n, pick)
<1> DEFINE l == Len(Nested[n])
           w == [Walk EXCEPT !.at[n] = "nested"]
           F == [k \in Nat |-> [v \in Walks |-> IF k < l THEN schedule(Nested[n][k + 1], v, pick) ELSE v]]
<1>1. l \in Nat /\ \A i \in 1..l : Nested[n][i] \in Level
  BY NestedFacts
<1>2. w \in Walks
  BY DEF Walks, NodeState, Working
<1>3. F \in [Nat -> [Walks -> Walks]]
  <2>1. ASSUME NEW k \in Nat, NEW v \in Walks
        PROVE  (IF k < l THEN schedule(Nested[n][k + 1], v, pick) ELSE v) \in Walks
    <3>1. ASSUME k < l PROVE schedule(Nested[n][k + 1], v, pick) \in Walks
      <4>1. k + 1 \in 1..l
        BY <1>1, <3>1
      <4>2. Nested[n][k + 1] \in Level
        BY <1>1, <4>1
      <4> QED BY <4>2, ScheduleType
    <3> QED BY <3>1
  <2> QED BY <2>1
<1> HIDE DEF w
<1>4. PICK f : Iterated(f, Walks, w, F)
  <2> HIDE DEF F
  <2>1. \E f : Iterated(f, Walks, w, F)
    BY <1>2, <1>3, IterationExists
  <2> QED BY <2>1
<1> DEFINE begun == [i \in 0..l |-> f[i]]
<1>5. ASSUME NEW i \in 0..l
      PROVE  begun[i] = IF i = 0 THEN w ELSE schedule(Nested[n][i], begun[i - 1], pick)
  <2>1. CASE i = 0
    BY <1>4, <2>1 DEF Iterated
  <2>2. CASE i # 0
    <3>1. i - 1 \in Nat /\ i - 1 < l /\ (i - 1) + 1 = i /\ i - 1 \in 0..l
      BY <1>1, <2>2
    <3>2. f[(i - 1) + 1] = F[i - 1][f[i - 1]] /\ f[i - 1] \in Walks
      BY <1>4, <3>1 DEF Iterated
    <3>3. f[i] = schedule(Nested[n][i], f[i - 1], pick)
      BY <3>1, <3>2
    <3> QED BY <2>2, <3>1, <3>3
  <2> QED BY <2>1, <2>2
<1>6. begun = [i \in 0..l |-> IF i = 0 THEN w ELSE schedule(Nested[n][i], begun[i - 1], pick)]
  BY <1>5
<1> HIDE DEF begun
<1>7. Begins(begun, n, pick)
  BY <1>6 DEF Begins, w
<1> QED BY <1>7

(* What holds once the first k branches of a node have begun: the others   *)
(* have not, and neither failed nor had a fatal error on its way up.       *)
Begun(n, k, v) ==
  /\ Sound(v) /\ v.at[n] = "nested" /\ Keeps(Walk, v)
  /\ \A i \in 1..Len(Nested[n]) : i > k => v.level[Nested[n][i]] # "open" /\ v.halt[Nested[n][i]] = None
  /\ Rising(Walk) => \E q \in Level : (Carries(q, v) /\ (q = Root \/ Owner[q] # n)) \/ Broke(q, v)

LEMMA BranchBegins ==
  ASSUME NEW n \in Node, NEW k \in Nat, k < Len(Nested[n]), NEW v, Begun(n, k, v), NEW pick \in Picks
  PROVE  Begun(n, k + 1, schedule(Nested[n][k + 1], v, pick))
<1> DEFINE p == Nested[n][k + 1]
           u == schedule(p, v, pick)
           l == Len(Nested[n])
<1>1. l \in Nat /\ k + 1 \in 1..l /\ DOMAIN Nested[n] = 1..l /\ Nested[n] \in Seq(Level \ {Root})
      /\ \A i, j \in 1..l : Nested[n][i] = Nested[n][j] => i = j
  BY NestedFacts
<1>2. p \in Level \ {Root} /\ Owner[p] = n
  <2>1. p \in Level \ {Root} /\ p \in Range(Nested[n])
    BY <1>1 DEF Range
  <2> QED BY <2>1, PlanFacts
<1>3. v.level[p] # "open" /\ v.halt[p] = None
  BY <1>1 DEF Begun
<1>4. \A i \in 1..l : Nested[n][i] \in Level /\ (i > k + 1 => Nested[n][i] # p)
  BY <1>1
<1> HIDE DEF p, l
<1>5. n \notin In(p)
  BY <1>2, OwnerIsOutside, PlanFacts
<1>6. Active(p, v) = {}
  BY <1>2, <1>3, NobodyWorks DEF Begun, Sound
<1>7. /\ Sound(u)
      /\ \A q \in Level \ {p} : u.level[q] \in {v.level[q], "idle"}
      /\ \A q \in Level \ {p} : u.halt[q] = v.halt[q]
      /\ Keeps(v, u)
      /\ \A m \in Node \ In(p) : u.at[m] = v.at[m]
      /\ \A q \in Level \ {p} : Carries(q, v) => Carries(q, u)
  BY <1>2, <1>3, <1>6, ScheduleSound DEF Begun
<1> HIDE DEF u
<1>8. u.at[n] = "nested" /\ Keeps(Walk, u)
  BY <1>5, <1>7, KeepsOn DEF Begun
<1>9. ASSUME NEW i \in 1..l, i > k + 1 PROVE u.level[Nested[n][i]] # "open" /\ u.halt[Nested[n][i]] = None
  <2>1. v.level[Nested[n][i]] # "open" /\ v.halt[Nested[n][i]] = None
    BY <1>1, <1>9 DEF Begun, l
  <2> QED BY <1>4, <1>7, <1>9, <2>1
<1>10. Rising(Walk) => \E q \in Level : (Carries(q, u) /\ (q = Root \/ Owner[q] # n)) \/ Broke(q, u)
  BY <1>2, <1>7 DEF Begun, Keeps
<1> QED BY <1>7, <1>8, <1>9, <1>10 DEF Begun, u, p, l

LEMMA ForkHolds ==
  ASSUME IInv, NEW n \in Node, fork(n)
  PROVE  IInv'
<1> DEFINE l == Len(Nested[n])
<1>1. /\ Sound(Walk) /\ at[n] = "started" /\ at[n] \in Working /\ Walk.at[n] = at[n]
      /\ end' = end /\ fatalMet' = fatalMet
  BY StatesDiffer, WalkIs DEF IInv, fork
<1>2. Counted'
  BY DEF IInv, Counted, fork
<1>3. PICK pick \in Picks : Becomes(IF Nested[n] = <<>> THEN laneEnds(n, "ok", Walk, pick) ELSE forked(n, pick))
  BY DEF fork
<1>a. CASE Nested[n] = <<>>
  <2> DEFINE w == laneEnds(n, "ok", Walk, pick)
  <2>1. Becomes(w)
    BY <1>3, <1>a
  <2>2. Sound(w) /\ Keeps(Walk, w) /\ (Rising(Walk) => Rising(w))
    BY <1>1, SimpleLaneEnds
  <2> HIDE DEF w
  <2> QED BY <1>1, <1>2, <2>1, <2>2, FatalRises, StepHolds
<1>b. ASSUME Nested[n] # <<>> PROVE Becomes((CHOOSE begun : Begins(begun, n, pick))[l])
  BY <1>3, <1>b DEF forked, Begins
<1> SUFFICES ASSUME Nested[n] # <<>> PROVE IInv'
  BY <1>a
<1> DEFINE begun == CHOOSE b : Begins(b, n, pick)
<1>4. Begins(begun, n, pick)
  <2>1. \E b : Begins(b, n, pick)
    BY <1>1, BeginsExists DEF Sound, Coherent
  <2> QED BY <2>1
<1>5. Becomes(begun[l])
  BY <1>b
<1> HIDE DEF begun
<1>6. l \in Nat /\ \A i \in 1..l : Nested[n][i] \in Level \ {Root} /\ Owner[Nested[n][i]] = n
  <2>1. l \in Nat /\ \A i \in 1..l : Nested[n][i] \in Level \ {Root} /\ Nested[n][i] \in Range(Nested[n])
    BY NestedFacts DEF Range
  <2> QED BY <2>1, PlanFacts
<1>7. begun[0] = [Walk EXCEPT !.at[n] = "nested"]
  BY <1>4, <1>6 DEF Begins
<1>8. ASSUME NEW k \in Nat, k < l PROVE begun[k + 1] = schedule(Nested[n][k + 1], begun[k], pick)
  <2>1. k + 1 \in 0..l /\ k + 1 # 0 /\ (k + 1) - 1 = k
    BY <1>6, <1>8
  <2> QED BY <1>4, <2>1 DEF Begins
<1>9. Begun(n, 0, begun[0])
  <2>1. /\ Sound(begun[0]) /\ begun[0].level = Walk.level /\ begun[0].halt = Walk.halt /\ Keeps(Walk, begun[0])
        /\ \A q \in Level : Carries(q, Walk) => Carries(q, begun[0])
    BY <1>1, <1>7, StatesDiffer, WorkSound
  <2>2. begun[0].at[n] = "nested"
    BY <1>1, <1>7 DEF Walk, Sound, Coherent, Walks
  <2>3. \A q \in Level \ {Root} : Owner[q] = n => Walk.level[q] # "open" /\ Walk.halt[q] = None /\ ~Carries(q, Walk)
    BY <1>1, NotNested DEF Sound
  <2>4. \A i \in 1..l : begun[0].level[Nested[n][i]] # "open" /\ begun[0].halt[Nested[n][i]] = None
    BY <1>6, <2>1, <2>3
  <2>5. Rising(Walk) => \E q \in Level : (Carries(q, begun[0]) /\ (q = Root \/ Owner[q] # n)) \/ Broke(q, begun[0])
    BY <2>1, <2>3 DEF Rising, Keeps
  <2> QED BY <2>1, <2>2, <2>4, <2>5 DEF Begun
<1> DEFINE S == {k \in Nat : k <= l => Begun(n, k, begun[k])}
<1>10. Nat \subseteq S
  <2>1. 0 \in S
    BY <1>9
  <2>2. ASSUME NEW k \in Nat, k \in S PROVE k + 1 \in S
    <3> SUFFICES ASSUME k + 1 <= l PROVE Begun(n, k + 1, begun[k + 1])
      OBVIOUS
    <3>1. k < l /\ Begun(n, k, begun[k])
      BY <1>6, <2>2
    <3> QED BY <1>8, <3>1, BranchBegins
  <2> HIDE DEF S
  <2> QED BY <2>1, <2>2, SetInduction
<1>11. Begun(n, l, begun[l])
  BY <1>6, <1>10
<1> DEFINE w == begun[l]
<1>12. Sound(w) /\ Keeps(Walk, w) /\ (Rising(Walk) => Rising(w))
  BY <1>1, <1>11 DEF Begun, Rising
<1>13. Becomes(w)
  BY <1>5
<1> HIDE DEF w
<1> QED BY <1>1, <1>2, <1>12, <1>13, FatalRises, StepHolds

(* Past the run's rounds a loop ends the run, before its first round ...   *)
LEMMA BeginForEachHolds ==
  ASSUME IInv, NEW n \in Node, beginForEach(n)
  PROVE  IInv'
<1>1. /\ Sound(Walk) /\ Kind[n] = "forEach" /\ at[n] = "started" /\ at[n] \in Working /\ Walk.at[n] = at[n]
      /\ end' = end /\ steps' = steps /\ cancelled' = cancelled
  BY StatesDiffer, WalkIs DEF IInv, beginForEach
<1>2. Counted /\ MaxRounds \in Nat /\ MaxItems \in Nat
  BY BoundAssumption DEF IInv
<1>3. PICK items \in 0..MaxItems, pick \in Picks :
       \/ items > MaxRounds - rounds /\ LimitReached(n, Walk, pick)
       \/ /\ items <= MaxRounds - rounds
          /\ rounds' = rounds + items
          /\ UNCHANGED fatalMet
          /\ IF items = 0 THEN Becomes(laneEnds(n, "ok", Walk, pick)) /\ UNCHANGED left
             ELSE /\ Becomes(schedule(Nested[n][1], [Walk EXCEPT !.at[n] = "nested"], pick))
                  /\ left' = [left EXCEPT ![n] = items - 1]
       \/ Becomes(laneEnds(n, "error", Walk, pick)) /\ UNCHANGED <<left, rounds, fatalMet>>
  BY DEF beginForEach
<1>4. ASSUME NEW o \in {"ok"} \cup Thrown
      PROVE  LET w == laneEnds(n, o, Walk, pick)
             IN  Sound(w) /\ Keeps(Walk, w) /\ (o \in Fatal \/ Rising(Walk) => Rising(w))
  BY <1>1, SimpleLaneEnds
<1>5. "ok" \in {"ok"} \cup Thrown /\ "error" \in {"ok"} \cup Thrown /\ "fatal" \in {"ok"} \cup Thrown /\ "fatal" \in Fatal
  BY DEF Thrown, Fatal
<1>6. CASE LimitReached(n, Walk, pick)
  <2> DEFINE w == laneEnds(n, "fatal", Walk, pick)
  <2>1. Sound(w) /\ Keeps(Walk, w) /\ Rising(w)
    BY <1>4, <1>5
  <2>2. Becomes(w) /\ Counted'
    BY <1>1, <1>2, <1>6 DEF LimitReached, Counted
  <2> HIDE DEF w
  <2> QED BY <1>1, <2>1, <2>2, StepHolds
<1>7. CASE /\ items <= MaxRounds - rounds /\ rounds' = rounds + items /\ fatalMet' = fatalMet
           /\ items = 0 /\ Becomes(laneEnds(n, "ok", Walk, pick)) /\ left' = left
  <2> DEFINE w == laneEnds(n, "ok", Walk, pick)
  <2>1. Sound(w) /\ Keeps(Walk, w) /\ (Rising(Walk) => Rising(w))
    BY <1>4, <1>5
  <2>2. Becomes(w) /\ Counted'
    BY <1>1, <1>2, <1>7 DEF Counted
  <2> HIDE DEF w
  <2> QED BY <1>1, <1>7, <2>1, <2>2, FatalRises, StepHolds
<1>8. CASE /\ items <= MaxRounds - rounds /\ rounds' = rounds + items /\ fatalMet' = fatalMet
           /\ items # 0 /\ Becomes(schedule(Nested[n][1], [Walk EXCEPT !.at[n] = "nested"], pick))
           /\ left' = [left EXCEPT ![n] = items - 1]
  <2> DEFINE p == Nested[n][1]
             w == schedule(p, [Walk EXCEPT !.at[n] = "nested"], pick)
  <2>1. p \in Level \ {Root} /\ Owner[p] = n
    BY <1>1, BodyIsLevel
  <2>2. Becomes(w)
    BY <1>8
  <2>3. Counted'
    <3>1. rounds' \in 0..MaxRounds
      BY <1>2, <1>8 DEF Counted
    <3>2. items - 1 \in 0..MaxItems
      BY <1>2, <1>8
    <3>3. left' \in [Node -> 0..MaxItems]
      BY <1>2, <1>8, <3>2 DEF Counted
    <3> QED BY <1>1, <1>2, <1>8, <3>1, <3>3 DEF Counted
  <2> HIDE DEF p
  <2>4. Sound(w) /\ Keeps(Walk, w) /\ (Rising(Walk) => Rising(w))
    BY <1>1, <2>1, OpensLevel
  <2> HIDE DEF w
  <2> QED BY <1>1, <1>8, <2>2, <2>3, <2>4, FatalRises, StepHolds
<1>9. CASE Becomes(laneEnds(n, "error", Walk, pick)) /\ UNCHANGED <<left, rounds, fatalMet>>
  <2> DEFINE w == laneEnds(n, "error", Walk, pick)
  <2>1. Sound(w) /\ Keeps(Walk, w) /\ (Rising(Walk) => Rising(w))
    BY <1>4, <1>5
  <2>2. Becomes(w) /\ Counted'
    BY <1>1, <1>2, <1>9 DEF Counted
  <2> HIDE DEF w
  <2> QED BY <1>1, <1>9, <2>1, <2>2, FatalRises, StepHolds
<1> QED BY <1>3, <1>6, <1>7, <1>8, <1>9

LEMMA BeginWhileHolds ==
  ASSUME IInv, NEW n \in Node, beginWhile(n)
  PROVE  IInv'
<1>1. /\ Sound(Walk) /\ Kind[n] = "while" /\ at[n] = "started" /\ at[n] \in Working /\ Walk.at[n] = at[n]
      /\ end' = end /\ steps' = steps /\ cancelled' = cancelled
  BY StatesDiffer, WalkIs DEF IInv, beginWhile
<1>2. Counted /\ MaxRounds \in Nat /\ MaxItems \in Nat \ {0}
  BY BoundAssumption DEF IInv
<1>3. PICK pick \in Picks : whileRound(n, MaxItems, Walk, pick)
  BY DEF beginWhile
<1>4. CASE rounds >= MaxRounds
  <2> DEFINE w == laneEnds(n, "fatal", Walk, pick)
  <2>1. LimitReached(n, Walk, pick)
    BY <1>3, <1>4 DEF whileRound
  <2>2. "fatal" \in {"ok"} \cup Thrown /\ "fatal" \in Fatal
    BY DEF Thrown, Fatal
  <2>3. Sound(w) /\ Keeps(Walk, w) /\ Rising(w)
    BY <1>1, <2>2, SimpleLaneEnds
  <2>4. Becomes(w) /\ Counted'
    BY <1>1, <1>2, <2>1 DEF LimitReached, Counted
  <2> HIDE DEF w
  <2> QED BY <1>1, <2>3, <2>4, StepHolds
<1>5. CASE ~(rounds >= MaxRounds)
  <2> DEFINE p == Nested[n][1]
             w == schedule(p, [Walk EXCEPT !.at[n] = "nested"], pick)
  <2>1. rounds' = rounds + 1 /\ fatalMet' = fatalMet /\ left' = [left EXCEPT ![n] = MaxItems - 1] /\ Becomes(w)
    BY <1>3, <1>5 DEF whileRound
  <2>2. p \in Level \ {Root} /\ Owner[p] = n
    BY <1>1, BodyIsLevel
  <2>3. Counted'
    <3>1. rounds' \in 0..MaxRounds
      BY <1>2, <1>5, <2>1 DEF Counted
    <3>2. MaxItems - 1 \in 0..MaxItems
      BY <1>2
    <3>3. left' \in [Node -> 0..MaxItems]
      BY <1>2, <2>1, <3>2 DEF Counted
    <3> QED BY <1>1, <1>2, <2>1, <3>1, <3>3 DEF Counted
  <2> HIDE DEF p
  <2>4. Sound(w) /\ Keeps(Walk, w) /\ (Rising(Walk) => Rising(w))
    BY <1>1, <2>2, OpensLevel
  <2> HIDE DEF w
  <2> QED BY <1>1, <2>1, <2>3, <2>4, FatalRises, StepHolds
<1> QED BY <1>4, <1>5

LEMMA RunEndsHolds ==
  ASSUME IInv, runEnds
  PROVE  IInv'
<1> DEFINE w == [Walk EXCEPT !.level[Root] = "over"]
<1>1. /\ Sound(Walk) /\ Root \in Level /\ Walk.level[Root] = "open" /\ (Active(Root, Walk) = {} \/ Broke(Root, Walk))
      /\ Becomes(w) /\ end' = Outcome(Root) /\ UNCHANGED <<left, steps, rounds, cancelled, fatalMet>>
  BY PlanAssumption, WalkIs DEF IInv, runEnds, Over, Closed
<1>2. /\ Sound(w) /\ \A q \in Level : Broke(q, Walk) => Broke(q, w)
      /\ \A q \in Level \ {Root} : Carries(q, Walk) => Carries(q, w)
      /\ Walk.halt[Root] \in Fatal => Carries(Root, w)
  BY <1>1, CloseSound
<1>3. w.level[Root] = "over" /\ w.halt = halt
  BY <1>1 DEF Walk, Sound, Coherent, Walks
<1> HIDE DEF w
<1>4. Walk' = w
  BY <1>1, <1>2, BecomesIs DEF Sound, Coherent
<1>5. Sound(Walk)'
  BY <1>2, <1>4
<1>6. Ended'
  <2>1. level'[Root] = "over" /\ halt' = halt
    BY <1>1, <1>3 DEF Becomes
  <2> QED BY <1>1, <2>1 DEF Ended, Outcome
<1>7. Counted'
  BY <1>1 DEF IInv, Counted
<1>8. (fatalMet => Rising(Walk))'
  <2>1. Rising(Walk) => Rising(w)
    BY <1>1, <1>2 DEF Rising, Carries
  <2> QED BY <1>1, <1>4, <2>1, FatalRises
<1> QED BY <1>5, <1>6, <1>7, <1>8 DEF IInv

LEMMA ErrorLaneEndsHolds ==
  ASSUME IInv, NEW n \in Node, errorLaneEnds(n)
  PROVE  IInv'
<1> DEFINE p == Nested[n][1]
           o == laneOutcome(Outcome(p))
<1>1. /\ Sound(Walk) /\ Kind[n] = "leaf" /\ at[n] = "nested" /\ at[n] \in Working /\ Walk.at[n] = at[n]
      /\ end' = end /\ fatalMet' = fatalMet
      /\ HasErrorLane(n) /\ Over(p)
  BY StatesDiffer, WalkIs DEF IInv, errorLaneEnds, HasErrorLane
<1>2. Counted'
  BY DEF IInv, Counted, errorLaneEnds
<1>3. PICK pick \in Picks : Becomes(laneEnds(n, o, [Walk EXCEPT !.level[p] = "over"], pick))
  BY DEF errorLaneEnds, Closed
<1>4. p \in Level \ {Root} /\ Owner[p] = n
  BY <1>1, BodyIsLevel
<1>5. Walk.level[p] = "open" /\ (Active(p, Walk) = {} \/ Broke(p, Walk))
  BY <1>1, WalkIs DEF Over
<1>6. o \in Thrown /\ o # "ok" /\ (Walk.halt[p] \in Fatal => o \in Fatal)
  <2>1. halt[p] \in {None} \cup Thrown
    BY <1>1, <1>4, WalkIs DEF Sound, Coherent, Walks
  <2>2. None \notin Fatal /\ "ok" \notin Thrown /\ "halt" \in Thrown
    BY NoneAssumption, StatesDiffer DEF Thrown, Fatal
  <2> QED BY <2>1, <2>2, WalkIs DEF laneOutcome, Outcome
<1> DEFINE w == laneEnds(n, o, [Walk EXCEPT !.level[p] = "over"], pick)
<1>7. Becomes(w)
  BY <1>3
<1> HIDE DEF o, p
<1>8. Sound(w) /\ Keeps(Walk, w) /\ (Rising(Walk) => Rising(w))
  BY <1>1, <1>4, <1>5, <1>6, ClosesAndEnds
<1> HIDE DEF w
<1> QED BY <1>1, <1>2, <1>7, <1>8, FatalRises, StepHolds

(* What failed branches throw: one of their outcomes, a fatal one if there *)
(* is any.                                                                 *)
LEMMA BranchesOutcomeIs ==
  ASSUME NEW n \in Node, halt \in [Level -> {None} \cup Thrown]
  PROVE  /\ branchesOutcome(n) \in {"ok"} \cup Thrown
         /\ \A p \in Range(Nested[n]) : halt[p] \in Fatal => branchesOutcome(n) \in Fatal
         /\ branchesOutcome(n) = "ok" => \A p \in Range(Nested[n]) : halt[p] = None
<1> DEFINE outcomes == [i \in DOMAIN Nested[n] |-> Outcome(Nested[n][i])]
           failed == {i \in DOMAIN outcomes : outcomes[i] # "ok"}
           fatal == {i \in failed : outcomes[i] \in Fatal}
           chosen == IF fatal # {} THEN fatal ELSE failed
<1>1. /\ DOMAIN Nested[n] \subseteq Nat
      /\ \A i \in DOMAIN Nested[n] : Nested[n][i] \in Level
      /\ \A p \in Range(Nested[n]) : \E i \in DOMAIN Nested[n] : p = Nested[n][i]
  BY NestedFacts DEF Range
<1>2. \A i \in DOMAIN Nested[n] : outcomes[i] \in {"ok"} \cup Thrown /\ outcomes[i] = Outcome(Nested[n][i])
  BY <1>1 DEF Outcome
<1>3. branchesOutcome(n) = IF failed = {} THEN "ok" ELSE outcomes[Min(chosen)]
  BY DEF branchesOutcome
<1>4. "ok" \notin Fatal /\ None \notin Fatal
  BY NoneAssumption DEF Fatal, Thrown
<1>5. failed \in SUBSET DOMAIN Nested[n] /\ fatal \in SUBSET failed
  OBVIOUS
<1>6. \A i \in fatal : outcomes[i] \in Fatal
  OBVIOUS
<1>7. ASSUME NEW p \in Range(Nested[n]), halt[p] \in Fatal PROVE fatal # {}
  <2>1. PICK i \in DOMAIN Nested[n] : p = Nested[n][i]
    BY <1>1
  <2>2. outcomes[i] = halt[p]
    BY <1>2, <1>4, <1>7, <2>1 DEF Outcome
  <2> QED BY <1>4, <1>7, <2>1, <2>2
<1>12. ASSUME NEW p \in Range(Nested[n]), halt[p] # None PROVE failed # {}
  <2>1. PICK i \in DOMAIN Nested[n] : p = Nested[n][i]
    BY <1>1
  <2>2. outcomes[i] = halt[p] /\ halt[p] \in Thrown
    BY <1>1, <1>2, <1>12, <2>1 DEF Outcome
  <2>3. "ok" \notin Thrown
    BY DEF Fatal, Thrown
  <2> QED BY <2>1, <2>2, <2>3
<1>13. \A i \in failed : outcomes[i] # "ok"
  OBVIOUS
<1> HIDE DEF outcomes, failed, fatal
<1>8. ASSUME failed # {} PROVE Min(chosen) \in chosen
  <2>1. chosen \in SUBSET Nat /\ chosen # {}
    BY <1>1, <1>5, <1>8
  <2> HIDE DEF chosen
  <2>2. \E x \in chosen : \A y \in chosen : x <= y
    BY <2>1, LeastNat
  <2> QED BY <2>2 DEF Min
<1>9. failed # {} => Min(chosen) \in DOMAIN Nested[n] /\ (fatal # {} => outcomes[Min(chosen)] \in Fatal)
  BY <1>5, <1>6, <1>8
<1>14. failed # {} => Min(chosen) \in failed
  BY <1>5, <1>8
<1> HIDE DEF chosen
<1>10. branchesOutcome(n) \in {"ok"} \cup Thrown
  BY <1>2, <1>3, <1>9
<1>11. fatal # {} => branchesOutcome(n) \in Fatal
  BY <1>3, <1>5, <1>9
<1>15. branchesOutcome(n) = "ok" => failed = {}
  BY <1>3, <1>13, <1>14
<1> QED BY <1>7, <1>10, <1>11, <1>12, <1>15

LEMMA BranchEndsHolds ==
  ASSUME IInv, NEW n \in Node, NEW p \in Level, branchEnds(n, p)
  PROVE  IInv'
<1> DEFINE v == [Walk EXCEPT !.level[p] = "over"]
<1>1. /\ Sound(Walk) /\ Kind[n] = "parallel" /\ at[n] = "nested" /\ at[n] \in Working /\ Walk.at[n] = at[n]
      /\ end' = end /\ fatalMet' = fatalMet
      /\ p \in Range(Nested[n]) /\ Over(p)
  BY StatesDiffer, WalkIs DEF IInv, branchEnds
<1>2. Counted'
  BY DEF IInv, Counted, branchEnds
<1>3. p \in Level \ {Root} /\ Owner[p] = n /\ Walk.level[p] = "open"
      /\ (Active(p, Walk) = {} \/ Broke(p, Walk))
  BY <1>1, PlanFacts, WalkIs DEF Over
<1>4. v.at = at /\ v.level[p] = "over" /\ \A q \in Level \ {p} : v.level[q] = level[q]
  BY <1>1 DEF Walk, Sound, Coherent, Walks
<1>5. /\ Sound(v) /\ v.halt = halt /\ Keeps(Walk, v)
      /\ \A q \in Level \ {p} : Carries(q, Walk) => Carries(q, v)
      /\ Walk.halt[p] \in Fatal => Carries(p, v)
  BY <1>1, <1>3, CloseSound, WalkIs
<1>7. CASE allOver(n, p)
  <2> DEFINE o == branchesOutcome(n)
  <2>1. PICK pick \in Picks : Becomes(laneEnds(n, o, v, pick))
    BY <1>7 DEF branchEnds, Closed
  <2>2. /\ o \in {"ok"} \cup Thrown
        /\ \A q \in Range(Nested[n]) : (halt[q] \in Fatal => o \in Fatal) /\ (o = "ok" => halt[q] = None)
    BY <1>1, WalkIs, BranchesOutcomeIs DEF Sound, Coherent, Walks
  <2> DEFINE w == laneEnds(n, o, v, pick)
  <2>3. Becomes(w)
    BY <2>1
  <2> HIDE DEF o, v
  <2>4. ASSUME NEW q \in Level \ {Root}, Owner[q] = n PROVE v.level[q] # "open" /\ (o = "ok" => v.halt[q] = None)
    <3>1. q \in Range(Nested[n])
      BY <2>4, PlanFacts
    <3> QED BY <1>4, <1>5, <1>7, <2>2, <3>1 DEF allOver
  <2>5. ~HasErrorLane(n) /\ v.at[n] \in Working
    BY <1>1, <1>4 DEF HasErrorLane
  <2>6. /\ Sound(w) /\ Keeps(v, w)
        /\ o \in Fatal => Carries(LevelOf[n], w) \/ Broke(LevelOf[n], w)
        /\ \A q \in Level : Carries(q, v) /\ (q = Root \/ Owner[q] # n) => Carries(q, w)
    BY <1>5, <2>2, <2>4, <2>5, LaneEndsSound
  <2> HIDE DEF w
  <2>8. Keeps(Walk, w)
    BY <1>5, <2>6, KeepsOn
  <2>7. ASSUME Rising(Walk) PROVE Rising(w)
    <3> SUFFICES ASSUME NEW q \in Level, Carries(q, Walk) PROVE Rising(w)
      BY <2>7, <2>8 DEF Rising, Keeps
    <3>1. Carries(q, Walk)
      OBVIOUS
    <3>2. CASE q = Root \/ Owner[q] # n
      BY <1>3, <1>5, <2>6, <3>1, <3>2 DEF Rising
    <3>3. CASE q # Root /\ Owner[q] = n
      <4>1. q \in Range(Nested[n]) /\ halt[q] \in Fatal
        BY <3>1, <3>3, PlanFacts, WalkIs DEF Carries
      <4> QED BY <2>2, <2>6, <4>1, PlanFacts DEF Rising
    <3> QED BY <3>2, <3>3
  <2> QED BY <1>1, <1>2, <2>3, <2>6, <2>7, <2>8, FatalRises, StepHolds
<1>8. CASE ~allOver(n, p)
  <2>1. Becomes(v)
    BY <1>8 DEF branchEnds, Closed
  <2>2. Rising(Walk) => Rising(v)
    BY <1>5 DEF Rising, Carries, Keeps
  <2> HIDE DEF v
  <2> QED BY <1>1, <1>2, <1>5, <2>1, <2>2, FatalRises, StepHolds
<1> QED BY <1>7, <1>8

(* ... and before any other.                                               *)
LEMMA LoopRoundEndsHolds ==
  ASSUME IInv, NEW n \in Node, loopRoundEnds(n)
  PROVE  IInv'
<1> DEFINE p == Nested[n][1]
           v == [Walk EXCEPT !.level[p] = "over"]
<1>1. /\ Sound(Walk) /\ Kind[n] \in {"forEach", "while"} /\ at[n] = "nested" /\ at[n] \in Working
      /\ Walk.at[n] = at[n]
      /\ end' = end /\ steps' = steps /\ cancelled' = cancelled /\ Over(p)
  BY StatesDiffer, WalkIs DEF IInv, loopRoundEnds
<1>2. Counted /\ MaxRounds \in Nat /\ MaxItems \in Nat
  BY BoundAssumption DEF IInv
<1>3. p \in Level \ {Root} /\ Owner[p] = n
  BY <1>1, BodyIsLevel
<1>4. PICK pick \in Picks :
        \/ /\ halt[p] # None \/ left[n] = 0 \/ Kind[n] = "while"
           /\ Becomes(laneEnds(n, Outcome(p), v, pick))
           /\ UNCHANGED <<left, rounds, fatalMet>>
        \/ /\ halt[p] = None
           /\ Becomes(laneEnds(n, "error", v, pick))
           /\ UNCHANGED <<left, rounds, fatalMet>>
        \/ /\ halt[p] = None /\ left[n] > 0
           /\ IF Kind[n] = "while" THEN whileRound(n, left[n], v, pick)
              ELSE /\ left' = [left EXCEPT ![n] = @ - 1]
                   /\ Becomes(schedule(p, Walk, pick))
                   /\ UNCHANGED <<rounds, fatalMet>>
  BY DEF loopRoundEnds, Closed
<1>5. Walk.level[p] = "open" /\ (Active(p, Walk) = {} \/ Broke(p, Walk))
  BY <1>1, WalkIs DEF Over
<1>6. halt[p] \in {None} \cup Thrown /\ None \notin Fatal /\ "ok" \notin Thrown
  BY <1>1, <1>3, WalkIs, NoneAssumption, StatesDiffer DEF Sound, Coherent, Walks, Thrown, Fatal
<1>a. halt[p] = None => Active(p, Walk) = {}
  BY <1>1, <1>3, <1>5, BrokeThrows, WalkIs DEF Sound, Coherent
<1>7. ASSUME halt[p] = None, left[n] > 0
      PROVE  [left EXCEPT ![n] = left[n] - 1] \in [Node -> 0..MaxItems]
  <2>1. left[n] \in 0..MaxItems
    BY <1>2 DEF Counted
  <2>2. left[n] - 1 \in 0..MaxItems
    BY <1>2, <1>7, <2>1
  <2> QED BY <1>2, <2>2 DEF Counted
<1>8. CASE Becomes(laneEnds(n, Outcome(p), v, pick)) /\ UNCHANGED <<left, rounds, fatalMet>>
  <2> DEFINE o == Outcome(p)
             w == laneEnds(n, o, v, pick)
  <2>1. o \in {"ok"} \cup Thrown /\ (Walk.halt[p] \in Fatal => o \in Fatal) /\ (o = "ok" => Walk.halt[p] = None)
    BY <1>6, WalkIs DEF Outcome
  <2>2. Becomes(w) /\ Counted'
    BY <1>1, <1>2, <1>8 DEF Counted
  <2> HIDE DEF o, p
  <2>3. Sound(w) /\ Keeps(Walk, w) /\ (Rising(Walk) => Rising(w))
    BY <1>1, <1>3, <1>5, <2>1, ClosesAndEnds
  <2> HIDE DEF w
  <2> QED BY <1>1, <1>8, <2>2, <2>3, FatalRises, StepHolds
<1>b. CASE halt[p] = None /\ Becomes(laneEnds(n, "error", v, pick)) /\ UNCHANGED <<left, rounds, fatalMet>>
  <2> DEFINE w == laneEnds(n, "error", v, pick)
  <2>1. "error" \in {"ok"} \cup Thrown /\ "error" # "ok"
    BY DEF Thrown
  <2>2. Becomes(w) /\ Counted'
    BY <1>1, <1>2, <1>b DEF Counted
  <2>3. Walk.halt[p] \notin Fatal
    BY <1>6, <1>b, WalkIs
  <2> HIDE DEF p
  <2>4. Sound(w) /\ Keeps(Walk, w) /\ (Rising(Walk) => Rising(w))
    BY <1>1, <1>3, <1>5, <2>1, <2>3, ClosesAndEnds
  <2> HIDE DEF w
  <2> QED BY <1>1, <1>b, <2>2, <2>4, FatalRises, StepHolds
<1>9. CASE halt[p] = None /\ left[n] > 0 /\ Kind[n] = "while" /\ whileRound(n, left[n], v, pick)
  <2>1. CASE rounds >= MaxRounds
    <3> DEFINE w == laneEnds(n, "fatal", v, pick)
    <3>1. LimitReached(n, v, pick)
      BY <1>9, <2>1 DEF whileRound
    <3>2. "fatal" \in {"ok"} \cup Thrown /\ "fatal" \in Fatal
      BY DEF Thrown, Fatal
    <3>3. Becomes(w) /\ Counted'
      BY <1>1, <1>2, <3>1 DEF LimitReached, Counted
    <3> HIDE DEF p
    <3>4. Sound(w) /\ Keeps(Walk, w) /\ Rising(w)
      <4>1. "fatal" # "ok"
        OBVIOUS
      <4> QED BY <1>1, <1>3, <1>5, <3>2, <4>1, ClosesAndEnds
    <3> HIDE DEF w
    <3> QED BY <1>1, <3>3, <3>4, StepHolds
  <2>2. CASE ~(rounds >= MaxRounds)
    <3> DEFINE u == [v EXCEPT !.at[n] = "nested"]
               w == schedule(p, u, pick)
    <3>1. rounds' = rounds + 1 /\ fatalMet' = fatalMet /\ left' = [left EXCEPT ![n] = left[n] - 1] /\ Becomes(w)
      BY <1>9, <2>2 DEF whileRound
    <3>2. Counted'
      <4>1. rounds' \in 0..MaxRounds
        BY <1>2, <2>2, <3>1 DEF Counted
      <4>2. left' \in [Node -> 0..MaxItems]
        BY <1>7, <1>9, <3>1
      <4> QED BY <1>1, <1>2, <3>1, <4>1, <4>2 DEF Counted
    <3> HIDE DEF p
    <3>3. /\ Sound(v) /\ v.at = at /\ v.level[p] = "over" /\ v.halt = halt /\ Keeps(Walk, v)
          /\ \A q \in Level \ {p} : Carries(q, Walk) => Carries(q, v)
      BY <1>1, <1>3, <1>5, CloseSound, WalkIs
    <3>4. Rising(Walk) => Rising(v)
      BY <1>6, <1>9, <3>3, WalkIs DEF Rising, Carries, Keeps
    <3> HIDE DEF v
    <3>5. /\ Sound(u) /\ u.level = v.level /\ u.halt = halt /\ Keeps(v, u)
          /\ \A q \in Level : Carries(q, v) => Carries(q, u)
      BY <1>1, <3>3, WorkSound, StatesDiffer
    <3>6. u.at[n] = "nested"
      BY <3>3 DEF Sound, Coherent, Walks
    <3> HIDE DEF u
    <3>7. Active(p, u) = {}
      BY <1>3, <1>9, <3>3, <3>5, NobodyWorks DEF Sound
    <3>8. Sound(w) /\ Keeps(u, w) /\ (Rising(u) => Rising(w))
      BY <1>3, <1>9, <3>5, <3>6, <3>7, NextRound
    <3> HIDE DEF w
    <3>9. Keeps(Walk, w)
      BY <3>3, <3>5, <3>8, KeepsOn
    <3>10. Rising(Walk) => Rising(w)
      BY <3>4, <3>5, <3>8 DEF Rising, Keeps
    <3> QED BY <1>1, <3>1, <3>2, <3>8, <3>9, <3>10, FatalRises, StepHolds
  <2> QED BY <2>1, <2>2
<1>10. CASE /\ halt[p] = None /\ left[n] > 0
            /\ left' = [left EXCEPT ![n] = left[n] - 1]
            /\ Becomes(schedule(p, Walk, pick)) /\ UNCHANGED <<rounds, fatalMet>>
  <2> DEFINE w == schedule(p, Walk, pick)
  <2>1. Becomes(w) /\ Counted'
    BY <1>1, <1>2, <1>7, <1>10 DEF Counted
  <2> HIDE DEF p
  <2>2. Sound(w) /\ Keeps(Walk, w) /\ (Rising(Walk) => Rising(w))
    BY <1>1, <1>3, <1>a, <1>10, WalkIs, NextRound
  <2> HIDE DEF w
  <2> QED BY <1>1, <1>10, <2>1, <2>2, FatalRises, StepHolds
<1> QED BY <1>4, <1>8, <1>9, <1>10, <1>b

LEMMA CancelHolds ==
  ASSUME IInv, cancel
  PROVE  IInv'
<1>1. Walk' = Walk
  BY DEF Walk, cancel
<1>2. /\ cancelled' = TRUE
      /\ UNCHANGED <<at, port, level, halt, left, steps, rounds, fatalMet, end>>
  BY DEF cancel
<1>3. Sound(Walk)' /\ (fatalMet => Rising(Walk))'
  BY <1>1, <1>2 DEF IInv
<1>4. Counted' /\ Ended'
  BY <1>2 DEF IInv, Counted, Ended, Outcome
<1> QED BY <1>3, <1>4 DEF IInv

LEMMA StutterHolds ==
  ASSUME IInv, UNCHANGED vars
  PROVE  IInv'
<1>1. Walk' = Walk /\ UNCHANGED <<at, port, level, halt, left, steps, rounds, cancelled, fatalMet, end>>
  BY DEF Walk, vars
<1>2. Sound(Walk)' /\ (fatalMet => Rising(Walk))'
  BY <1>1 DEF IInv
<1>3. Counted' /\ Ended'
  BY <1>1 DEF IInv, Counted, Ended, Outcome
<1> QED BY <1>2, <1>3 DEF IInv

LEMMA NextHolds == IInv /\ [Next]_vars => IInv'
<1> SUFFICES ASSUME IInv, [Next]_vars PROVE IInv'
  OBVIOUS
<1>1. CASE UNCHANGED vars
  BY <1>1, StutterHolds
<1>2. CASE Next
  <2>1. ASSUME NEW n \in Node, Begin(n) PROVE IInv'
    BY <2>1, ChargeHolds, ForkHolds, BeginForEachHolds, BeginWhileHolds DEF Begin
  <2>2. ASSUME NEW n \in Node, Return(n) PROVE IInv'
    BY <2>2, LeafReturnsHolds, LeafThrowsHolds DEF Return
  <2>3. ASSUME NEW n \in Node, Close(n) PROVE IInv'
    BY <2>3, ErrorLaneEndsHolds, LoopRoundEndsHolds, BranchEndsHolds DEF Close
  <2> QED BY <1>2, <2>1, <2>2, <2>3, RunEndsHolds, CancelHolds DEF Next
<1> QED BY <1>1, <1>2

-----------------------------------------------------------------------------
(* Nobody waits for nothing.                                               *)

(* A node that waits does so for a level of its own that is open, and has  *)
(* begun all its levels; only a leaf works, and a router never starts.     *)
Attended(n, w) ==
  w.at[n] = "nested" =>
    /\ \A q \in Level \ {Root} : Owner[q] = n => w.level[q] # "idle"
    /\ \E q \in Level \ {Root} : Owner[q] = n /\ w.level[q] = "open"

Fit(n, w) ==
  /\ w.at[n] = "started" => Kind[n] # "router"
  /\ w.at[n] = "working" => Kind[n] = "leaf"

Goes(w) == \A n \in Node : Attended(n, w) /\ Fit(n, w)

\* The walks agree on what a node outside level p waits for.
SameFor(m, w, u) ==
  /\ u.at[m] = w.at[m]
  /\ \A q \in Level \ {Root} : Owner[q] = m => u.level[q] = w.level[q]

LEMMA SameGoes ==
  ASSUME NEW m \in Node, NEW w, NEW u, SameFor(m, w, u)
  PROVE  /\ Attended(m, w) => Attended(m, u)
         /\ Fit(m, w) => Fit(m, u)
<1>1. Attended(m, w) => Attended(m, u)
  BY DEF SameFor, Attended
<1>2. Fit(m, w) => Fit(m, u)
  BY DEF SameFor, Fit
<1> QED BY <1>1, <1>2

\* What the pump makes of a node.
Launched(n, w) == w.at[n] \in {"skipped", "ran", "started", "error"} /\ Fit(n, w)

(* The pump starts no router, and nobody who would wait.                   *)
LEMMA PumpGoes ==
  ASSUME NEW p \in Level, NEW w \in Walks, NEW pick \in Picks
  PROVE  LET u == pump(p, w, pick)
         IN  /\ u \in Walks /\ u.level = w.level
             /\ \A m \in Node \ In(p) : u.at[m] = w.at[m]
             /\ \A m \in In(p) : \/ u.at[m] = w.at[m]
                                 \/ Launched(m, u)
<1> DEFINE Inv(u) ==
             /\ u \in Walks /\ u.level = w.level
             /\ \A m \in Node \ In(p) : u.at[m] = w.at[m]
             /\ \A m \in In(p) : \/ u.at[m] = w.at[m]
                                 \/ Launched(m, u)
           T == {t \in Nat \X Walks : Inv(t[2])}
<1>1. Inv(w)
  OBVIOUS
<1>2. ASSUME NEW v \in Walks, Inv(v) PROVE Inv(pumpOnce(p, v, pick))
  <2> DEFINE u == pumpOnce(p, v, pick)
  <2>1. CASE u = v
    BY <1>2, <2>1
  <2>2. ASSUME NEW n \in In(p), Launches(n, v, u) PROVE Inv(u)
    <3> HIDE DEF u
    <3>1. u \in Walks /\ u.level = v.level /\ \A m \in Node \ {n} : u.at[m] = v.at[m]
      BY <2>2 DEF Launches
    <3>2. u.at[n] \in {"skipped", "ran", "started", "error"} /\ (u.at[n] = "started" => Kind[n] # "router")
      BY <2>2 DEF Launches
    <3>3. Launched(n, u)
      BY <3>2 DEF Fit, Launched
    <3>4. ASSUME NEW m \in In(p), m # n, Launched(m, v)
          PROVE  Launched(m, u)
      <4>1. u.at[m] = v.at[m]
        BY <3>1, <3>4, PlanFacts
      <4> QED BY <3>4, <4>1 DEF Fit, Launched
    <3>5. \A m \in In(p) : u.at[m] = w.at[m] \/ Launched(m, u)
      <4>1. \A m \in In(p) : m # n => u.at[m] = v.at[m]
        BY <3>1, PlanFacts
      <4> QED BY <1>2, <3>3, <3>4, <4>1
    <3>6. \A m \in Node \ In(p) : u.at[m] = w.at[m]
      BY <1>2, <3>1
    <3> QED BY <1>2, <3>1, <3>5, <3>6
  <2> HIDE DEF u, Inv
  <2> QED BY <2>1, <2>2, PumpOnceIs DEF u
<1> HIDE DEF Inv
<1>3. <<0, w>> \in T
  BY <1>1
<1>4. \A k \in Nat : \A v \in Walks : <<k, v>> \in T => <<k + 1, pumpOnce(p, v, pick)>> \in T
  <2> SUFFICES ASSUME NEW k \in Nat, NEW v \in Walks, <<k, v>> \in T PROVE <<k + 1, pumpOnce(p, v, pick)>> \in T
    OBVIOUS
  <2>1. Inv(v)
    OBVIOUS
  <2>2. pumpOnce(p, v, pick) \in Walks
    BY PumpOnceType
  <2> QED BY <1>2, <2>1, <2>2
<1> HIDE DEF T
<1>5. <<Len(NodesOf[p]), pump(p, w, pick)>> \in T
  BY <1>3, <1>4, PumpInduction
<1>6. Inv(pump(p, w, pick))
  BY <1>5 DEF T
<1> QED BY <1>6 DEF Inv

(* A lane ends: its node waits no more, and no other begins to.            *)
LEMMA LaneGoes ==
  ASSUME NEW w \in Walks, NEW n \in Node, NEW o \in {"ok"} \cup Thrown, NEW pick \in Picks,
         \A m \in Node \ {n} : Attended(m, w) /\ Fit(m, w)
  PROVE  Goes(laneEnds(n, o, w, pick))
<1> DEFINE v == Taken(n, o, w)
           p == LevelOf[n]
           u == laneEnds(n, o, w, pick)
<1>1. /\ v \in Walks /\ v.level = w.level
      /\ v.at[n] = (IF o = "ok" THEN "ran" ELSE o)
      /\ \A m \in Node \ {n} : v.at[m] = w.at[m]
  BY TakenIs
<1>2. (u = pump(p, v, pick) \/ u = v) /\ p \in Level
  BY PlanFacts DEF laneEnds, Taken
<1> HIDE DEF v, p
<1>3. v.at[n] \notin {"nested", "started", "working"}
  BY <1>1, StatesDiffer DEF Thrown, Fatal
<1>4. ASSUME NEW m \in Node PROVE Attended(m, v) /\ Fit(m, v)
  <2>1. CASE m = n
    BY <1>3, <2>1 DEF Attended, Fit
  <2>2. CASE m # n
    <3>1. SameFor(m, w, v)
      BY <1>1, <2>2 DEF SameFor
    <3> QED BY <2>2, <3>1, SameGoes
  <2> QED BY <2>1, <2>2
<1>5. /\ u.level = v.level
      /\ \A m \in Node \ In(p) : u.at[m] = v.at[m]
      /\ \A m \in In(p) : \/ u.at[m] = v.at[m]
                          \/ Launched(m, u)
  BY <1>1, <1>2, PumpGoes
<1> HIDE DEF u
<1>6. ASSUME NEW m \in Node PROVE Attended(m, u) /\ Fit(m, u)
  <2>1. CASE u.at[m] = v.at[m]
    <3>1. SameFor(m, v, u)
      BY <1>5, <2>1 DEF SameFor
    <3> QED BY <1>4, <3>1, SameGoes
  <2>2. CASE Launched(m, u)
    BY <2>2 DEF Attended, Launched
  <2> QED BY <1>5, <2>1, <2>2
<1> QED BY <1>6 DEF Goes, u

(* A level begins: what was in it is forgotten, and only its owner has     *)
(* something to wait for that it had not.                                  *)
LEMMA ScheduleGoes ==
  ASSUME NEW p \in Level, NEW w \in Walks, NEW pick \in Picks
  PROVE  LET u == schedule(p, w, pick)
         IN  /\ u \in Walks /\ u.level[p] = "open"
             /\ \A q \in Level \ {p} : q = Root \/ Owner[q] \notin In(p) => u.level[q] = w.level[q]
             /\ \A m \in Node \ In(p) : u.at[m] = w.at[m]
             /\ \A m \in Node : (p = Root \/ m # Owner[p]) /\ Attended(m, w) => Attended(m, u)
             /\ \A m \in Node : Fit(m, w) => Fit(m, u)
             /\ \A m \in In(p) : Attended(m, u) /\ Fit(m, u)
<1> DEFINE v == Reset(p, w)
           u == schedule(p, w, pick)
<1>1. u = pump(p, v, pick) /\ u \in Walks
  BY ScheduleType DEF schedule, Reset
<1>2. /\ v \in Walks /\ v.level[p] = "open"
      /\ \A q \in Level \ {p} : q = Root \/ Owner[q] \notin In(p) => v.level[q] = w.level[q]
      /\ \A m \in Node \ In(p) : v.at[m] = w.at[m]
      /\ \A m \in In(p) : v.at[m] = "pending"
  <2>1. [n \in Node |-> IF n \in In(p) THEN "pending" ELSE w.at[n]] \in [Node -> NodeState]
    BY DEF Walks, NodeState
  <2>2. [q \in Level |-> IF q = p THEN "open" ELSE IF q # Root /\ Owner[q] \in In(p) THEN "idle" ELSE w.level[q]]
        \in [Level -> {"idle", "open", "over"}]
    BY DEF Walks
  <2>3. [w.halt EXCEPT ![p] = None] \in [Level -> {None} \cup Thrown]
    BY DEF Walks
  <2>4. v \in Walks
    BY <2>1, <2>2, <2>3 DEF Walks, Reset
  <2> QED BY <2>4, PlanFacts DEF Reset
<1> HIDE DEF v
<1>3. /\ u.level = v.level
      /\ \A m \in Node \ In(p) : u.at[m] = v.at[m]
      /\ \A m \in In(p) : \/ u.at[m] = v.at[m]
                          \/ Launched(m, u)
  BY <1>1, <1>2, PumpGoes
<1> HIDE DEF u
<1>4. \A m \in In(p) : Attended(m, u) /\ Fit(m, u)
  BY <1>2, <1>3 DEF Attended, Fit, Launched
<1>5. ASSUME NEW m \in Node \ In(p), p = Root \/ m # Owner[p] PROVE SameFor(m, w, u)
  BY <1>2, <1>3, <1>5 DEF SameFor
<1>6. ASSUME NEW m \in Node, p = Root \/ m # Owner[p], Attended(m, w) PROVE Attended(m, u)
  BY <1>4, <1>5, <1>6, SameGoes
<1>7. ASSUME NEW m \in Node, Fit(m, w) PROVE Fit(m, u)
  <2>1. CASE m \in In(p)
    BY <1>4, <2>1
  <2>2. CASE m \notin In(p)
    BY <1>2, <1>3, <1>7, <2>2 DEF Fit
  <2> QED BY <2>1, <2>2
<1>8. /\ u.level[p] = "open"
      /\ \A q \in Level \ {p} : q = Root \/ Owner[q] \notin In(p) => u.level[q] = w.level[q]
      /\ \A m \in Node \ In(p) : u.at[m] = w.at[m]
  BY <1>2, <1>3
<1> QED BY <1>1, <1>4, <1>6, <1>7, <1>8 DEF u

(* What a step makes of a walk.                                            *)
LEMMA StepGoes ==
  ASSUME NEW w, w \in Walks, Goes(w), Becomes(w)
  PROVE  Goes(Walk)'
  BY BecomesIs

(* Where nothing of a node has changed but its own place, nothing has for  *)
(* the others.                                                             *)
LEMMA OthersGo ==
  ASSUME NEW w \in Walks, Goes(w), NEW n \in Node, NEW v, v.level = w.level,
         \A m \in Node \ {n} : v.at[m] = w.at[m]
  PROVE  \A m \in Node \ {n} : Attended(m, v) /\ Fit(m, v)
<1> SUFFICES ASSUME NEW m \in Node \ {n} PROVE Attended(m, v) /\ Fit(m, v)
  OBVIOUS
<1>1. SameFor(m, w, v)
  BY DEF SameFor
<1> QED BY <1>1, SameGoes DEF Goes

(* A level that closes is missed by nobody but its owner.                  *)
LEMMA CloseGoes ==
  ASSUME NEW w \in Walks, Goes(w), NEW p \in Level
  PROVE  LET v == [w EXCEPT !.level[p] = "over"]
         IN  /\ v \in Walks /\ v.at = w.at /\ v.level[p] = "over"
             /\ \A q \in Level \ {p} : v.level[q] = w.level[q]
             /\ \A m \in Node : Fit(m, v) /\ (p = Root \/ m # Owner[p] => Attended(m, v))
<1> DEFINE v == [w EXCEPT !.level[p] = "over"]
<1>1. v \in Walks /\ v.at = w.at /\ v.level[p] = "over" /\ \A q \in Level \ {p} : v.level[q] = w.level[q]
  BY DEF Walks
<1> HIDE DEF v
<1>2. ASSUME NEW m \in Node PROVE Fit(m, v)
  BY <1>1 DEF Goes, Fit
<1>3. ASSUME NEW m \in Node, p = Root \/ m # Owner[p] PROVE Attended(m, v)
  <2>1. SameFor(m, w, v)
    BY <1>1, <1>3 DEF SameFor
  <2> QED BY <2>1, SameGoes DEF Goes
<1> QED BY <1>1, <1>2, <1>3 DEF v

(* A leaf or a loop goes on to its one level.                              *)
LEMMA OneLevelGoes ==
  ASSUME NEW n \in Node, Kind[n] \in {"forEach", "while"} \/ HasErrorLane(n),
         NEW v \in Walks, v.at[n] = "nested", \A m \in Node \ {n} : Attended(m, v) /\ Fit(m, v),
         NEW pick \in Picks
  PROVE  LET u == schedule(Nested[n][1], v, pick)
         IN  u \in Walks /\ Goes(u)
<1> DEFINE p == Nested[n][1]
           u == schedule(p, v, pick)
<1>1. p \in Level \ {Root} /\ Owner[p] = n
  BY BodyIsLevel
<1>2. \A q \in Level \ {Root} : Owner[q] = n => q = p
  BY OneLevel DEF HasErrorLane
<1> HIDE DEF p
<1>3. n \notin In(p)
  BY <1>1, OwnerIsOutside, PlanFacts
<1>4. /\ u \in Walks /\ u.level[p] = "open"
      /\ \A m \in Node \ In(p) : u.at[m] = v.at[m]
      /\ \A m \in Node : (p = Root \/ m # Owner[p]) /\ Attended(m, v) => Attended(m, u)
      /\ \A m \in Node : Fit(m, v) => Fit(m, u)
  BY <1>1, ScheduleGoes
<1> HIDE DEF u
<1>5. Attended(n, u)
  BY <1>1, <1>2, <1>4 DEF Attended
<1>6. Fit(n, u)
  BY <1>3, <1>4 DEF Fit
<1> QED BY <1>1, <1>4, <1>5, <1>6 DEF Goes, u, p

LEMMA WorkingWalk ==
  ASSUME NEW w \in Walks, NEW n \in Node, NEW x \in Working
  PROVE  LET v == [w EXCEPT !.at[n] = x]
         IN  /\ v \in Walks /\ v.at[n] = x /\ v.level = w.level
             /\ \A m \in Node \ {n} : v.at[m] = w.at[m]
<1>1. x \in NodeState
  BY DEF NodeState
<1> QED BY <1>1 DEF Walks

LEMMA NestedGoes ==
  ASSUME NEW w \in Walks, Goes(w), NEW n \in Node, Kind[n] \in {"forEach", "while"} \/ HasErrorLane(n),
         NEW pick \in Picks
  PROVE  LET u == schedule(Nested[n][1], [w EXCEPT !.at[n] = "nested"], pick)
         IN  u \in Walks /\ Goes(u)
<1> DEFINE v == [w EXCEPT !.at[n] = "nested"]
<1>1. v \in Walks /\ v.at[n] = "nested" /\ v.level = w.level /\ \A m \in Node \ {n} : v.at[m] = w.at[m]
  BY WorkingWalk, StatesDiffer
<1> HIDE DEF v
<1>2. \A m \in Node \ {n} : Attended(m, v) /\ Fit(m, v)
  BY <1>1, OthersGo
<1> QED BY <1>1, <1>2, OneLevelGoes DEF v

(* laneEnds, with the type the walk keeps.                                 *)
LEMMA LaneType ==
  ASSUME NEW w \in Walks, NEW n \in Node, NEW o \in {"ok"} \cup Thrown, NEW pick \in Picks
  PROVE  laneEnds(n, o, w, pick) \in Walks
<1> DEFINE v == Taken(n, o, w)
           p == LevelOf[n]
<1>1. v \in Walks /\ p \in Level
  BY TakenIs, PlanFacts
<1>2. laneEnds(n, o, w, pick) = pump(p, v, pick) \/ laneEnds(n, o, w, pick) = v
  BY DEF laneEnds, Taken
<1> HIDE DEF v, p
<1> QED BY <1>1, <1>2, PumpGoes

LEMMA LaneStep ==
  ASSUME NEW w \in Walks, NEW n \in Node, NEW o \in {"ok"} \cup Thrown, NEW pick \in Picks,
         \A m \in Node \ {n} : Attended(m, w) /\ Fit(m, w), Becomes(laneEnds(n, o, w, pick))
  PROVE  Goes(Walk)'
  BY LaneType, LaneGoes, StepGoes

\* A walk that goes on, of the right type.
Going == Walk \in Walks /\ Goes(Walk)

LEMMA GoingOn ==
  ASSUME Going, NEW n \in Node
  PROVE  \A m \in Node \ {n} : Attended(m, Walk) /\ Fit(m, Walk)
  BY DEF Going, Goes

LEMMA OutcomesAre ==
  "ok" \in {"ok"} \cup Thrown /\ "error" \in {"ok"} \cup Thrown /\ "halt" \in {"ok"} \cup Thrown
  /\ "fatal" \in {"ok"} \cup Thrown /\ "cancel" \in {"ok"} \cup Thrown
  BY DEF Thrown, Fatal

LEMMA ChargeGoes ==
  ASSUME Going, NEW n \in Node, charge(n)
  PROVE  Goes(Walk)'
<1>1. CASE ~cancelled /\ steps < MaxSteps
  <2> DEFINE v == [Walk EXCEPT !.at[n] = "working"]
  <2>1. Becomes(v) /\ Kind[n] = "leaf"
    BY <1>1 DEF charge
  <2>2. v \in Walks /\ v.at[n] = "working" /\ v.level = Walk.level /\ \A m \in Node \ {n} : v.at[m] = Walk.at[m]
    BY WorkingWalk, StatesDiffer DEF Going
  <2> HIDE DEF v
  <2>3. \A m \in Node \ {n} : Attended(m, v) /\ Fit(m, v)
    BY <2>2, OthersGo DEF Going
  <2>4. Attended(n, v) /\ Fit(n, v)
    BY <2>1, <2>2 DEF Attended, Fit
  <2>5. Goes(v)
    BY <2>3, <2>4 DEF Goes
  <2> QED BY <2>1, <2>2, <2>5, StepGoes
<1>2. CASE ~(~cancelled /\ steps < MaxSteps)
  <2>1. PICK pick \in Picks : Becomes(laneEnds(n, IF cancelled THEN "cancel" ELSE "fatal", Walk, pick))
    BY <1>2 DEF charge
  <2>2. (IF cancelled THEN "cancel" ELSE "fatal") \in {"ok"} \cup Thrown
    BY OutcomesAre
  <2> QED BY <2>1, <2>2, GoingOn, LaneStep DEF Going
<1> QED BY <1>1, <1>2

LEMMA ReturnGoes ==
  ASSUME Going, NEW n \in Node, Return(n)
  PROVE  Goes(Walk)'
<1>1. CASE leafReturns(n)
  <2>1. PICK pick \in Picks : Becomes(laneEnds(n, "ok", Walk, pick))
    BY <1>1 DEF leafReturns
  <2> QED BY <2>1, OutcomesAre, GoingOn, LaneStep DEF Going
<1>2. ASSUME NEW o \in {"error", "fatal"}, leafThrows(n, o) PROVE Goes(Walk)'
  <2> DEFINE x == IF o # "fatal" /\ cancelled THEN "cancel" ELSE o
  <2>1. PICK pick \in Picks : Becomes(handled(n, x, pick))
    BY <1>2 DEF leafThrows
  <2>2. x \in {"ok"} \cup Thrown
    BY OutcomesAre
  <2> HIDE DEF x
  <2>3. \/ Becomes(laneEnds(n, x, Walk, pick)) \/ Becomes(laneEnds(n, "ok", Walk, pick))
        \/ HasErrorLane(n) /\ Becomes(schedule(Nested[n][1], [Walk EXCEPT !.at[n] = "nested"], pick))
    BY <2>1 DEF handled
  <2>4. CASE HasErrorLane(n) /\ Becomes(schedule(Nested[n][1], [Walk EXCEPT !.at[n] = "nested"], pick))
    BY <2>4, NestedGoes, StepGoes DEF Going
  <2>5. CASE Becomes(laneEnds(n, x, Walk, pick))
    BY <2>2, <2>5, GoingOn, LaneStep DEF Going
  <2>6. CASE Becomes(laneEnds(n, "ok", Walk, pick))
    BY <2>6, OutcomesAre, GoingOn, LaneStep DEF Going
  <2> QED BY <2>3, <2>4, <2>5, <2>6
<1> QED BY <1>1, <1>2 DEF Return

\* The first k branches of a node are open, and nobody else is in doubt.
BranchesOpen(n, k, v) ==
  /\ v \in Walks /\ v.at[n] = "nested"
  /\ \A m \in Node \ {n} : Attended(m, v) /\ Fit(m, v)
  /\ \A i \in 1..k : v.level[Nested[n][i]] = "open"

LEMMA BranchOpens ==
  ASSUME NEW n \in Node, NEW k \in Nat, k < Len(Nested[n]), NEW v, BranchesOpen(n, k, v), NEW pick \in Picks
  PROVE  BranchesOpen(n, k + 1, schedule(Nested[n][k + 1], v, pick))
<1> DEFINE p == Nested[n][k + 1]
           u == schedule(p, v, pick)
<1>1. Len(Nested[n]) \in Nat /\ DOMAIN Nested[n] = 1..Len(Nested[n]) /\ Nested[n] \in Seq(Level \ {Root})
  BY NestedFacts
<1>2. \A i \in 1..(k + 1) : Nested[n][i] \in Level \ {Root} /\ Owner[Nested[n][i]] = n
  <2> TAKE i \in 1..(k + 1)
  <2>1. i \in DOMAIN Nested[n] /\ Nested[n][i] \in Level \ {Root}
    BY <1>1
  <2>2. Nested[n][i] \in Range(Nested[n])
    BY <2>1 DEF Range
  <2> QED BY <2>1, <2>2, PlanFacts
<1>3. p \in Level \ {Root} /\ Owner[p] = n
  BY <1>2
<1> HIDE DEF p
<1>4. n \notin In(p)
  BY <1>3, OwnerIsOutside, PlanFacts
<1>5. /\ u \in Walks /\ u.level[p] = "open"
      /\ \A q \in Level \ {p} : q = Root \/ Owner[q] \notin In(p) => u.level[q] = v.level[q]
      /\ \A m \in Node \ In(p) : u.at[m] = v.at[m]
      /\ \A m \in Node : (p = Root \/ m # Owner[p]) /\ Attended(m, v) => Attended(m, u)
      /\ \A m \in Node : Fit(m, v) => Fit(m, u)
  BY <1>3, ScheduleGoes DEF BranchesOpen
<1> HIDE DEF u
<1>6. \A m \in Node \ {n} : Attended(m, u) /\ Fit(m, u)
  BY <1>3, <1>5 DEF BranchesOpen
<1>7. u.at[n] = "nested"
  BY <1>4, <1>5 DEF BranchesOpen
<1>8. ASSUME NEW i \in 1..(k + 1) PROVE u.level[Nested[n][i]] = "open"
  <2>1. CASE i = k + 1
    BY <1>5, <2>1 DEF p
  <2>2. CASE i # k + 1
    <3>1. i \in 1..k
      BY <2>2
    <3>2. v.level[Nested[n][i]] = "open" /\ Nested[n][i] \in Level /\ Owner[Nested[n][i]] = n
      BY <1>2, <3>1 DEF BranchesOpen
    <3> QED BY <1>4, <1>5, <3>2
  <2> QED BY <2>1, <2>2
<1> QED BY <1>5, <1>6, <1>7, <1>8 DEF BranchesOpen, u, p

LEMMA ForkGoes ==
  ASSUME Going, NEW n \in Node, fork(n)
  PROVE  Goes(Walk)'
<1> DEFINE l == Len(Nested[n])
<1>1. PICK pick \in Picks : Becomes(IF Nested[n] = <<>> THEN laneEnds(n, "ok", Walk, pick) ELSE forked(n, pick))
  BY DEF fork
<1>2. CASE Nested[n] = <<>>
  <2>1. Becomes(laneEnds(n, "ok", Walk, pick))
    BY <1>1, <1>2
  <2> QED BY <2>1, OutcomesAre, GoingOn, LaneStep DEF Going
<1>3. CASE Nested[n] # <<>>
  <2> DEFINE begun == CHOOSE b : Begins(b, n, pick)
  <2>1. Becomes(begun[l])
    BY <1>1, <1>3 DEF forked, Begins
  <2>2. Begins(begun, n, pick)
    <3>1. \E b : Begins(b, n, pick)
      BY BeginsExists DEF Going
    <3> QED BY <3>1
  <2> HIDE DEF begun
  <2>3. l \in Nat /\ l # 0 /\ DOMAIN Nested[n] = 1..l
    <3>1. Nested[n] \in Seq(Level \ {Root}) /\ DOMAIN Nested[n] = 1..l /\ l \in Nat
      BY NestedFacts
    <3> QED BY <1>3, <3>1
  <2>4. begun[0] = [Walk EXCEPT !.at[n] = "nested"]
    BY <2>2, <2>3 DEF Begins
  <2>5. ASSUME NEW k \in Nat, k < l PROVE begun[k + 1] = schedule(Nested[n][k + 1], begun[k], pick)
    <3>1. k + 1 \in 0..l /\ k + 1 # 0 /\ (k + 1) - 1 = k
      BY <2>3, <2>5
    <3> QED BY <2>2, <3>1 DEF Begins
  <2>6. BranchesOpen(n, 0, begun[0])
    <3> DEFINE v == begun[0]
    <3>1. v \in Walks /\ v.at[n] = "nested" /\ v.level = Walk.level /\ \A m \in Node \ {n} : v.at[m] = Walk.at[m]
      BY <2>4, WorkingWalk, StatesDiffer DEF Going
    <3> HIDE DEF v
    <3>2. \A m \in Node \ {n} : Attended(m, v) /\ Fit(m, v)
      BY <3>1, OthersGo DEF Going
    <3> QED BY <3>1, <3>2 DEF BranchesOpen, v
  <2> DEFINE S == {k \in Nat : k <= l => BranchesOpen(n, k, begun[k])}
  <2>7. Nat \subseteq S
    <3>1. 0 \in S
      BY <2>6
    <3>2. ASSUME NEW k \in Nat, k \in S PROVE k + 1 \in S
      <4> SUFFICES ASSUME k + 1 <= l PROVE BranchesOpen(n, k + 1, begun[k + 1])
        OBVIOUS
      <4>1. k < l /\ BranchesOpen(n, k, begun[k])
        BY <2>3, <3>2
      <4> QED BY <2>5, <4>1, BranchOpens
    <3> HIDE DEF S
    <3> QED BY <3>1, <3>2, SetInduction
  <2> DEFINE w == begun[l]
  <2>8. BranchesOpen(n, l, w)
    BY <2>3, <2>7
  <2> HIDE DEF w
  <2>9. \A q \in Level \ {Root} : Owner[q] = n => w.level[q] = "open"
    <3> SUFFICES ASSUME NEW q \in Level \ {Root}, Owner[q] = n PROVE w.level[q] = "open"
      OBVIOUS
    <3>1. q \in Range(Nested[n])
      BY PlanFacts
    <3>2. PICK i \in 1..l : q = Nested[n][i]
      BY <2>3, <3>1 DEF Range
    <3> QED BY <2>8, <3>2 DEF BranchesOpen
  <2>10. Nested[n][1] \in Level \ {Root} /\ Owner[Nested[n][1]] = n
    <3>1. 1 \in DOMAIN Nested[n] /\ Nested[n] \in Seq(Level \ {Root})
      BY <2>3, NestedFacts
    <3>2. Nested[n][1] \in Range(Nested[n]) /\ Nested[n][1] \in Level \ {Root}
      BY <3>1 DEF Range
    <3> QED BY <3>2, PlanFacts
  <2>11. Attended(n, w) /\ Fit(n, w)
    BY <2>8, <2>9, <2>10 DEF Attended, Fit, BranchesOpen
  <2>12. w \in Walks /\ Goes(w)
    BY <2>8, <2>11 DEF BranchesOpen, Goes
  <2>13. Becomes(w)
    BY <2>1 DEF w
  <2> QED BY <2>12, <2>13, StepGoes
<1> QED BY <1>2, <1>3

LEMMA WhileRoundGoes ==
  ASSUME NEW n \in Node, Kind[n] = "while", NEW w \in Walks, NEW pick \in Picks, NEW more,
         \A m \in Node \ {n} : Attended(m, w) /\ Fit(m, w), whileRound(n, more, w, pick)
  PROVE  Goes(Walk)'
<1>1. CASE rounds >= MaxRounds
  <2>1. Becomes(laneEnds(n, "fatal", w, pick))
    BY <1>1 DEF whileRound, LimitReached
  <2> QED BY <2>1, OutcomesAre, LaneStep
<1>2. CASE ~(rounds >= MaxRounds)
  <2> DEFINE v == [w EXCEPT !.at[n] = "nested"]
             u == schedule(Nested[n][1], v, pick)
  <2>1. Becomes(u)
    BY <1>2 DEF whileRound
  <2>2. v \in Walks /\ v.at[n] = "nested" /\ v.level = w.level /\ \A m \in Node \ {n} : v.at[m] = w.at[m]
    BY WorkingWalk, StatesDiffer
  <2> HIDE DEF v
  <2>3. ASSUME NEW m \in Node \ {n} PROVE Attended(m, v) /\ Fit(m, v)
    <3>1. SameFor(m, w, v)
      BY <2>2 DEF SameFor
    <3> QED BY <3>1, SameGoes
  <2>4. u \in Walks /\ Goes(u)
    BY <2>2, <2>3, OneLevelGoes
  <2> HIDE DEF u
  <2> QED BY <2>1, <2>4, StepGoes
<1> QED BY <1>1, <1>2

LEMMA BeginForEachGoes ==
  ASSUME Going, NEW n \in Node, beginForEach(n)
  PROVE  Goes(Walk)'
<1>1. PICK pick \in Picks :
        \/ \E o \in {"ok", "fatal", "error"} : Becomes(laneEnds(n, o, Walk, pick))
        \/ Kind[n] = "forEach" /\ Becomes(schedule(Nested[n][1], [Walk EXCEPT !.at[n] = "nested"], pick))
  BY DEF beginForEach, LimitReached
<1>2. ASSUME NEW o \in {"ok", "fatal", "error"}, Becomes(laneEnds(n, o, Walk, pick)) PROVE Goes(Walk)'
  BY <1>2, OutcomesAre, GoingOn, LaneStep DEF Going
<1>3. CASE Kind[n] = "forEach" /\ Becomes(schedule(Nested[n][1], [Walk EXCEPT !.at[n] = "nested"], pick))
  BY <1>3, NestedGoes, StepGoes DEF Going
<1> QED BY <1>1, <1>2, <1>3

LEMMA BeginGoes ==
  ASSUME Going, NEW n \in Node, Begin(n)
  PROVE  Goes(Walk)'
<1>1. CASE beginWhile(n)
  <2>1. PICK pick \in Picks : Kind[n] = "while" /\ whileRound(n, MaxItems, Walk, pick)
    BY <1>1 DEF beginWhile
  <2> QED BY <2>1, GoingOn, WhileRoundGoes DEF Going
<1> QED BY <1>1, ChargeGoes, ForkGoes, BeginForEachGoes DEF Begin

(* A level closes, and the lane of its owner ends.                         *)
LEMMA ClosedOthers ==
  ASSUME Going, NEW n \in Node, NEW p \in Level \ {Root}, Owner[p] = n
  PROVE  /\ Closed(p) \in Walks /\ Closed(p).at = at /\ Closed(p).level[p] = "over"
         /\ \A q \in Level \ {p} : Closed(p).level[q] = level[q]
         /\ \A m \in Node \ {n} : Attended(m, Closed(p)) /\ Fit(m, Closed(p))
         /\ Fit(n, Closed(p))
<1>1. Closed(p) = [Walk EXCEPT !.level[p] = "over"]
  BY DEF Closed
<1> QED BY <1>1, CloseGoes, WalkIs DEF Going

LEMMA OutcomeIs ==
  ASSUME Going, NEW p \in Level
  PROVE  Outcome(p) \in {"ok"} \cup Thrown
<1>1. halt[p] \in {None} \cup Thrown
  BY WalkIs DEF Going, Walks
<1> QED BY <1>1 DEF Outcome

LEMMA ErrorLaneEndsGoes ==
  ASSUME Going, NEW n \in Node, errorLaneEnds(n)
  PROVE  Goes(Walk)'
<1> DEFINE p == Nested[n][1]
           o == laneOutcome(Outcome(p))
<1>1. PICK pick \in Picks : Becomes(laneEnds(n, o, Closed(p), pick))
  BY DEF errorLaneEnds
<1>2. p \in Level \ {Root} /\ Owner[p] = n
  BY BodyIsLevel DEF errorLaneEnds
<1>3. o \in {"ok"} \cup Thrown
  BY <1>2, OutcomeIs, OutcomesAre DEF laneOutcome
<1> HIDE DEF p, o
<1> QED BY <1>1, <1>2, <1>3, ClosedOthers, LaneStep

LEMMA BranchEndsGoes ==
  ASSUME Going, NEW n \in Node, NEW p \in Level, branchEnds(n, p)
  PROVE  Goes(Walk)'
<1>1. at[n] = "nested" /\ p \in Range(Nested[n])
  BY DEF branchEnds
<1>2. p \in Level \ {Root} /\ Owner[p] = n
  BY <1>1, PlanFacts
<1>3. CASE allOver(n, p)
  <2>1. PICK pick \in Picks : Becomes(laneEnds(n, branchesOutcome(n), Closed(p), pick))
    BY <1>3 DEF branchEnds
  <2>2. branchesOutcome(n) \in {"ok"} \cup Thrown
    BY BranchesOutcomeIs, WalkIs DEF Going, Walks
  <2> QED BY <1>2, <2>1, <2>2, ClosedOthers, LaneStep
<1>4. CASE ~allOver(n, p)
  <2>1. Becomes(Closed(p))
    BY <1>4 DEF branchEnds
  <2>2. PICK q \in Range(Nested[n]) \ {p} : level[q] # "over"
    BY <1>4 DEF allOver
  <2>3. q \in Level \ {Root} /\ Owner[q] = n
    <3>1. q \in Level
      BY <2>2, NestedFacts DEF Range
    <3> QED BY <2>2, <3>1, PlanFacts
  <2>4. \A r \in Level \ {Root} : Owner[r] = n => level[r] # "idle"
    BY <1>1, WalkIs DEF Going, Goes, Attended
  <2>5. level[q] = "open"
    BY <2>2, <2>3, <2>4, WalkIs DEF Going, Walks
  <2>6. Attended(n, Closed(p))
    <3>1. Closed(p).level[p] = "over" /\ \A r \in Level \ {p} : Closed(p).level[r] = level[r]
      BY <1>2, ClosedOthers
    <3> QED BY <2>2, <2>3, <2>4, <2>5, <3>1 DEF Attended
  <2>7. Closed(p) \in Walks /\ Goes(Closed(p))
    BY <1>2, <2>6, ClosedOthers DEF Goes
  <2> QED BY <2>1, <2>7, StepGoes
<1> QED BY <1>3, <1>4

LEMMA LoopRoundEndsGoes ==
  ASSUME Going, NEW n \in Node, loopRoundEnds(n)
  PROVE  Goes(Walk)'
<1> DEFINE p == Nested[n][1]
<1>1. at[n] = "nested" /\ Kind[n] \in {"forEach", "while"}
  BY DEF loopRoundEnds
<1>2. p \in Level \ {Root} /\ Owner[p] = n
  BY <1>1, BodyIsLevel
<1>3. PICK pick \in Picks :
        \/ \E o \in {Outcome(p), "error"} : Becomes(laneEnds(n, o, Closed(p), pick))
        \/ Kind[n] = "while" /\ whileRound(n, left[n], Closed(p), pick)
        \/ Becomes(schedule(p, Walk, pick))
  BY DEF loopRoundEnds
<1>4. ASSUME NEW o \in {Outcome(p), "error"}, Becomes(laneEnds(n, o, Closed(p), pick)) PROVE Goes(Walk)'
  <2> HIDE DEF p
  <2>1. o \in {"ok"} \cup Thrown
    BY <1>2, OutcomeIs, OutcomesAre
  <2> QED BY <1>2, <1>4, <2>1, ClosedOthers, LaneStep
<1>5. CASE Kind[n] = "while" /\ whileRound(n, left[n], Closed(p), pick)
  <2> HIDE DEF p
  <2> QED BY <1>2, <1>5, ClosedOthers, WhileRoundGoes
<1>6. CASE Becomes(schedule(p, Walk, pick))
  <2>1. Walk.at[n] = "nested"
    BY <1>1, WalkIs
  <2>2. schedule(p, Walk, pick) \in Walks /\ Goes(schedule(p, Walk, pick))
    BY <1>1, <2>1, GoingOn, OneLevelGoes DEF Going
  <2> HIDE DEF p
  <2> QED BY <1>6, <2>2, StepGoes
<1> QED BY <1>3, <1>4, <1>5, <1>6

LEMMA RunEndsGoes ==
  ASSUME Going, runEnds
  PROVE  Goes(Walk)'
<1> DEFINE v == [Walk EXCEPT !.level[Root] = "over"]
<1>1. Becomes(v) /\ Root \in Level
  BY PlanAssumption DEF runEnds, Closed
<1>2. v \in Walks /\ \A m \in Node : Fit(m, v) /\ Attended(m, v)
  BY <1>1, CloseGoes DEF Going
<1> HIDE DEF v
<1> QED BY <1>1, <1>2, StepGoes DEF Goes

(* The run's own level begins, and nobody waits yet.                       *)
LEMMA InitGoes == Init => Goes(Walk)
<1> SUFFICES ASSUME Init PROVE Goes(Walk)
  OBVIOUS
<1>1. PICK pick \in Picks :
        LET w == schedule(Root, [at |-> [n \in Node |-> "pending"],
                                 port |-> [n \in DOMAIN pick |-> None],
                                 level |-> [p \in Level |-> "idle"],
                                 halt |-> [p \in Level |-> None]], pick)
        IN  at = w.at /\ port = w.port /\ level = w.level /\ halt = w.halt
  BY DEF Init
<1> DEFINE v == [at |-> [n \in Node |-> "pending"], port |-> [n \in DOMAIN pick |-> None],
                 level |-> [p \in Level |-> "idle"], halt |-> [p \in Level |-> None]]
           w == schedule(Root, v, pick)
<1>2. at = w.at /\ port = w.port /\ level = w.level /\ halt = w.halt
  BY <1>1
<1>3. v \in Walks /\ \A n \in Node : v.at[n] = "pending"
  <2>1. DOMAIN pick = Routers
    BY DEF Picks, Routers
  <2> QED BY <2>1 DEF Walks, NodeState
<1> HIDE DEF v
<1>4. \A n \in Node : Attended(n, v) /\ Fit(n, v)
  BY <1>3 DEF Attended, Fit
<1>5. w \in Walks /\ \A n \in Node : Attended(n, w) /\ Fit(n, w)
  BY <1>3, <1>4, ScheduleGoes, PlanAssumption
<1> HIDE DEF w
<1>6. Walk = w
  <2>1. w = [at |-> w.at, port |-> w.port, level |-> w.level, halt |-> w.halt]
    BY <1>5 DEF Walks
  <2> QED BY <1>2, <2>1 DEF Walk
<1> QED BY <1>5, <1>6 DEF Goes

LEMMA NextGoes == IInv /\ Goes(Walk) /\ [Next]_vars => Goes(Walk)'
<1> SUFFICES ASSUME IInv, Goes(Walk), [Next]_vars PROVE Goes(Walk)'
  OBVIOUS
<1>1. Going
  BY DEF Going, IInv, Sound, Coherent
<1>2. CASE Walk' = Walk
  BY <1>2
<1>3. CASE Next
  <2>1. ASSUME NEW n \in Node, Begin(n) \/ Return(n) PROVE Goes(Walk)'
    BY <1>1, <2>1, BeginGoes, ReturnGoes
  <2>2. ASSUME NEW n \in Node, Close(n) PROVE Goes(Walk)'
    BY <1>1, <2>2, ErrorLaneEndsGoes, LoopRoundEndsGoes, BranchEndsGoes DEF Close
  <2>3. CASE runEnds
    BY <1>1, <2>3, RunEndsGoes
  <2>4. CASE cancel
    <3>1. Walk' = Walk
      BY <2>4 DEF cancel, Walk
    <3> QED BY <1>2, <3>1
  <2> QED BY <1>3, <2>1, <2>2, <2>3, <2>4 DEF Next
<1>4. CASE UNCHANGED vars
  <2>1. Walk' = Walk
    BY <1>4 DEF vars, Walk
  <2> QED BY <1>2, <2>1
<1> QED BY <1>3, <1>4

(* Levels that lie in open ones, each with one of them in it, would go on  *)
(* for ever: a finite plan has an open level without an open one in it.    *)
LEMMA InnermostExists ==
  ASSUME NEW S \in SUBSET Level, Root \in S,
         \A q \in S \ {Root} : LevelOf[Owner[q]] \in S
  PROVE  \E p \in S : \A q \in S \ {Root} : LevelOf[Owner[q]] # p
<1> SUFFICES ASSUME \A p \in S : \E q \in S \ {Root} : LevelOf[Owner[q]] = p PROVE FALSE
  OBVIOUS
<1> DEFINE T == S \ {Root}
           f == [q \in T |-> LevelOf[Owner[q]]]
<1>1. f \in Surjection(T, S)
  BY DEF Surjection
<1>2. IsFiniteSet(S)
  BY FinitePlan, FS_Subset
<1>3. IsFiniteSet(T) /\ Cardinality(T) = Cardinality(S) - 1 /\ Cardinality(S) \in Nat
  BY <1>2, FS_RemoveElement, FS_CardinalityType
<1> HIDE DEF f, T
<1>4. Cardinality(S) <= Cardinality(T)
  BY <1>1, <1>3, FS_Surjection
<1> QED BY <1>3, <1>4

-----------------------------------------------------------------------------
(* Theorems.                                                               *)

(* The walk stays sound, whatever order its lanes end in: levels at rest,  *)
(* failures where they were met, and every fatal error on its way up.      *)
THEOREM Invariance == Spec => []IInv
  BY InitIInv, NextHolds, PTL DEF Spec

(* No interleaving of lanes charges more operations or rounds than the     *)
(* run has, and every node, level and outcome is one that there is.        *)
THEOREM TypeCorrect == Spec => []TypeOK
<1>1. IInv => TypeOK
  <2> SUFFICES ASSUME IInv PROVE TypeOK
    OBVIOUS
  <2>1. Walk \in Walks /\ Counted
    BY DEF IInv, Sound, Coherent
  <2>2. at \in [Node -> NodeState] /\ port \in [Routers -> Port \cup {None}]
        /\ level \in [Level -> {"idle", "open", "over"}] /\ halt \in [Level -> {None} \cup Thrown]
    BY <2>1, WalkIs DEF Walks
  <2>3. end \in {None, "ok"} \cup Thrown
    <3>1. Outcome(Root) \in {"ok"} \cup Thrown
      BY <2>2, PlanAssumption DEF Outcome
    <3> QED BY <3>1 DEF IInv, Ended
  <2> QED BY <2>1, <2>2, <2>3 DEF TypeOK, Counted, NodeState, Routers
<1> QED BY <1>1, Invariance, PTL

(* Of any plan and in any order of lanes, a join neither runs ahead of its *)
(* sources nor is taken back by them, and a level nothing stopped has run  *)
(* exactly what a live path reaches (dag-interpreter.ts: the pump, its     *)
(* joins and skips).                                                       *)
THEOREM RoutedRun == Spec => []RoutedNodesRun
<1>1. ASSUME IInv, NEW n \in Node, at[n] # "pending"
      PROVE  /\ \A s \in inPlanSources[n] : at[s] \in Settled
             /\ at[n] = "skipped" <=> ~isLive(n, Walk)
  <2>1. SourcesSettled(Walk) /\ Routed(Walk)
    BY <1>1 DEF IInv, Sound, Coherent
  <2> QED BY <1>1, <2>1, WalkIs DEF SourcesSettled, Routed
<1>2. ASSUME IInv, NEW p \in Level, level[p] = "over", halt[p] = None, NEW n \in In(p)
      PROVE  at[n] = (IF isLive(n, Walk) THEN "ran" ELSE "skipped")
  <2>1. n \in Node /\ at[n] \in Settled
    BY <1>2, WalkIs, PlanFacts DEF IInv, Sound, Coherent, OverIsSettled
  <2>2. at[n] = "skipped" <=> ~isLive(n, Walk)
    BY <1>1, <1>2, <2>1, StatesDiffer
  <2> QED BY <2>1, <2>2 DEF Settled
<1>3. IInv => RoutedNodesRun
  BY <1>1, <1>2 DEF RoutedNodesRun
<1> QED BY <1>3, Invariance, PTL

(* No node goes on along its main path once its error lane has begun       *)
(* (executeLeaf, and the halt an error lane ends with).                    *)
THEOREM NeverBoth == Spec => []NeverBothLanes
<1>1. IInv => NeverBothLanes
  <2> SUFFICES ASSUME IInv, NEW n \in Node, HasErrorLane(n), level[Nested[n][1]] # "idle"
               PROVE  at[n] # "ran" /\ \A m \in Node : n \in inPlanSources[m] => at[m] = "pending"
    BY DEF NeverBothLanes
  <2>1. at[n] \in {"nested"} \cup Thrown
    BY WalkIs DEF IInv, Sound, Coherent, LaneMeansFailed
  <2>2. at[n] \notin Settled
    BY <2>1, StatesDiffer
  <2>3. \A m \in Node : at[m] # "pending" => \A s \in inPlanSources[m] : at[s] \in Settled
    BY WalkIs DEF IInv, Sound, Coherent, SourcesSettled
  <2> QED BY <2>2, <2>3 DEF Settled
<1> QED BY <1>1, Invariance, PTL

(* No error lane, branch or loop absorbs a fatal error, at any depth       *)
(* (haltError, executeParallel, and the failure policy of executeLeaf):    *)
(* it takes a router that throws, whose level abandons its lanes.          *)
THEOREM FatalEnds == Spec => []FatalEndsRun
<1>1. IInv => FatalEndsRun
  <2> SUFFICES ASSUME IInv, end # None, fatalMet, \A p \in Level : ~Broke(p, Walk) PROVE end \in Fatal
    BY DEF FatalEndsRun
  <2>1. level[Root] = "over" /\ end = Outcome(Root) /\ Coherent(Walk)
    BY DEF IInv, Ended, Sound
  <2>2. PICK p \in Level : Carries(p, Walk)
    BY DEF IInv, Rising
  <2>3. \A q \in Level : Walk.level[q] # "open"
    BY <2>1, RootIsOpen, WalkIs
  <2>4. p = Root
    <3>1. ASSUME p # Root PROVE FALSE
      <4>1. Owner[p] \in Node /\ Walk.at[Owner[p]] \in Working /\ LevelOf[Owner[p]] \in Level
        BY <2>2, <2>3, <3>1, PlanFacts, StatesDiffer DEF Carries
      <4> QED BY <2>1, <2>3, <4>1 DEF Coherent, WorksInOpen
    <3> QED BY <3>1
  <2>5. halt[Root] \in Fatal
    BY <2>2, <2>4, WalkIs DEF Carries
  <2> QED BY <2>1, <2>5, NoneAssumption, StatesDiffer DEF Outcome
<1> QED BY <1>1, Invariance, PTL

(* A level lies in itself and in what its parent lies in, and in nothing   *)
(* else.                                                                   *)
LEMMA AroundFacts ==
  ASSUME NEW p \in Level
  PROVE  /\ Around[p] \in SUBSET Level /\ p \in Around[p]
         /\ \A q \in Around[p] \ {Root} : LevelOf[Owner[q]] \in Around[p]
         /\ \A S \in SUBSET Level :
              p \in S /\ (\A r \in S \ {Root} : LevelOf[Owner[r]] \in S) => Around[p] \subseteq S
<1>1. \A q \in Level \ {Root} : LevelOf[Owner[q]] \in Level
  BY OwnerIsOutside
<1> QED BY <1>1 DEF Around

(* What works in levels none of which broke has them all open.             *)
LEMMA WorksInRoot ==
  ASSUME NEW w, Coherent(w), NEW p \in Level, w.level[p] = "open", \A q \in Around[p] : ~Broke(q, w)
  PROVE  w.level[Root] = "open"
<1> DEFINE T == {q \in Around[p] : w.level[q] = "open"}
<1>1. T \in (SUBSET Level) \ {{}}
  BY AroundFacts
<1>2. PICK q \in T : q = Root \/ LevelOf[Owner[q]] \notin T
  <2> HIDE DEF T
  <2> QED BY <1>1, PlanAssumption
<1>3. ASSUME q # Root PROVE FALSE
  <2>1. q \in Level \ {Root} /\ LevelOf[Owner[q]] \in Around[p] /\ Owner[q] \in Node
    BY <1>3, AroundFacts, PlanFacts
  <2>2. w.at[Owner[q]] \in Working
    BY <2>1, StatesDiffer DEF Coherent, OpenIsOwned
  <2>3. w.level[LevelOf[Owner[q]]] = "open"
    BY <2>1, <2>2 DEF Coherent, WorksInOpen
  <2> QED BY <1>2, <1>3, <2>1, <2>3
<1> QED BY <1>3

(* However the levels of a plan were unwound, nothing of it runs on when   *)
(* its run has ended (schedule's wait for the lanes it started), but what  *)
(* lies inside a level that a router's throw broke.                        *)
THEOREM NothingOutlives == Spec => []NothingOutlivesRun
<1>1. IInv => NothingOutlivesRun
  <2> SUFFICES ASSUME IInv, end # None, NEW n \in Node, at[n] \in Working,
                      \A p \in Around[LevelOf[n]] : ~Broke(p, Walk)
               PROVE  FALSE
    BY DEF NothingOutlivesRun
  <2>1. LevelOf[n] \in Level /\ Coherent(Walk)
    BY PlanFacts DEF IInv, Sound
  <2>2. Walk.level[LevelOf[n]] = "open"
    BY <2>1, AroundFacts, WalkIs DEF Coherent, WorksInOpen
  <2>3. level[Root] = "open"
    BY <2>1, <2>2, WorksInRoot, WalkIs
  <2> QED BY <2>3 DEF IInv, Ended
<1> QED BY <1>1, Invariance, PTL

(* Nobody ever waits for nothing: who waits has a level of its own that is *)
(* open.                                                                   *)
THEOREM GoingOnAlways == Spec => []Goes(Walk)
  BY InitGoes, NextGoes, Invariance, PTL DEF Spec

(* No plan stalls, with whatever levels broken: below an open level that   *)
(* is not over lies another, and in the innermost of them a lane can go on *)
(* (schedule, its slots and the levels its lanes wait for).                *)
THEOREM WalkGoesOnHolds == Spec => []WalkGoesOn
<1>1. IInv /\ Goes(Walk) => WalkGoesOn
  <2> SUFFICES ASSUME IInv, Goes(Walk), end = None, ~Over(Root),
                      \A n \in Node : /\ at[n] = "started" => Kind[n] = "router"
                                      /\ at[n] = "working" => Kind[n] # "leaf"
                                      /\ at[n] = "nested" => \A p \in Range(Nested[n]) : ~Over(p)
               PROVE  FALSE
    BY DEF WalkGoesOn
  <2> DEFINE S == {p \in Level : \A r \in Around[p] : level[r] = "open"}
  <2>1. Coherent(Walk) /\ Walk \in Walks /\ Root \in Level
    BY PlanAssumption DEF IInv, Sound, Coherent
  <2>2. level[Root] = "open"
    <3>1. level[Root] \in {"idle", "open", "over"} /\ Outcome(Root) \in {"ok"} \cup Thrown
      BY <2>1, OutcomeIs, WalkIs DEF Going, Walks
    <3> QED BY <3>1, NoneAssumption DEF IInv, Ended
  <2>3. ASSUME NEW p \in Level, level[p] = "open" PROVE Active(p, Walk) # {}
    <3>1. ~Over(p)
      <4>1. CASE p = Root
        BY <4>1
      <4>2. CASE p # Root
        <5>1. Owner[p] \in Node /\ at[Owner[p]] = "nested" /\ p \in Range(Nested[Owner[p]])
          BY <2>1, <2>3, <4>2, PlanFacts, WalkIs DEF Coherent, OpenIsOwned
        <5> QED BY <5>1
      <4> QED BY <4>1, <4>2
    <3> QED BY <2>3, <3>1 DEF Over
  <2>4. Root \in S
    <3>1. {Root} \in SUBSET Level /\ Root \in {Root} /\ \A r \in {Root} \ {Root} : LevelOf[Owner[r]] \in {Root}
      BY <2>1
    <3>2. Around[Root] \subseteq {Root}
      BY <2>1, <3>1, AroundFacts
    <3> QED BY <2>1, <2>2, <3>2
  <2>5. ASSUME NEW q \in S \ {Root} PROVE LevelOf[Owner[q]] \in S
    <3>1. /\ q \in Level \ {Root} /\ q \in Around[q] /\ Around[q] \in SUBSET Level
          /\ \A r \in Around[q] \ {Root} : LevelOf[Owner[r]] \in Around[q]
      BY AroundFacts
    <3>2. LevelOf[Owner[q]] \in Around[q] /\ LevelOf[Owner[q]] \in Level
      BY <3>1
    <3>3. Around[LevelOf[Owner[q]]] \subseteq Around[q]
      BY <3>1, <3>2, AroundFacts
    <3> QED BY <3>2, <3>3
  <2>6. ASSUME NEW p \in S PROVE \E q \in S \ {Root} : LevelOf[Owner[q]] = p
    <3>1. p \in Level /\ level[p] = "open"
      BY AroundFacts
    <3>2. PICK n \in In(p) : at[n] \in Working
      BY <2>3, <3>1, WalkIs DEF Active
    <3>3. n \in Node /\ LevelOf[n] = p
      BY <3>1, <3>2, PlanFacts
    <3>4. Attended(n, Walk) /\ Fit(n, Walk)
      BY <3>3 DEF Goes
    <3>5. at[n] = "nested"
      BY <3>2, <3>3, <3>4, WalkIs DEF Fit, Working
    <3>6. PICK q \in Level \ {Root} : Owner[q] = n /\ level[q] = "open"
      BY <3>4, <3>5, WalkIs DEF Attended
    <3> DEFINE T == {q} \cup Around[p]
    <3>7. T \in SUBSET Level /\ q \in T /\ \A r \in T \ {Root} : LevelOf[Owner[r]] \in T
      BY <3>1, <3>3, <3>6, AroundFacts
    <3>8. Around[q] \subseteq T
      <4> HIDE DEF T
      <4> QED BY <3>6, <3>7, AroundFacts
    <3>9. q \in S
      BY <3>6, <3>8
    <3> QED BY <3>3, <3>6, <3>9
  <2>7. S \in SUBSET Level
    OBVIOUS
  <2> HIDE DEF S
  <2> QED BY <2>4, <2>5, <2>6, <2>7, InnermostExists
<1> QED BY <1>1, Invariance, GoingOnAlways, PTL
=============================================================================
