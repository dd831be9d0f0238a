---------------------------- MODULE PlanInterpreter ----------------------------
(***************************************************************************)
(* The walk of ONE run's plan (dag-interpreter.ts, and the node semantics  *)
(* of base-plan-interpreter.ts): which nodes start, how failures travel,   *)
(* and how the run ends.                                                   *)
(*                                                                         *)
(* A plan is a tree of levels.  The root level holds the run's nodes; a    *)
(* node may own more: the branches of a parallel node, the body of a loop, *)
(* the error lane of a leaf.  Each level is walked by its own call of      *)
(* schedule, which starts nodes as lanes, a few at a time, and takes their *)
(* ends one by one.  Lanes of all levels run at once; a level joins a lane *)
(* in the step in which the lane ends.  What a leaf computes is left out:  *)
(* it succeeds, fails, or meets an error that is fatal to the run.  The    *)
(* lanes are plain promises (PlainDurableStep), which go on whether or not *)
(* somebody waits for them.                                                *)
(***************************************************************************)
EXTENDS Naturals, Sequences, FiniteSets, Functions, FiniteSetsExt

CONSTANTS
  Level,         \* the plan's levels
  Root,          \* the level the run starts with
  NodesOf,       \* per level, its nodes in topological order
  Node,          \* every node
  Kind,          \* per node: "leaf", "router", "parallel", "forEach" or "while"
  Guards,        \* per node, the outputs of other nodes it can be reached from
  Tolerant,      \* the leaves that continue on failure
  Nested,        \* per node, the levels it owns: branches, a body, an error lane
  Port,          \* the outputs of a router
  Concurrency,   \* how many nodes of one level run at once
  MaxSteps,      \* the run's limit on operations
  MaxRounds,     \* the run's limit on loop rounds
  MaxItems,      \* bound: items a forEach may find, rounds a while may go
  None

In(p) == Range(NodesOf[p])
LevelOf == [n \in Node |-> CHOOSE p \in Level : n \in In(p)]
Owner == [p \in Level \ {Root} |-> CHOOSE n \in Node : p \in Range(Nested[n])]

(* A node is in one level and a level has one owner, whose levels are told *)
(* apart; sources come before their targets; and levels lie in one another *)
(* without end but at the root: a plan is a tree.                          *)
ASSUME PlanAssumption ==
  /\ Root \in Level
  /\ \A p \in Level : NodesOf[p] \in Seq(Node) /\ IsInjective(NodesOf[p])
  /\ \A n \in Node : \E p \in Level : n \in In(p) /\ \A q \in Level \ {p} : n \notin In(q)
  /\ \A p \in Level \ {Root} :
       \E n \in Node : p \in Range(Nested[n]) /\ \A m \in Node \ {n} : p \notin Range(Nested[m])
  /\ \A p \in Level : \A i \in DOMAIN NodesOf[p] : \A g \in Guards[NodesOf[p][i]] :
       g.source \in In(p) => \E j \in 1..(i - 1) : NodesOf[p][j] = g.source
  /\ \A n \in Node :
       /\ Nested[n] \in Seq(Level \ {Root}) /\ IsInjective(Nested[n])
       /\ Kind[n] = "leaf" => Len(Nested[n]) <= 1
       /\ Kind[n] \in {"forEach", "while"} => Len(Nested[n]) = 1
  /\ \A S \in (SUBSET Level) \ {{}} : \E p \in S : p = Root \/ LevelOf[Owner[p]] \notin S

ASSUME FinitePlan ==
  /\ IsFiniteSet(Level)
  /\ Kind \in [Node -> {"leaf", "router", "parallel", "forEach", "while"}]

ASSUME BoundAssumption ==
  /\ Concurrency \in Nat \ {0} /\ MaxSteps \in Nat /\ MaxRounds \in Nat
  /\ MaxItems \in Nat \ {0}

VARIABLES
  at,         \* per node, where it is; a failed one is at what it threw
  port,       \* per router, the output it selected
  level,      \* per level, whether its walk has begun or is over
  halt,       \* per level, what its walk will throw, once it stops new work
  left,       \* per loop, the rounds it may still go
  steps,      \* operations charged to the run
  rounds,     \* loop rounds charged to the run
  cancelled,  \* whether the run has been cancelled
  fatalMet,   \* whether something in the run met a fatal error: kept for FatalEndsRun
  end         \* how the run ended

vars == <<at, port, level, halt, left, steps, rounds, cancelled, fatalMet, end>>

Fatal == {"fatal", "cancel"}
Thrown == {"error", "halt"} \cup Fatal   \* "halt" is ErrorLaneHalt
Working == {"started", "working", "nested"}
Settled == {"skipped", "ran"}

ASSUME NoneAssumption == None \notin Thrown \cup {"ok"} /\ None \notin Port

HasErrorLane(n) == Kind[n] = "leaf" /\ Nested[n] # <<>> /\ NodesOf[Nested[n][1]] # <<>>

-----------------------------------------------------------------------------
(* pump: while a slot is free, take the first node all of whose sources in *)
(* this level have settled.  One no live guard reaches is skipped, a       *)
(* router settles at once, any other starts.  A guard on a node of another *)
(* level is dead, and nothing waits for it.  A router whose condition      *)
(* cannot be resolved (it names a step that has not run, or embeds a file) *)
(* throws, out of pump and of schedule, which nobody waits to drain: the   *)
(* level has broken, and the lanes it had go on by themselves.             *)

inPlanSources == [n \in Node |-> {g.source : g \in Guards[n]} \cap In(LevelOf[n])]

guardLive(n, g, w) ==
  /\ g.source \in In(LevelOf[n])
  /\ w.at[g.source] = "ran"
  /\ Kind[g.source] = "router" => w.port[g.source] = g.port

isLive(n, w) == Guards[n] = {} \/ \E g \in Guards[n] : guardLive(n, g, w)

\* Mutant: a guard on another level's node is waited for.
readyWithExternal(p, w) ==
  {i \in DOMAIN NodesOf[p] :
     LET n == NodesOf[p][i]
     IN  /\ w.at[n] = "pending"
         /\ \A g \in Guards[n] : g.source \in In(p) /\ w.at[g.source] \in Settled}

ready(p, w) ==
  {i \in DOMAIN NodesOf[p] :
     LET n == NodesOf[p][i]
     IN  w.at[n] = "pending" /\ \A s \in inPlanSources[n] : w.at[s] \in Settled}

\* Mutant: one bound on the whole run, which a node holds while its own levels wait.
ActiveAnywhere(p, w) == {n \in Node : w.at[n] \in Working}

Active(p, w) == {n \in In(p) : w.at[n] \in Working}

Broke(p, w) == \E n \in In(p) : Kind[n] = "router" /\ w.at[n] = "error"

launch(n, w, pick) ==
  IF ~isLive(n, w) THEN [w EXCEPT !.at[n] = "skipped"]
  ELSE IF Kind[n] # "router" THEN [w EXCEPT !.at[n] = "started"]
  ELSE IF pick[n] = None THEN [w EXCEPT !.at[n] = "error", !.halt[LevelOf[n]] = "error"]
  ELSE [w EXCEPT !.at[n] = "ran", !.port[n] = pick[n]]

pumpOnce(p, w, pick) ==
  IF w.halt[p] = None /\ Cardinality(Active(p, w)) < Concurrency /\ ready(p, w) # {}
  THEN launch(NodesOf[p][Min(ready(p, w))], w, pick)
  ELSE w

\* (Each turn is picked out of a set of one, so that TLC evaluates it once.)
pump(p, w, pick) ==
  LET after[k \in Nat] ==
        IF k = 0 THEN w
        ELSE CHOOSE u \in {pumpOnce(p, v, pick) : v \in {after[k - 1]}} : TRUE
  IN  after[Len(NodesOf[p])]

\* What the routers select, or None where one throws.
Picks == [{n \in Node : Kind[n] = "router"} -> Port \cup {None}]
Walk == [at |-> at, port |-> port, level |-> level, halt |-> halt]
Becomes(w) == at' = w.at /\ port' = w.port /\ level' = w.level /\ halt' = w.halt

(* A level's walk begins, with nothing of an earlier round.                *)
schedule(p, w, pick) ==
  pump(p, [at |-> [n \in Node |-> IF n \in In(p) THEN "pending" ELSE w.at[n]],
           port |-> w.port,
           level |-> [q \in Level |-> IF q = p THEN "open"
                                      ELSE IF q # Root /\ Owner[q] \in In(p) THEN "idle"
                                      ELSE w.level[q]],
           halt |-> [w.halt EXCEPT ![p] = None]], pick)

(* A lane ends: its level takes the outcome, unless it has broken.  The    *)
(* first failure stops new work there, and the first fatal one is what the *)
(* level will throw.                                                       *)
haltError(thrown, o) ==
  IF thrown = None \/ (o \in Fatal /\ thrown \notin Fatal) THEN o ELSE thrown

laneEnds(n, o, w, pick) ==
  LET p == LevelOf[n]
  IN  IF o = "ok" THEN pump(p, [w EXCEPT !.at[n] = "ran"], pick)
      ELSE [w EXCEPT !.at[n] = o, !.halt[p] = IF Broke(p, w) THEN @ ELSE haltError(@, o)]

-----------------------------------------------------------------------------
Init ==
  /\ \E pick \in Picks :
       LET w == schedule(Root, [at |-> [n \in Node |-> "pending"],
                                port |-> [n \in DOMAIN pick |-> None],
                                level |-> [p \in Level |-> "idle"],
                                halt |-> [p \in Level |-> None]], pick)
       IN  at = w.at /\ port = w.port /\ level = w.level /\ halt = w.halt
  /\ left = [n \in Node |-> 0]
  /\ steps = 0 /\ rounds = 0
  /\ cancelled = FALSE /\ fatalMet = FALSE /\ end = None

(* A leaf's operation is charged inside its own body; a cancelled run      *)
(* issues none, and one past its steps is refused, fatally.                *)
charge(n) ==
  /\ Kind[n] = "leaf" /\ at[n] = "started"
  /\ IF ~cancelled /\ steps < MaxSteps
     THEN /\ steps' = steps + 1
          /\ Becomes([Walk EXCEPT !.at[n] = "working"])
     ELSE /\ \E pick \in Picks : Becomes(laneEnds(n, IF cancelled THEN "cancel" ELSE "fatal", Walk, pick))
          /\ UNCHANGED steps
  /\ fatalMet' = (fatalMet \/ steps' = steps)
  /\ UNCHANGED <<left, rounds, cancelled, end>>

leafReturns(n) ==
  /\ Kind[n] = "leaf" /\ at[n] = "working"
  /\ \E pick \in Picks : Becomes(laneEnds(n, "ok", Walk, pick))
  /\ UNCHANGED <<left, steps, rounds, cancelled, fatalMet, end>>

(* executeLeaf's failure policy: a fatal error and a cancel go through; an *)
(* error lane wins over continue-on-fail; any other failure is the node's. *)
\* Mutant: an error lane takes over whatever was thrown.
absorbed(n, o, pick) ==
  IF HasErrorLane(n) THEN schedule(Nested[n][1], [Walk EXCEPT !.at[n] = "nested"], pick)
  ELSE IF n \in Tolerant THEN laneEnds(n, "ok", Walk, pick)
  ELSE laneEnds(n, o, Walk, pick)

handled(n, o, pick) ==
  IF o \in Fatal THEN laneEnds(n, o, Walk, pick)
  ELSE IF HasErrorLane(n) THEN schedule(Nested[n][1], [Walk EXCEPT !.at[n] = "nested"], pick)
  ELSE IF n \in Tolerant THEN laneEnds(n, "ok", Walk, pick)
  ELSE laneEnds(n, o, Walk, pick)

leafThrows(n, o) ==
  /\ Kind[n] = "leaf" /\ at[n] = "working"
  /\ \E pick \in Picks : Becomes(handled(n, IF o # "fatal" /\ cancelled THEN "cancel" ELSE o, pick))
  /\ fatalMet' = (fatalMet \/ o = "fatal" \/ cancelled)
  /\ UNCHANGED <<left, steps, rounds, cancelled, end>>

(* Every branch of a parallel node begins at once; with no branches there  *)
(* is nothing to wait for.                                                 *)
forked(n, pick) ==
  LET begun[i \in 0..Len(Nested[n])] ==
        IF i = 0 THEN [Walk EXCEPT !.at[n] = "nested"]
        ELSE schedule(Nested[n][i], begun[i - 1], pick)
  IN  begun[Len(Nested[n])]

\* Mutant: the node waits for branches it does not have.
forkWaits(n) ==
  /\ Kind[n] = "parallel" /\ at[n] = "started"
  /\ \E pick \in Picks : Becomes(forked(n, pick))
  /\ UNCHANGED <<left, steps, rounds, cancelled, fatalMet, end>>

fork(n) ==
  /\ Kind[n] = "parallel" /\ at[n] = "started"
  /\ \E pick \in Picks : Becomes(IF Nested[n] = <<>> THEN laneEnds(n, "ok", Walk, pick) ELSE forked(n, pick))
  /\ UNCHANGED <<left, steps, rounds, cancelled, fatalMet, end>>

LimitReached(n, w, pick) ==
  Becomes(laneEnds(n, "fatal", w, pick)) /\ fatalMet' = TRUE /\ UNCHANGED <<left, rounds>>

(* A forEach charges all its items before its first, or fails, when what   *)
(* it was to go over is no list; a while charges each round as it begins.  *)
(* Past the run's rounds, both end it.                                     *)
beginForEach(n) ==
  /\ Kind[n] = "forEach" /\ at[n] = "started"
  /\ \E items \in 0..MaxItems, pick \in Picks :
       \/ items > MaxRounds - rounds /\ LimitReached(n, Walk, pick)
       \/ /\ items <= MaxRounds - rounds
          /\ rounds' = rounds + items
          /\ UNCHANGED fatalMet
          /\ IF items = 0 THEN Becomes(laneEnds(n, "ok", Walk, pick)) /\ UNCHANGED left
             ELSE /\ Becomes(schedule(Nested[n][1], [Walk EXCEPT !.at[n] = "nested"], pick))
                  /\ left' = [left EXCEPT ![n] = items - 1]
       \/ Becomes(laneEnds(n, "error", Walk, pick)) /\ UNCHANGED <<left, rounds, fatalMet>>
  /\ UNCHANGED <<steps, cancelled, end>>

whileRound(n, more, w, pick) ==
  IF rounds >= MaxRounds
  THEN LimitReached(n, w, pick)
  ELSE /\ rounds' = rounds + 1
       /\ UNCHANGED fatalMet
       /\ left' = [left EXCEPT ![n] = more - 1]
       /\ Becomes(schedule(Nested[n][1], [w EXCEPT !.at[n] = "nested"], pick))

beginWhile(n) ==
  /\ Kind[n] = "while" /\ at[n] = "started"
  /\ \E pick \in Picks : whileRound(n, MaxItems, Walk, pick)
  /\ UNCHANGED <<steps, cancelled, end>>

-----------------------------------------------------------------------------
(* A level's walk is over once nothing it started still runs, or once it   *)
(* has broken, whatever runs; what owns it goes on from there.             *)

Over(p) == level[p] = "open" /\ (Active(p, Walk) = {} \/ Broke(p, Walk))
Outcome(p) == IF halt[p] = None THEN "ok" ELSE halt[p]
Closed(p) == [Walk EXCEPT !.level[p] = "over"]

runEnds ==
  /\ Over(Root)
  /\ end' = Outcome(Root)
  /\ Becomes(Closed(Root))
  /\ UNCHANGED <<left, steps, rounds, cancelled, fatalMet>>

\* Mutant: the main path goes on after its error lane.
laneThenMain(o) == o

\* An error lane that ran replaces the rest of the run; one that threw throws on.
laneOutcome(o) == IF o = "ok" THEN "halt" ELSE o

errorLaneEnds(n) ==
  /\ HasErrorLane(n) /\ at[n] = "nested"
  /\ LET p == Nested[n][1]
     IN  /\ Over(p)
         /\ \E pick \in Picks : Becomes(laneEnds(n, laneOutcome(Outcome(p)), Closed(p), pick))
  /\ UNCHANGED <<left, steps, rounds, cancelled, fatalMet, end>>

\* Of several failed branches a fatal one counts, else the first in their order.
branchesOutcome(n) ==
  LET outcomes == [i \in DOMAIN Nested[n] |-> Outcome(Nested[n][i])]
      failed == {i \in DOMAIN outcomes : outcomes[i] # "ok"}
      fatal == {i \in failed : outcomes[i] \in Fatal}
  IN  IF failed = {} THEN "ok" ELSE outcomes[Min(IF fatal # {} THEN fatal ELSE failed)]

\* Mutant: a parallel node ends with the first of its branches to fail.
someFailed(n, p) == halt[p] # None \/ \A q \in Range(Nested[n]) \ {p} : level[q] = "over"

allOver(n, p) == \A q \in Range(Nested[n]) \ {p} : level[q] = "over"

branchEnds(n, p) ==
  /\ Kind[n] = "parallel" /\ at[n] = "nested"
  /\ p \in Range(Nested[n]) /\ Over(p)
  /\ IF allOver(n, p)
     THEN \E pick \in Picks : Becomes(laneEnds(n, branchesOutcome(n), Closed(p), pick))
     ELSE Becomes(Closed(p))
  /\ UNCHANGED <<left, steps, rounds, cancelled, fatalMet, end>>

(* A while goes on, stops, or fails where its condition does not resolve.  *)
loopRoundEnds(n) ==
  /\ Kind[n] \in {"forEach", "while"} /\ at[n] = "nested"
  /\ LET p == Nested[n][1]
     IN  /\ Over(p)
         /\ \E pick \in Picks :
              \/ /\ halt[p] # None \/ left[n] = 0 \/ Kind[n] = "while"
                 /\ Becomes(laneEnds(n, Outcome(p), Closed(p), pick))
                 /\ UNCHANGED <<left, rounds, fatalMet>>
              \/ /\ halt[p] = None /\ Kind[n] = "while"
                 /\ Becomes(laneEnds(n, "error", Closed(p), pick))
                 /\ UNCHANGED <<left, rounds, fatalMet>>
              \/ /\ halt[p] = None /\ left[n] > 0
                 /\ IF Kind[n] = "while" THEN whileRound(n, left[n], Closed(p), pick)
                    ELSE /\ left' = [left EXCEPT ![n] = @ - 1]
                         /\ Becomes(schedule(p, Walk, pick))
                         /\ UNCHANGED <<rounds, fatalMet>>
  /\ UNCHANGED <<steps, cancelled, end>>

cancel ==
  /\ end = None /\ ~cancelled
  /\ cancelled' = TRUE
  /\ UNCHANGED <<at, port, level, halt, left, steps, rounds, fatalMet, end>>

-----------------------------------------------------------------------------
Begin(n) == charge(n) \/ fork(n) \/ beginForEach(n) \/ beginWhile(n)
Return(n) == leafReturns(n) \/ \E o \in {"error", "fatal"} : leafThrows(n, o)
Close(n) == errorLaneEnds(n) \/ loopRoundEnds(n) \/ \E p \in Level : branchEnds(n, p)

Next ==
  \/ \E n \in Node : Begin(n) \/ Return(n) \/ Close(n)
  \/ runEnds
  \/ cancel

Spec == Init /\ [][Next]_vars

(* Every lane is taken on, every call to a provider returns or fails, and  *)
(* nobody must cancel.                                                     *)
Fairness ==
  /\ \A n \in Node : WF_vars(Begin(n)) /\ WF_vars(Return(n)) /\ WF_vars(Close(n))
  /\ WF_vars(runEnds)

FairSpec == Spec /\ Fairness

-----------------------------------------------------------------------------
(* Properties.                                                             *)

(* Types, the run's limits among them: no interleaving of lanes charges    *)
(* more than MaxSteps operations or MaxRounds rounds (run-meter.ts).       *)
TypeOK ==
  /\ at \in [Node -> {"pending"} \cup Settled \cup Working \cup Thrown]
  /\ port \in [{n \in Node : Kind[n] = "router"} -> Port \cup {None}]
  /\ level \in [Level -> {"idle", "open", "over"}]
  /\ halt \in [Level -> {None} \cup Thrown]
  /\ left \in [Node -> 0..MaxItems]
  /\ steps \in 0..MaxSteps /\ rounds \in 0..MaxRounds
  /\ cancelled \in BOOLEAN /\ fatalMet \in BOOLEAN
  /\ end \in {None, "ok"} \cup Thrown

(* Whatever order its lanes end in, a level never runs ahead of itself: a  *)
(* node has left pending only behind all its sources of that level, and    *)
(* what they came to still lets it in, or still does not if it was skipped *)
(* (pump).  And a level nothing stopped leaves no node over: it has run    *)
(* exactly the nodes a live path reaches.                                  *)
RoutedNodesRun ==
  /\ \A n \in Node : at[n] # "pending" =>
       /\ \A s \in inPlanSources[n] : at[s] \in Settled
       /\ at[n] = "skipped" <=> ~isLive(n, Walk)
  /\ \A p \in Level : level[p] = "over" /\ halt[p] = None =>
       \A n \in In(p) : at[n] = (IF isLive(n, Walk) THEN "ran" ELSE "skipped")

(* The walk never stalls: until the run has ended, some lane is about to   *)
(* begin or hears from its provider, or what it waits for is over, however *)
(* few slots each level has and however deep the levels lie.               *)
WalkGoesOn ==
  end = None =>
    \/ Over(Root)
    \/ \E n \in Node :
         \/ at[n] = "started" /\ Kind[n] # "router"
         \/ at[n] = "working" /\ Kind[n] = "leaf"
         \/ at[n] = "nested" /\ \E p \in Range(Nested[n]) : Over(p)

(* A node whose error lane ran never goes on along its main path: it does  *)
(* not count as run, and nothing it leads to has begun (domain invariant   *)
(* 12, never both lanes).                                                  *)
NeverBothLanes ==
  \A n \in Node : HasErrorLane(n) /\ level[Nested[n][1]] # "idle" =>
    /\ at[n] # "ran"
    /\ \A m \in Node : n \in inPlanSources[m] => at[m] = "pending"

(* A fatal error is never absorbed: however deep it was met, and whatever  *)
(* error lane or failure ended first beside it, the run ends by one.  Only *)
(* where a level broke can one be lost, met by a lane nobody waits for.    *)
FatalEndsRun ==
  end # None /\ fatalMet => end \in Fatal \/ \E p \in Level : Broke(p, Walk)

\* The levels a level lies in, itself among them.
Around ==
  [p \in Level |->
     {q \in Level : \A S \in SUBSET Level :
        p \in S /\ (\A r \in S \ {Root} : LevelOf[Owner[r]] \in S) => q \in S}]

(* A run has ended only when none of its nodes still runs, however its     *)
(* levels were unwound, but for those inside a level that broke.           *)
NothingOutlivesRun ==
  end # None => \A n \in Node : at[n] \in Working => \E p \in Around[LevelOf[n]] : Broke(p, Walk)

(* Every run ends, with guards no node can settle and at any limit.        *)
RunEnds == <>(end # None)
=============================================================================
