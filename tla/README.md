# Sarati: a verification development

Sarati is a workflow-automation platform: people and agents author workflows
(documents of nodes and edges), version them on branches, review and merge them,
promote them to environments, and run them durably on Postgres and DBOS. This
directory holds TLA+ models of its core, the TLC runs that check them, and proofs.

Paths below are relative to `src/apps/service/src/` unless they begin with `src/`.

## 1. Inventory

| component | state it keeps | operations | hard behaviour | correct when |
|---|---|---|---|---|
| version store (`workflows/versions-write`, `branch`, `merge-orchestration`) | versions, branches, `latest` tags | commit, patch layout, roll back, create / protect / delete branch, merge, merge and clean up | transactions interleave; a rollback reads before it locks; merge bases over two parents; a deleted branch's versions live on | branches are lines, nothing minted is lost, `latest` floats, heads only advance, merges bring news |
| diff and merge (`ir/diff.ts`, `ir/merge.ts`) | none | computeDiff, applyDiff, threeWayMerge | add/add, edit/delete, paths, edges and their lanes | what one side changed lands, what both changed is asked |
| reviews and merge gates (`reviews/`) | reviews, decisions, test results | open, decide, test, merge, close | a decision or a test racing a commit or a merge; results stored out of order | a protected branch takes only what was approved and tested as it is |
| durable run and its waits (`runs/`, `runtime/run-recorder`, `dbos/dbos-runtime`) | the run's row, its steps' rows; DBOS messages and records | lanes park and resume; decide, resend, cancel, stop, reap | two stores, crash and replay, lost history writes, racing deciders, timeouts | one decision per wait, credited to who made it; ends are final; every run ends |
| run sequencer (`dbos/run-sequencer.ts`) | turns, operations in flight, recorded settle order | spawn, join, step, wait, quiesce | concurrent lanes replayed by DBOS function id | a replay issues the same operation at every function id |
| plan interpreter (`runtime/dag-interpreter.ts`, `base-plan-interpreter.ts`, `run-meter.ts`) | a run's scope and trace | route, start, join; branches, loops, error lanes | lanes of several levels end in any order; failures, limits and cancels meet | what a live path reaches runs once, a fatal error ends the run, nothing outlives it |
| admission and limits (`runs/runs.service.ts`, `runtime/run-recorder`) | runs counted by workspace, the workflows DBOS holds | admit, re-arm, refuse, reap | a process dies between the row and the save; one id sent again by several callers | caps are never passed, no admitted run is lost, every place is freed |
| triggers (`triggers/`) | activation rows and stores, retired webhooks, webhooks at the apps | stand up, tear down, poll, reconcile, retry deletes | calls that fail, hang or are answered late; reconcile against poll; crashes | exactly the declared triggers fire, each event once |
| webhook delete fence (`triggers/canvas/webhook-delete-fence.ts`) | deletes and stand-ups under way in the process | deleting, standUp | a late delete of a handle just handed out again | no live webhook is taken down |
| recovery guard (`dbos/recovery-guard.ts`) | none of its own | admit a recovered legacy run | runs of an older engine | a run is resumed only where a replay is safe |
| environments (`environments/`, `workflows/env-pointers`) | pointers from environments to versions | set, remove, promote, rename, delete | pointers against deleted branches and renamed environments | what runs is what was promoted |
| idempotency keys (`common/idempotency.interceptor.ts`) | keys | reserve, settle, release, expire | duplicates in flight, a lost settle | a key's request runs once |
| organizations (`orgs/`) | members, invites | invite, accept, leave, delete | deletes against writes below the org | an org keeps an owner |
| connections, auth, API keys, MCP | accounts, keys, consents | checks and single-row writes | provider failures | left aside (see 14) |
| composer agent, web client, docs, installer | none the service relies on | | | left aside |

How they meet: a run executes a version that an environment's pointer or a branch head
names; a merge goes through the version store after the review gate; triggers and the
MCP endpoint admit runs; a run's waits are decided over HTTP. They share one Postgres
database. DBOS keeps its own tables, written outside the service's transactions, and that
is why a run's history and its workflow can disagree.

## 2. Modules

| module | of | abstract specification | instance | proofs |
|---|---|---|---|---|
| `VersionHistory` | version store | `BranchLines` | `MCVersionHistory` | `VersionHistoryProofs` |
| `ReviewGate`, extending `VersionHistory` | reviews and merge gates | `VersionHistory` | `MCReviewGate` | `ReviewGateProofs` |
| `ThreeWayMerge` | diff and merge | a reference merge, in the module | `MCThreeWayMerge` | `ThreeWayMergeProofs` |
| `RunWaits` | durable run, waits, decisions | | `MCRunWaits` | `RunWaitsProofs` |
| `RunSequencer` | run sequencer | `OperationLog` | `MCRunSequencer` | `RunSequencerProofs` |
| `PlanInterpreter` | the walk of a plan | | `MCPlanInterpreter` | `PlanInterpreterProofs` |
| `RunAdmission` | admission, start, reaper | | `MCRunAdmission` | `RunAdmissionProofs` |
| `TriggerReconcile` | triggers, delete fence | | `MCTriggerReconcile` | `TriggerReconcileProofs` |

The order of work was: what is hardest to undo first (versions), then what runs them, then
what starts runs. Left for later: environments' pointers against branch deletion, and
idempotency keys.

There are twelve runs, all that was asked of the models in one question each:

| run | bounds | states | result |
|---|---|---|---|
| `VersionHistory_store` | 5 versions, 3 branch ids over 2 names, 1 rollback in flight, 3 values | 73 thousand, up to symmetry | holds |
| `ReviewGate_gate` | 4 versions, 1 review, 2 decisions, 2 tests under way | 461 thousand | holds |
| `ThreeWayMerge_merge` | every triple of 58 documents of up to 2 nodes, every resolution | 619 thousand | holds |
| `RunWaits_run` | 1 wait, 2 deciders; 1 crash, 1 lost write, 1 failed send | 624 thousand | holds |
| `RunSequencer_replay` | 3 lanes, 2 crashes | 864 thousand | holds |
| `PlanInterpreter_walk` | 13 nodes in 7 levels, 2 at once in a level, 6 steps, 3 rounds | 112 thousand | holds |
| `RunAdmission_admit` | 2 runs, 2 callers, 1 place, 1 fault | 161 thousand | holds |
| `TriggerReconcile_reconcile` | 2 nodes, 5 set-ups, 6 versions; 3 moves, 1 failure, 1 crash, 2 events | 1.7 million | holds |
| `RunWaits_handed`, `RunWaits_reaped` | 1 wait, 1 or 2 deciders | | violated |
| `TriggerReconcile_outage` | 1 node, 2 set-ups of one app, 1 failure | | violated |
| `RunAdmission_refused` | 2 runs, 2 callers, 1 fault | | violated |

Type invariants are proved (section 12) and not run again; that no interleaving passes a run's
limits is part of `PlanInterpreter`'s.

## 3. Version store: `VersionHistory`, `BranchLines`

**Correspondence.** `ver` holds `workflow_versions` rows, `branches` holds
`workflow_branches` rows, `latest` the `latest` rows of `workflow_version_tags`. `used`
only keeps branch ids from being given out twice (they are UUIDs). `restoring` is the
version a rollback request has read and not yet written.

Each operation is one action because it is one transaction that locks the workflow's row
and the branches it writes before reading them (`lockBranches`). `rollback` is two:
`findVersion` runs before the transaction begins. The action's guard is the code's refusals;
an operation the code refuses is one that changes nothing.

| action | code |
|---|---|
| `Init` | `createDraft` (headless default branch, then v1) or `deployCreateOnSarati` (all at once) |
| `commit` | `VersionsWriteService.commit`, `insertVersion` |
| `patchLayout` | `patchLayout` |
| `readRollbackTarget`, `rollback` | `rollback` before and inside its transaction |
| `createBranch`, `setProtection`, `deleteBranch` | `BranchService` |
| `mergeBranchIn` | `mergeBranchIn`, through a review or not, cleaned up or not |
| `mergeAndCleanup` | `mergeAndCleanup` when it deletes the source |

**Data.** A document is a function from fields to values. A field is one key of
`computeDiff`; a conflict is a field both sides changed differently; the resolver may
choose any value. `historyContains` and `wasHeadOf` are the recursive SQL queries, written
as membership in every closed set so that proofs can use them without recursion.
`lowestCommonAncestor` returns all lowest common ancestors; the code takes the first its
breadth-first walk meets, and the model any.

**Abstracted.** The approval and test gate of a protected target (a protected target can
merge here whenever it has no conflict, a superset of the code); author, message, events;
workflow deletion; the publish pointer; author-time validation (`commit` may take any
document). `restored` records what a rollback brought back: in the code it is only
in the commit message.

**Properties.** `NothingLost` (every version a branch minted stays on its head's line),
`LatestFloats`, `RollbackStaysOnLine`, `MergesBringNews` are invariants; `HeadOnlyAdvances`
and `UpToDateMergeTakesSource` are action properties; `ImplementsLines` is the refinement.

**Abstract specification.** `BranchLines` says what a branch is to its users: a line
that starts at a fork point and grows at its end, with `latest` at the end. The mapping
reads a branch's line off its own versions in the order of their numbers, so that a repeated
or a skipped number breaks it.

**Bounds.** Five versions are the fewest for a merge one way, a change on each side and a
merge back (a base through a merge parent); three branch ids over two names are the fewest
for a branch recreated under its name beside the default one. `SmallUnlessPlain` keeps the
fourth and fifth version for plain merges between two branches. Values are interchangeable,
and so are branch ids other than the default's: the symmetry sets say so.

**Known divergences, seen while modelling and not run.**
*Layout.* `patchLayout` rewrites the branch's own highest version in place. If another
branch forked there, their merge base now holds a layout neither started from. The other
branch, which touched nothing, then differs from the base in `position`, so a merge
restores the old layout or reports a conflict.
*Unrelated.* A branch made while the default branch had no head shares no version with it
later. `mergeBranchIn` then takes the target for the ancestor, so nothing the target
holds counts as a change, and the source's document lands whole, where
`src/docs/src/content/docs/version-control/conflicts.md` promises a conflict for a step both
added.

## 4. Run and waits: `RunWaits`

One durable run with `Wait` steps, each a lane of its own, and everyone who may end its
waits. `run` and `steps` are the rows of `runtime_runs` and `runtime_run_steps`;
`inbox`, `taken` and `workflow` are DBOS's; `engine` and `lane` are the process's memory,
lost in a crash; `ending` is the holder of the run's lock between telling DBOS and
writing the row; `request` and `resending` are HTTP requests and resends under way.

An action is one awaited database or DBOS call, with the reads that happen under the same
lock. `Unlocked` guards every write that takes the run's lock.

| actions | code |
|---|---|
| `begin`, `park`, `receive`, `resume`, `stepFinished`, `settle`, `interrupt` | one lane: `recorded`, `executeWaitForEvent`, `parkHooks`, the row gate, `RunRecorderService` |
| `finishRun`, `clearWaits`, `recordEnd` | the interpreter's end, `runFinished` / `runUnwoundByCancel`, DBOS's record |
| `recover` | DBOS recovery, `runPlan`'s `admit` |
| `ask`, `takeWaits`, `deliver`, `sendFails`, `unclaimWaits` | `RunsService.sendEvent` |
| `resendClaims`, `resend` | `ClaimResender`, and the copy a refused duplicate sends |
| `cancelWorkflow`, `endRun` | `endRun`, for a cancel or a limit's stop |
| `reap...` | the passes of `RunReaperService` |
| `pass`, `crash`, `restart` | clocks and the process |

**Faults.** A history write that fails is logged and skipped by the code (`write`), and so
is `LoseWrite` here; a send may fail cleanly; the process may die between any two
actions. Bounds: `MaxCrashes`, `MaxLost`, `MaxFailedSends`. A lost `endRun` write is a
transaction that does not commit after DBOS was told.

**Time.** A wait's deadline is `open`, within the two-second `margin` in which no decision
is accepted, or `past`. How long a claim or a run must stand before a pass takes it up is
left open, except that the passes that wait a whole `RUN_MAX_DURATION` after a deadline
or an end find no live lane (`NoLaneLive`).

**Properties.** `ParkedRunWaits`: a run with a wait still parked reads `waiting`.
`OneDecisionPerWait`: while every send arrives and at most two history writes are lost, the
decision taken is the one claimed and nobody else is told theirs was accepted. `TakenDecisionIsCredited`: with at most one lost
write, whoever made a taken decision is credited once its lane is over. `EndIsFinal`: a
cancel, a limit's stop and a completion are never rewritten. `RunEnds` and
`ClaimsAreSettled` are liveness. The conditions name what the code cannot survive:
a failed send (the finding below), and lost writes beyond a number. One lost resume is
repaired by `stepFinished`, but only if its own writes arrive. With three lost (the wait's
resume, its finish and the run's end), the end of the run clears the claim of a step that
still reads as parked; a crash then replays it, parks it anew, and somebody else can claim
what the run has already taken.

`RunWaits_run` checks all of them with one wait and two deciders, which are enough for a
race (a third would only be refused as the second is). Its four safety properties are
proved for any number of waits, deciders and faults (12). All state counts are finite
without a depth bound.

**Fairness.** `FairSpec` assumes only what the service's scheduling gives: a process that
is up takes each lane, request and recovery on (the event loop), its timers run the
resender and every pass of the reaper, a process that died is started again (the
container's restart policy), and clocks go on. Nobody must decide, cancel or fail, and
no strong fairness is needed.

**What the violations show.**
*Handed.* Alice claims a wait; while her send is under way Bob tries, is refused as
already decided, and his refusal sends Alice's decision again. Alice's own send fails, so
her handler frees the wait. Somebody else claims it; their send is dropped, because the
idempotency key of the wait was used; the run takes Alice's decision and its step credits
the other. TLC finds it through the resender, the shorter way.
*Reaped.* A wait times out; before its lane has written the resume, the lapsed-wait pass
finds the row parked past its deadline and ends the run in error. The lane goes on, steps
after the wait run, and the run is recorded as completed.

**Abstracted.** Lanes interleave freely, as in the legacy engine; the sequenced engine's
turns allow fewer orders. A step other than a wait fails only once the waits are done.
Left out: dry runs and runs without DBOS, timers, called runs, receives that several
waits share, decisions without a payload, the run's own `decided_by` slot, the row
gate's reading failing, and the boot pass that ends runs DBOS does not hold. `RunEnds`
assumes that runs have a maximum duration: `RUN_MAX_DURATION_SECONDS` at 0 turns
off every pass modelled here.

## 5. Reviews and merge gates: `ReviewGate`

`reviews`, `approvals` and `tests` are tables; `deciding` is a decision whose transaction
holds its review and has read the source's head; `testing` a test between the reading of its
two heads and the storing of its result; `clock` orders the tests' ends.

| actions | code |
|---|---|
| `createReview`, `closeReview` | `ReviewsService` |
| `readHead`, `submitApproval` | `submitApproval`, at its unlocked read of the head and at its commit |
| `mergeReview`, `mergeFromBranches`, `updateFrom` | `mergeReview`, `mergeAndCleanup`, `updateFrom`, each with the gate of `mergeBranchIn` and the reviews it resolves |
| `deleteBranchAndReviews` | `deleteBranch`, with the cascade of the foreign keys |
| `testBranch`, `testEnds`, `testCancelled`, `storeTest` | `ReviewTestService` |
| `VersionsOnly` | the version store's own operations |

`GateImplementsVersions` says that reviews only restrict the version store: each of these
steps is one of its operations, or none. The other properties are about the protected branch
(`ProtectedTakesApproved`, `FailedTestBlocks`) and about what a review shows
(`LastTestIsNewest`, `MergedReviewLanded`).

**Abstracted.** A test's two heads are read together, where the code reads them one after
the other. Layout patches and rollbacks are left out of the composition (they are in
`VersionHistory`), and so are who may decide, a change of one's own decision, decisions from before
versions were recorded, comments, events and the merge preview. **Bounds**: `MaxDecisions`,
`MaxTests`, `Protectable`, and `SmallWhileTested`, which keeps the fourth version and the
second decision for behaviours without tests.

## 6. Structured merge: `ThreeWayMerge`

A document has nodes with a name and parameters, edges with lanes, and settings. The name
stands for every field compared whole, the settings for any one of them; a parameter is a
scalar or a record one level deep, enough for paths that lie above one another; no scalar is a
record. `computeDiff`, `applyDiff`, `keyOf`, the conflicts and the resolutions are translated;
the state machine only takes a triple of documents through them. `MergeIsThreeWay` compares the
clean merge, and the conflicts asked, with a reference merge stated field by field;
`ResolvedAsChosen` does so for every legal set of resolutions.

**Paths.** The code joins a parameter's keys with dots (`diffDicts`) and splits the path again
(`setNested`). A path here is what the splitting gives, so that a key with a dot of its own
(`Dotted`) is written where it splits to (`SplitAt`), as in the code. Such a key is a parameter
whose value is a leaf, and splits in two; keys inside records have no dots.

Four cases are excepted by name, because the code does not see them: `OverlappingPaths` (a
value changed whole on one side and below on the other is no conflict, and one change is
lost), `StrandedEdge` (an edge that one side added to a node the other removed), `DottedChange`
(a parameter whose key has a dot is changed) and, of `ResolvedAsChosen`, a conflict about the
settings. Left out: order of nodes, positions, credentials, type versions, renames of a record's
keys; a document's name, description and metadata, which the diff does not compare.

**Known divergences, in the model and excepted from its properties.**
*Dotted.* A node has a parameter `p.k`, which the source alone changes. The clean merge writes
the new value under `k` in a record `p` and leaves `p.k` as it was: the change is lost and a
parameter appears that nobody wrote, where `conflicts.md` says that different fields of one step
merge cleanly.
*Settings.* Both sides change the settings and the merge asks. The answer is taken
(`assertLegalChoice`), but `applyFieldResolution` (`merge.ts:302`) looks for a node called
`settings` and returns: the merged document has the ancestor's settings, whatever was chosen.

## 7. Run sequencer: `RunSequencer`, `OperationLog`

An action is what the sequencer does between two awaits. `lanes`, `turn`, `runnable`,
`inFlight`, `quiesce` and `poison` are its fields; `issued` and `log` are DBOS's: what this
execution has asked for, by function id, and what is on record. A crash loses everything but
the log. Lane code is the constant operator `Code`: any deterministic program of spawns,
steps, waits (by names from `Key`) and joins; a lane is spawned once. The instance has two
branches, one waiting, one not, whose order decides what the root does next.

`OperationLog` is the promise: one history of operations, which every execution walks from its
beginning, and which only an execution that has walked all of it extends.
`ImplementsLog` is the refinement, `NeverDiverges` says that no run is failed because what it
issues is not what its history holds. `SettledIsHanded` is about a failing run: what DBOS has recorded still reaches
its lane. `NobodyForgotten` says that no wake-up is lost: a lane that waits is where its
wake-up will come from, nobody joins a lane that has ended, and somebody grants a turn
nobody holds or watches what is in flight. It is what `RunEnds` rests on: with it, a run that
has not ended has a step left, and fairness takes it.

A first lane may end before its branches, as the interpreter's does when a router throws (8).
`run` then fails the run (`runCompletes`, "unfinished"), and what is in flight drains.

**Known divergence.** The code throws that as a `DeterminismError` (`run-sequencer.ts:157`), of
which `durable-step.ts:89` says that it is for a run about to leave its recorded history. A
first execution, with nothing on record, is failed with it, and the error that ended the first
lane is not shown. `NeverDiverges` is about the other uses: an operation or a decision that the
history does not hold.

**Fairness**: the event loop goes on while the process is up, and DBOS answers every call.

## 8. Plan interpreter: `PlanInterpreter`

A plan is a tree of levels: the run's nodes, the branches of a parallel node, a loop's body,
an error lane. Each is walked by its own `schedule`, which starts nodes as lanes and takes
their ends one by one. `at` is where each node is, `halt` what a level will throw.
`Picks` says what each router selects, or that its condition throws: it names a step that is
unknown or has not run, or embeds a file (`reference-resolver.ts`). Routers are settled
inside `pump`, which `schedule` calls with no catch, so the level is then broken (`Broke`): it
ends as failed at once, and the lanes it has go on by themselves.

Lanes are modelled as plain promises, as in the legacy durable engine and in dry runs. Under
the sequenced engine the walk is the same and a lane's turn comes one at a time; what a broken
level does to it is in 7.

| actions | code |
|---|---|
| `charge`, `leafReturns`, `leafThrows` | a leaf: `MeteredDurableStep.run`, `executeLeaf` and its failure policy |
| `fork`, `branchEnds` | `executeParallel` |
| `beginForEach`, `beginWhile`, `loopRoundEnds` | the loops, with the limit on rounds |
| `errorLaneEnds` | the error lane, which replaces the rest of the run |
| `runEnds`, `cancel` | `run`; a cancel seen on the row |

**Abstracted.** A leaf is one operation. Values, expressions, pins, dry runs, retries, the
agent's own loop and called workflows are left out, and so is what the code records of routing it could not
decide. A level joins a lane in the step the lane ends, so lanes are joined in every order.
`fatalMet` is a history variable, kept for `FatalEndsRun`. **Bounds**: `MaxItems`; `MaxSteps`
and `MaxRounds` are the run's own limits, small enough that both are met.
`PlanAssumption` says what a plan that passed validation is: a tree of levels, where a node
is in one level, a level has one owner, a leaf has at most one error lane and a loop one
body, and `NodesOf` is a topological order of a level's nodes. `FinitePlan` says that a plan
has finitely many levels and no other kinds of nodes.
The instance has a parallel node of no branches, which ends at once, and an error lane of no
nodes, which the code takes for none (`errorLane`).

`RoutedNodesRun` says that a level never runs ahead of itself, in any order of lanes, and
leaves nothing over; `WalkGoesOn` that it never stalls: until the run has ended, some lane is about to begin or
hears from its provider, or what some lane waits for is over. `RunEnds` adds that the steps
left are taken and run out. `FatalEndsRun` and `NothingOutlivesRun` are claimed but for levels
that broke: a lane of such a level is joined by nobody, so it may outlive the run, and a fatal
error it meets then is lost. With no router's throw there is no exception.

**Known divergence.** A router throws while another lane of its level is at its provider; the
level ends, and in the end the run, with that lane still at work, where `schedule`
(`dag-interpreter.ts:192`), `executeParallel` (`base-plan-interpreter.ts:749`) and
`DurableStep.root` (`durable-step.ts:57`) each say that every lane has ended first. The instance
has such a router; without the exception of broken levels TLC refutes both properties.

**Fairness**: every lane is taken on, every call to a provider returns or fails.

## 9. Admission: `RunAdmission`

Callers come with the ids of runs, and several may come with the same one. `row` is the run's
row, `workflow` what DBOS holds, `caller` where each admission is. The transaction that
records and counts is four actions, so that two of them overlap; the save to DBOS, the
re-arming of an id, the refusal after a failed save, the workflow's gate, a cancel, the
reaper's read and write, and a crash are actions of their own.

**Abstracted.** A run that waits counts as running, and only the cap on unfinished runs is
modelled. Batches, dry runs, DBOS off, called runs and shutdown are left out. A save that fails
is one that was not made. `rearmed` is a history variable: an id already holding a run
is never counted (`domain/README.md`, row 26). `age` says that `RUN_MAX_DURATION_SECONDS`
outlasts any admission under way. **Fairness**: an admission under way goes on (weak, per
caller), a workflow runs to its end and the reaper's passes come round (strong, per run: a
pass is for all runs, one at a time).

**What the violation shows** (`RunAdmission_refused`). A refusal asks DBOS under the row's
lock, but saves are made outside it. Between the question and the write another caller, who
had re-armed the id, saves its workflow; the refusal then makes the workflow's gate bar it.

## 10. Triggers and the delete fence: `TriggerReconcile`

One workflow in one environment: `pointer` names a version, `rows` and `store` are
the activations, `webhooks` is what exists at the apps, `retired` the table of deletes still
to make, `fence` the deletes under way in the process, `rec` the reconcile, `work` the
retries, `poll` the poll under way.

| actions | code |
|---|---|
| `reconcileOnce`, `applyCreate`, `applyUpdate`, `applyDelete`, `queueRetries` | `reconcileOnce` and the three applies |
| `unregisterWebhook`, `teardownDeleted`, `teardownTimesOut`, `lateDeleteAnswered`, `clearStore`, `dropRow` | teardown, with `boundedDelete` |
| `enablePolling`, `registerWebhook...`, `recordRegistration`, `standUp`, `awaitLanded`, `recordMaterialized` | stand-up, inside the fence |
| `landPendingDeletesAt`, `landingStarts`, `landingEnds` | a refused stand-up has pending deletes made, then tries again |
| `retryRetiredWebhook`, `retryHeld`, `retriedDelete`, `retryDone` | retries, in the queue and for a landing |
| `pollActivation`, `admitActivationRun`, `commitCursor`, `commitEpoch`, `pollFails` | `TriggersService.pollLockedActivation` |
| `movePointer`, `newEvent`, `crash` | the outside |

**Faults.** A registration is refused, fails, or is made and answered as failed; its record
(`store.put`) fails; a delete is made, fails, is made and answered as failed, fails and reads as
made (at an app in `Silent`: Linear, whose delete swallows every failure), or is answered late;
an admission fails; the process dies, and each delete it had sent is made or not. Of the
database's own failures only that record's is modelled: a write that fails elsewhere ends its
apply before anything was done at an app, or is repeated.

**Properties.** `WebhooksAreKnown` (no webhook is left that no record knows),
`DeletesSpareLive` (the fence), `EventRunsOnce` and `NoEventSkipped` (the cursor, the epoch
and the admission together), `PendingDeletesEnd` and `ConvergesAfterOneFailure` (liveness).
The last is claimed of triggers that are `Uncontested`: no two of them, and no two versions
of one, want the same address of an app that refuses, because a registration kept out by
another webhook fails like any other and the outage below follows from one failure. Nor is it
claimed once an unknown webhook holds the address of an app that refuses (`Blocked`): the
known divergence below. The leaks the code has are exempted through `lost`, and are these: a
registration is made and its answer is lost; the record of one fails, or the process dies
before it; a delete fails at an app that does not say so; and a retry takes a webhook for held
while its holder is being torn down.

**Abstracted.** Slots and pausing, account status, Composio subscriptions with their own
reaper, legacy registrations, the intake of webhooks. Polls come one at a time, landings
too, and the retry queue is a set. A sweep may start at any time. **Bounds**: `MaxMoves`,
`MaxFailures`, `MaxCrashes`, `MaxEvents`. **Fairness**: the reconciler, the retries, the polls and
the apps' late answers go on.

**What the violation shows** (`TriggerReconcile_outage`). The row is written before its
side effects, and a stand-up that fails leaves the snapshot of what was live. At an app that
refuses a second webhook on an address, one failed delete is enough: the webhook of A stays,
B is refused, and, if the pointer is back at A before the delete is made again, so is A. The
row then equals its snapshot though A was torn down: the plan sees nothing to do, and the
trigger is dead until it is edited.

**Known divergence, in the model and excepted by `Blocked`.** At such an app a registration is
made and its answer is lost (`trigger-reconciler.service.ts:767`), or its record fails (`:785`).
Nothing is pending at the address (`landPendingDeletesAt`), so the stand-up gives up; the webhook
nobody holds keeps the address, and every later stand-up is refused. One failed call, with no
crash, and no reconcile sets the trigger up again, where the comment at `:209` says that the next
one does. Without `Blocked` TLC refutes `ConvergesAfterOneFailure`.

## 11. Mutants

Every property of a passing run has a mutant beside the definition it changes (marked
`Mutant:` in the module): a plausible slip in the code, such as a tag that is not moved, a
base found along first parents, an approval of any version, a count before the lock, a
stand-up outside the fence. TLC refutes the property when the mutant takes the definition's
place.

## 12. What is proved

`VersionHistoryProofs` proves, for every set of versions, branches, names, fields, values
and sessions that meets `VersionAssumption` and `BranchAssumption` (ids are naturals, the
default branch is a branch, null is no id):

| theorem | of |
|---|---|
| `TypeCorrect` | `TypeOK` |
| `NumbersFormALine` | `NumberedLine` |
| `NothingIsLost` | `NothingLost` |
| `LatestFollowsHead` | `LatestFloats` |
| `RollbackIsSafe` | `RollbackStaysOnLine` |
| `HeadsNeverGoBack` | `HeadOnlyAdvances` |
| `MergesAreNews` | `MergesBringNews` |
| `UpToDateLandsAsItIs` | `UpToDateMergeTakesSource` |

They follow from one inductive invariant, `IInv`: `TypeOK`, the properties
themselves and two strengthenings. `HeadIsHighest` (a branch that minted stands at its
own highest version) is what makes MAX + 1 the head's number plus one, so that the
new version is the child of the one before. `RestoringKnowsBranch` (a rollback in flight
still knows its target's branch) is what makes the target one of the branch's own
versions when the write comes, so that `NothingLost` puts it on the line.
The argument is uniform. Lemmas on `wasHeadOf` say a line is kept when rows keep their
parents (`LineKept`) and extended by a version that grows from it (`LineExtended`).
`KeepStep` then covers every action that mints nothing, `MintStep` every one
that mints on one branch, and each action's lemma only shows it is one or the other.
`MergesBringNews` needs no strengthening: a history never changes behind a version, so
what was news when it was merged stays so.

The rest of the module shows `StoreRefinesLines`: the store implements `BranchLines`
(`ImplementsLines`). Its `Counted` says that a branch's own versions are finitely many, that
their numbers are exactly 1 up to how many there are, and that the head is the last of
them. Numbers then fix the line (`LineIs`) and where it was forked (`ForkIs`), whatever
CHOOSE picks. `StepShape` sorts the operations into four: one version minted at the end
of a line while some branches go (`MintsSome`), one branch lost, one forked, or nothing the
lines see; each maps to a step of `BranchLines` or a stutter, and `LatestIs` says that
`latest` is read off the lines on both sides. What it adds to `NothingIsLost` is order:
a line only ever grows at its end.

`ReviewGateProofs` extends it to `GateSpec`. `GateRefinesVersions` shows that every
step of the gate is a version store's step, so `IInv` holds there too. `GateInv` (types, the
status of reviews, and that a decision under way holds its review and read a head its source
had) gives `OnlyApprovedLands`, `ShownTestIsNewest` and `MergedMeansLanded`. `FailuresBlock` adds that
tests are finite and timed, so that among those of one content there is a latest.

`RunWaitsProofs` proves, for every number of waits, deciders, crashes, lost writes and
failed sends (`NullAssumption`, `BoundAssumption`):

| theorem | of |
|---|---|
| `TypeCorrect` | `TypeOK` |
| `ParkedRunsWait` | `ParkedRunWaits` |
| `EndsAreFinal` | `EndIsFinal` |

Its `IInv` adds three facts. `WaitsStarted` (a step waits only once it is recorded) is why
`stepFinished`, which writes `finished` from `started`, cannot park a step anew.
`EndingRunGoesOn` (the end that a lock's holder is about to write is the run's first) is
why `endRun` overwrites nothing. `CompletedRunIsOver` (a completed run has no engine) is
why an interpreter never finishes a completed run; recovery keeps it, because it enters
only runs that have not ended. `DerivedWait` is the step `ParkedRunWaits` rests on: the
status is derived from all of the run's rows at once, so no lane can hide another's park.

The module goes on to the decisions, from the same assumptions:

| theorem | of |
|---|---|
| `DecisionsAreOne` | `OneDecisionPerWait` |
| `TakenDecisionsAreCredited` | `TakenDecisionIsCredited` |

Its invariant, `DInv`, rests on `Names(w, d)`: a claim, a send under way, a claim read to be
sent again or the message itself names `d` as the decider of `w`. All that name a wait's
decider name the same one (`OneNamed`), who holds the claim until nobody can claim the wait
any more (`NamedHolds`, `Closed`); so a new claim finds nobody named. Only a claim makes
a name, and every other step passes names on. `Onward` states what no step
takes back (an end, a finish, a fault), which keeps `Closed` closed. `WaitsLost`,
`RecordedLanes` and `CreditLost` count the writes a lane must have lost for its wait to
stand open or uncredited behind its back: that is where the two bounds on `lost` come
from. `ClaimWaits` says that a decision still to be credited keeps its claim, unless no
lane is left to credit it. Most actions are one of four shapes, and a lemma for each
(`QuietKept`, `SentKept`, `WaitsEndKept`, `LaneDecides`) reduces them to their row's fields.

`RunAdmissionProofs` proves `CapHolds` and `AdmittedRunsAreKept` for every finite set of
runs, every cap, and any number of callers and faults. The invariant says that a
counted admission has room for itself (`Unfinished` and its own run are at most `Cap`, and the
workspace's lock keeps everyone else out until it commits), and that a run being saved,
asked about or condemned is in the state its holder last saw, as far as locks allow.

`TriggerReconcileProofs` proves, for every finite set of triggers, any versions, set-ups and
apps, and any number of moves, failures, crashes and events (`SetupAssumption`,
`NoneAssumption`):

| theorem | of |
|---|---|
| `TypeCorrect` | `TypeOK` |
| `WebhooksKnown` | `WebhooksAreKnown` |
| `DeletesSpare` | `DeletesSpareLive` |
| `EventsRunOnce` | `EventRunsOnce` |
| `CursorSkipsNothing` | `NoEventSkipped` |

`WebhooksAreKnown` is not inductive: a record that is about to go also knows a webhook.
`AllSurelyKnown` asks for one that is not: a store that is not being cleared, or a pending
delete that no retry is done with. It needs `EntriesDiffer` (forgetting one pending delete
forgets no other) and `RecKnows` (what the store of the activation being applied holds at
each point; a row is there before its webhook). For the fence, `Spares` says of every
delete sent or still to be sent (`IsSent`) that its webhook is in no store, but for the
activation being applied; and there not once its stand-up has looked at the fence, unless it
waits for that very delete. `RetryFenced` and `DeletingIsFenced` are why looking is
enough: whoever sends a delete is in the fence before it does. For the polls,
`RunsPastCursor` says that what ran past the cursor ran under the epoch in the store, and
`PollKnows` what a poll under way has run; `PollLocks`, the activation's lock, is why no
apply changes the cursor or the epoch in between.

`ThreeWayMergeProofs` is about the operators. For all documents, of any number of
nodes, edges and parameters (`DocsAssumption`):

| theorem | of |
|---|---|
| `DiffRoundTrips` | `applyDiff` after `computeDiff`, where no `Dotted` parameter differs |
| `MergeThreeWay` | `MergeIsThreeWay` |
| `ResolvedMerge` | `ResolvedAsChosen` |

All but the exceptions of section 6 are in the statements: `MergeThreeWay` is for every triple
of documents that changes no parameter whose key has a dot, and so is `ResolvedMerge`, which
says nothing of a settings conflict's answer. Documents may hold such keys; what the proof
shows of them is that, unchanged, they disturb nothing.

What a diff holds is stated once (`DiffSays`, `DiffHas`), and so is what applying a set of
entries does to each node, field and edge (`ApplyIs`, `SetNestedTo`), so that all that
follows is about fields, never about how entries are applied. `DiffRoundTrips` is the
first use. Then the conflicts found are those of the reference merge
(`ConflictsAreClashes`), and the clean merge is the target with the source's entries that do
not touch what the target changed (`CleanMergeIs`), which is the reference merge field by
field. For the resolved merge, `SettledOf` says what the answers make of the entries kept
back, `HalfIs` and `BaseIs` what the merge without them is, and `ResolvedIs` puts the two
together. The recursive part of a document (records one level deep) needs no
induction: a path is a parameter and at most one key.

`PlanInterpreterProofs` proves, for every plan, of any number of levels and nodes nested to
any depth, and for any limits (`PlanAssumption`, `BoundAssumption`, `NoneAssumption`; and, for
`WalkGoesOnHolds`, `FinitePlan`):

| theorem | of |
|---|---|
| `TypeCorrect` | `TypeOK` |
| `RoutedRun` | `RoutedNodesRun` |
| `WalkGoesOnHolds` | `WalkGoesOn` |
| `NeverBoth` | `NeverBothLanes` |
| `FatalEnds` | `FatalEndsRun` |
| `NothingOutlives` | `NothingOutlivesRun` |

The invariant is about walks, the records the interpreter's operators pass on. A `Sound`
walk has the sources of every node that began settled, and a live guard behind each that
was not skipped; a level throws exactly when one of its nodes did; nodes work only in open
levels and levels open only in nodes that wait; and every open level's pump has come to
rest. `pump` keeps all of that (`PumpSound`): each turn launches a node with its sources
settled (`LaunchCoherent`) and leaves one fewer pending (`PendingCount`), so that a level's
length is turns enough. At rest with nobody at work, nothing is left over
(`RestIsSettled`): the first pending node in topological order would be ready. That is
`RoutedRun`. One lemma each says that a walk stays sound when a node works on, a level
begins, a level closes and a lane ends (`WorkSound`, `ScheduleSound`, `CloseSound`,
`LaneEndsSound`), and the actions are made of these. `Rising` is what `FatalEnds` needs: a
fatal error that was met is always in a level that is open, in a branch that is over and
waits for the others, or in the run's own level (`Carries`), and each way out of a level
hands it on; or a level broke, and then stays broken (`BrokeStays`). That nothing outlives a
run is that plans are trees: what is open lies in what is open, up to the root (`WorksInRoot`),
but for what lies in a level that broke. `ThrownRises` is why none of those begins anew under
its lanes: what it threw goes on up, as no node a level belongs to absorbs it.

`WalkGoesOnHolds` needs a second invariant of walks, `Goes`: a node that waits has begun all its
levels and has one that is open (`Attended`), only a leaf works and no router is left started
(`Fit`). Each action is gone through again (`ChargeGoes` to `RunEndsGoes`); what counts is that
a lane's end, a level's begin and its close change what one node waits for and
nobody else's (`LaneGoes`, `ScheduleGoes`, `CloseGoes`), and that a parallel node closes its
last branch in the step that ends it. If then nobody could go on, every open level would have
a node at work in it, which could only be one that waits, for a level that is open in turn:
each open level would be what another lies in. There would be a function from the open levels
but the root onto all of them, and no finite set has one (`InnermostExists`). The proof found
two slips in the model: a parallel node of no branches waited for good, and an error lane
of no nodes was taken for one.

`pump` and `fork` are recursive functions. A set of
numbers has a least element (`LeastNat`), which gives induction over a set
(`SetInduction`) and that a function defined step by step exists (`IterationExists`), without the
induction theorems whose parameter is an operator.

`RunSequencerProofs` proves, for any finite set of lanes and any names (`LaneAssumption`,
`CrashAssumption`, `NoneAssumption`), whatever the lanes' code does, and for any number of
crashes:

| theorem | of |
|---|---|
| `TypeCorrect` | `TypeOK` |
| `ReplaysWalkHistory` | `ImplementsLog` |
| `NeverDivergesHolds` | `NeverDiverges` |
| `NobodyForgottenHolds` | `NobodyForgotten` |
| `SettledHanded` | `SettledIsHanded` |

The invariant has two parts. `SInv` is about one execution as it stands: who is at its code
or between two operations holds the turn, a lane is woken once and by what it waits for,
operations in flight stand where they were issued, what they came to is on record there, and
what the sequencer waits for is what there was when it began to wait. TLC finds it to hold
of the instance.

`Trail` is about all executions of the run. `Core` is where an execution is, without what its
operations came to: that, an execution reads from the record. So `Moved` is a function: where
an execution gets to next follows from where it is and from the record, if what it reads
is there (`Ready`). Settlings change nothing in the core, in whatever order they come,
and every other step of an execution under way is a move. A `Way` is a sequence of
cores, from `Start`, each the `Moved` of the one before, to where the whole history has been
issued. The invariant says that there is one and that this execution is on it. A crash goes
back to its start; an execution in its middle can only take the next place, since the record
is the same; one at its end makes it longer; and a new entry in the record changes no move
that was made (`Ready` again). `ImplementsLog` is read off the way, for the operations issued
only grow along it, and so is that no recorded decision is found to be another's: it was
decided at this place, about these operations.

`NeverDivergesHolds` asks nothing of the lanes' code: a first lane that ends before the others
poisons the run, on every execution at the same place, and poisons it as unfinished.

`NobodyForgottenHolds` needs one strengthening, `NobodyLost`: a lane is in flight before it
parks (`Minded`), and a lane that has ended is in `ended`, where a later join looks
(`EndedKnown`).

The proof found that `Refuse` and `RefuseSettled` had been written as CASEs whose arms
overlap, which TLA+ leaves undecided; they are IFs now, in the order of the code. What an
order filters out of another is `Only`, a recursive function with what is needed of it proved
once (`OnlyIs`).

## 13. Only model-checked

Liveness (`RunEnds` and the other leads-to properties) stays with TLC: the proof system does
not reason about fairness and ENABLED. Of the two `RunEnds` that schedulers answer for, the
safety half is proved: nobody waits for what nobody will bring (`NobodyForgotten`,
`WalkGoesOn`). That the steps left are taken and run out is TLC's.
`ConvergesAfterOneFailure` has no such half: that a row reading finished has what it says set
up, the invariant one would prove, is false after a single failed call when two set-ups want one
address of an app that refuses (`TriggerReconcile_outage`), and no theorem states it.
That the reference operators of `ThreeWayMerge` compute what a reader expects of a three-way
merge is read off their definitions; the proofs only compare the code's operators with them.

## 14. Not modelled

`PROJECT.json` lists every component with its reason. The recovery guard decides from a
checkpoint's shape; environments appear only through the pointer's moves; an idempotency key
is one row with few states; organizations are single transactions under a row lock.
Connections and MCP mostly pass calls to providers; authentication and API keys are
stateless checks; the agent, the client, the docs and the installer keep no state the
service relies on. Most of the repository's lines are of that last kind: interface code,
connectors and data conversion, where nothing runs concurrently that a model would reach.

## 15. Running

    tlc -config VersionHistory_store.cfg MCVersionHistory
    tlc -config RunWaits_run.cfg MCRunWaits
    tlapm VersionHistoryProofs.tla

and likewise for the other configurations (`<module>_<run>.cfg` belongs to `MC<module>`) and
proof modules.
