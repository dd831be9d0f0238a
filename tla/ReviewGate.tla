------------------------------ MODULE ReviewGate ------------------------------
(***************************************************************************)
(* Reviews over the version store: who may merge into a protected branch,  *)
(* and what a review records (reviews.service.ts, review-test.service.ts,  *)
(* merge-orchestration.service.ts, the gate in mergeBranchIn).             *)
(*                                                                         *)
(* Writes of a review hold its row; a merge holds the branches, then every *)
(* review of the pair it merges.  Two things are read without a lock and   *)
(* used later, and are actions of their own: the source's head a decision  *)
(* is recorded for, and the two heads a test runs.  A test runs for as     *)
(* long as it takes, and its result is stored in whatever order the        *)
(* transactions come.                                                      *)
(***************************************************************************)
EXTENDS VersionHistory

CONSTANTS
  ReviewId,      \* ids of reviews, never used twice
  Reviewer,      \* decisions that may be under way at once
  Tester,        \* tests that may be under way at once
  Protectable,   \* bound: the branches whose protection is ever switched
  MaxDecisions,  \* bound: how many different decisions are recorded
  MaxTests       \* bound: how many tests have a result or may yet have one

ASSUME ReviewBoundAssumption == {MaxDecisions, MaxTests} \subseteq Nat

VARIABLES
  reviews,    \* the rows of reviews: a function from their ids
  opened,     \* every review id ever given out
  approvals,  \* the decisions recorded on reviews
  tests,      \* the results of tests that finished
  deciding,   \* per reviewer, a decision that holds its review and read its head
  testing,    \* per tester, a test that runs or waits to be stored
  clock       \* when a test last finished

gateVars == <<reviews, opened, approvals, tests, deciding, testing, clock>>
allVars == <<vars, gateVars>>

Decision == {"approved", "rejected"}
Verdict == {"red", "green", "inconclusive"}
Terminal == {"merged", "closed"}
Test == [review: ReviewId \cup {None}, source: VersionId, target: VersionId,
         verdict: Verdict, at: Nat]
Review == [source: BranchId, target: BranchId, lastTest: Test \cup {None},
           status: {"open", "approved", "rejected"} \cup Terminal]
Approval == [review: ReviewId, decision: Decision, version: VersionId \cup {None}]

ASSUME ReviewAssumption == None \notin ReviewId \cup Test

Open == DOMAIN reviews
Held(r) == \E d \in Reviewer : deciding[d] # None /\ deciding[d].review = r
Pair(s, t) == {r \in Open : reviews[r].source = s /\ reviews[r].target = t}
Unsettled(s, t) == {r \in Pair(s, t) : reviews[r].status \notin Terminal}
WithBranch(b) == {r \in Open : b \in {reviews[r].source, reviews[r].target}}
OnReview(r) == {a \in approvals : a.review = r}

Settle(which, status) ==
  reviews' = [r \in Open |->
                IF r \in which THEN [reviews[r] EXCEPT !.status = status] ELSE reviews[r]]

-----------------------------------------------------------------------------
(* The merge gate of a protected branch.                                   *)

\* Mutant: an approval of any version of the source will do.
approvalGiven(s, t) ==
  \E r \in Pair(s, t) : reviews[r].status = "approved" /\
    \E a \in OnReview(r) : a.decision = "approved"

approvalCurrent(s, t) ==
  \E r \in Pair(s, t) : reviews[r].status = "approved" /\
    \E a \in OnReview(r) : a.decision = "approved" /\ a.version = Head(s)

\* A test follows content, not ids.
sameContent(v, w) == v = w \/ ver[v].doc = ver[w].doc

\* Mutant: a test that decided nothing counts as the latest.
TestsSeen(s, t) ==
  {x \in tests : sameContent(Head(s), x.source) /\ sameContent(Head(t), x.target)}

DecisiveTests(s, t) ==
  {x \in tests : /\ x.verdict # "inconclusive"
                 /\ sameContent(Head(s), x.source) /\ sameContent(Head(t), x.target)}

\* The latest decisive test failed, or as late a one did.
latestFailingTest(s, t) ==
  \E x \in DecisiveTests(s, t) :
    x.verdict = "red" /\ \A y \in DecisiveTests(s, t) : y.at <= x.at

MergeGate(s, t) ==
  branches[t].isProtected => approvalCurrent(s, t) /\ ~latestFailingTest(s, t)

PairUnheld(s, t) == \A r \in Unsettled(s, t) : ~Held(r)

-----------------------------------------------------------------------------
GateInit ==
  /\ Init
  /\ reviews = [r \in {} |-> None]
  /\ opened = {}
  /\ approvals = {}
  /\ tests = {}
  /\ deciding = [d \in Reviewer |-> None]
  /\ testing = [x \in Tester |-> None]
  /\ clock = 0

(* createReview, under both branches' locks.  A version in the target's    *)
(* history is nothing to review.                                           *)
TargetHasSource(s, t) ==
  Head(s) = None \/ (Head(t) # None /\ historyContains(Head(t), Head(s)))

createReview(r, s, t) ==
  /\ r \in ReviewId \ opened
  /\ ~\E x \in Pair(s, t) : reviews[x].status = "open"
  /\ ~TargetHasSource(s, t)
  /\ opened' = opened \cup {r}
  /\ reviews' = [x \in Open \cup {r} |->
       IF x = r THEN [source |-> s, target |-> t, lastTest |-> None, status |-> "open"]
       ELSE reviews[x]]
  /\ UNCHANGED <<vars, approvals, tests, deciding, testing, clock>>

(* submitApproval: it holds the review, reads the source's head without    *)
(* its branch's lock, and records its decision for that head.  A reviewer  *)
(* who was shown another head is refused here, which changes nothing.      *)
readHead(d, r, decision) ==
  /\ deciding[d] = None /\ ~Held(r)
  /\ reviews[r].status \notin Terminal
  /\ deciding' = [deciding EXCEPT ![d] =
       [review |-> r, decision |-> decision, version |-> Head(reviews[r].source)]]
  /\ UNCHANGED <<vars, reviews, opened, approvals, tests, testing, clock>>

\* Any rejection is sticky.
statusOf(r, decisions) ==
  IF \E a \in decisions : a.review = r /\ a.decision = "rejected" THEN "rejected"
  ELSE IF \E a \in decisions : a.review = r /\ a.decision = "approved" THEN "approved"
  ELSE reviews[r].status

submitApproval(d) ==
  /\ deciding[d] # None
  /\ approvals' = approvals \cup {deciding[d]}
  /\ Cardinality(approvals') <= MaxDecisions
  /\ reviews' = [reviews EXCEPT ![deciding[d].review].status =
                   statusOf(deciding[d].review, approvals')]
  /\ deciding' = [deciding EXCEPT ![d] = None]
  /\ UNCHANGED <<vars, opened, tests, testing, clock>>

\* Mutant: a merged review can be closed.
closeAnyReview(r) ==
  /\ ~Held(r)
  /\ Settle({r}, "closed")
  /\ UNCHANGED <<vars, opened, approvals, tests, deciding, testing, clock>>

closeReview(r) ==
  /\ ~Held(r)
  /\ reviews[r].status # "merged"
  /\ Settle({r}, "closed")
  /\ UNCHANGED <<vars, opened, approvals, tests, deciding, testing, clock>>

-----------------------------------------------------------------------------
(* The merges.  From the review itself: a source its target already holds  *)
(* mints nothing, and the review is merged all the same.                   *)
UpToDate(s, t) ==
  /\ Head(s) # None /\ Head(t) # None
  /\ historyContains(Head(t), Head(s))
  /\ UNCHANGED vars

mergeReview(r) ==
  LET s == reviews[r].source
      t == reviews[r].target
  IN  /\ PairUnheld(s, t)
      /\ reviews[r].status \notin Terminal
      /\ branches[t].isProtected => reviews[r].status = "approved"
      /\ MergeGate(s, t)
      /\ mergeBranchIn(s, t) \/ UpToDate(s, t)
      /\ Settle({r}, "merged")
      /\ UNCHANGED <<opened, approvals, tests, deciding, testing, clock>>

(* A deleted branch takes its reviews and their decisions along; a test's  *)
(* result stays, without its review.                                       *)
DropReviews(gone) ==
  /\ reviews' = Restrict(reviews, Open \ gone)
  /\ approvals' = {a \in approvals : a.review \notin gone}
  /\ tests' = {[x EXCEPT !.review = IF @ \in gone THEN None ELSE @] : x \in tests}

\* Mutant: the branches page cleans up whatever source it merged.
mergeAndCleanupAny(s, t) ==
  /\ PairUnheld(s, t)
  /\ MergeGate(s, t)
  /\ IF Unsettled(s, t) # {}
     THEN /\ mergeBranchIn(s, t)
          /\ Settle(Unsettled(s, t), "merged")
          /\ UNCHANGED <<approvals, tests>>
     ELSE /\ MergeAllowed(s, t)
          /\ \E v \in VersionId, doc \in MergedDocs(s, t) :
               /\ IsFresh(v)
               /\ ver' = Branchless(WithVersion(v, MergedVersion(s, t, doc)), s)
               /\ branches' = Restrict(MovedHead(t, v), Live \ {s})
               /\ latest' = Restrict(moveLatestTag(t, v), (DOMAIN latest \cup {t}) \ {s})
          /\ UNCHANGED <<used, restoring>>
          /\ DropReviews(WithBranch(s))
  /\ UNCHANGED <<opened, deciding, testing, clock>>

(* From the branches page: the reviews of the pair are merged with it and  *)
(* keep its source; without one, a source that may go is deleted.          *)
mergeFromBranches(s, t) ==
  /\ PairUnheld(s, t)
  /\ MergeGate(s, t)
  /\ \/ /\ Unsettled(s, t) # {} \/ ~Deletable(s)
        /\ mergeBranchIn(s, t)
        /\ Settle(Unsettled(s, t), "merged")
        /\ UNCHANGED <<approvals, tests>>
     \/ /\ Unsettled(s, t) = {}
        /\ \A r \in WithBranch(s) : ~Held(r)
        /\ mergeAndCleanup(s, t)
        /\ DropReviews(WithBranch(s))
  /\ UNCHANGED <<opened, deciding, testing, clock>>

(* A branch takes its target's newer work; a protected one does not.       *)
updateFrom(b, from) ==
  /\ ~branches[b].isProtected
  /\ PairUnheld(from, b)
  /\ mergeBranchIn(from, b)
  /\ UNCHANGED gateVars

deleteBranchAndReviews(b) ==
  /\ \A r \in WithBranch(b) : ~Held(r)
  /\ deleteBranch(b)
  /\ DropReviews(WithBranch(b))
  /\ UNCHANGED <<opened, deciding, testing, clock>>

-----------------------------------------------------------------------------
(* A test: the heads are read, both versions run, and the result is stored *)
(* by its versions, and shown on the review if it is the newest.           *)
testBranch(x, r) ==
  LET s == Head(reviews[r].source)
      t == Head(reviews[r].target)
  IN  /\ testing[x] = None
      /\ Cardinality(tests) + Cardinality({y \in Tester : testing[y] # None}) < MaxTests
      /\ reviews[r].status \notin Terminal
      /\ s # None /\ t # None
      /\ testing' = [testing EXCEPT ![x] =
           [review |-> r, source |-> s, target |-> t, verdict |-> "green", at |-> 0]]
      /\ UNCHANGED <<vars, reviews, opened, approvals, tests, deciding, clock>>

Running(x) == testing[x] # None /\ testing[x].at = 0

\* Two tests may finish in the same millisecond.
testEnds(x, verdict, at) ==
  /\ Running(x)
  /\ at \in {clock, clock + 1} \ {0}
  /\ clock' = at
  /\ testing' = [testing EXCEPT ![x].verdict = verdict, ![x].at = at]
  /\ UNCHANGED <<vars, reviews, opened, approvals, tests, deciding>>

\* A cancelled test, or one that a stop of the service cut off, has no result.
testCancelled(x) ==
  /\ Running(x)
  /\ testing' = [testing EXCEPT ![x] = None]
  /\ UNCHANGED <<vars, reviews, opened, approvals, tests, deciding, clock>>

\* Mutant: the result stored last is the one shown.
isAnyTest(a, b) == TRUE

isNewerTest(a, b) == a.at > b.at \/ (a.at = b.at /\ a.verdict = "red" /\ b.verdict # "red")

ShowTest(r, result) ==
  reviews' = IF reviews[r].lastTest = None \/ isNewerTest(result, reviews[r].lastTest)
             THEN [reviews EXCEPT ![r].lastTest = result] ELSE reviews

storeTest(x) ==
  /\ testing[x] # None /\ ~Running(x)
  /\ LET r == testing[x].review
         result == [testing[x] EXCEPT !.review = IF r \in Open THEN r ELSE None]
     IN  /\ ~Held(r)
         /\ tests' = tests \cup {result}
         /\ IF r \in Open THEN ShowTest(r, result) ELSE UNCHANGED reviews
  /\ testing' = [testing EXCEPT ![x] = None]
  /\ UNCHANGED <<vars, opened, approvals, deciding, clock>>

-----------------------------------------------------------------------------
(* What leaves reviews alone.  Rollbacks are VersionHistory's; every fork  *)
(* here is of the default branch's head.                                   *)
VersionsOnly ==
  /\ \/ \E b \in Live, doc \in Doc : commit(b, doc, Head(b), "user")
     \/ \E b \in BranchId, name \in BranchName : createBranch(b, name, Head(Main))
     \/ \E b \in Live \cap Protectable, isProtected \in BOOLEAN : setProtection(b, isProtected)
  /\ UNCHANGED gateVars

GateNext ==
  \/ VersionsOnly
  \/ \E r \in ReviewId, s, t \in Live : createReview(r, s, t)
  \/ \E d \in Reviewer, r \in Open, decision \in Decision : readHead(d, r, decision)
  \/ \E d \in Reviewer : submitApproval(d)
  \/ \E r \in Open : closeReview(r) \/ mergeReview(r)
  \/ \E s, t \in Live : mergeFromBranches(s, t) \/ updateFrom(t, s)
  \/ \E b \in Live : deleteBranchAndReviews(b)
  \/ \E x \in Tester, r \in Open : testBranch(x, r)
  \/ \E x \in Tester, verdict \in Verdict, at \in 0..MaxTests : testEnds(x, verdict, at)
  \/ \E x \in Tester : testCancelled(x) \/ storeTest(x)

GateSpec == GateInit /\ [][GateNext]_allVars

-----------------------------------------------------------------------------
(* Properties.                                                             *)

(* Types, and the foreign keys: a review's branches are live, a decision's *)
(* review is there, and so is a test's unless it has none left.            *)
GateTypeOK ==
  /\ reviews \in [Open -> Review]
  /\ Open \subseteq opened /\ opened \subseteq ReviewId
  /\ \A r \in Open : {reviews[r].source, reviews[r].target} \subseteq Live
  /\ approvals \subseteq Approval /\ \A a \in approvals : a.review \in Open
  /\ tests \subseteq Test /\ \A x \in tests : x.review \in Open \cup {None}
  /\ deciding \in [Reviewer -> Approval \cup {None}]
  /\ testing \in [Tester -> Test \cup {None}]
  /\ clock \in 0..MaxTests

(* A review stands as its decisions say, whoever decided at once or while  *)
(* it was tested: open without one, rejected for good by one rejection     *)
(* (submitApproval locks the row so that decisions cannot race).           *)
StatusFollowsDecisions ==
  \A r \in Open :
    LET given == {a.decision : a \in OnReview(r)}
    IN  /\ reviews[r].status = "open" => given = {}
        /\ reviews[r].status = "approved" => given = {"approved"}
        /\ reviews[r].status = "rejected" => "rejected" \in given

\* A version merged into a branch that is protected.
IntoProtected(v) ==
  v \in Minted' \ Minted /\ ver'[v].mergeParent # None /\ branches[ver'[v].branch].isProtected

(* What lands on a protected branch was approved as it is: someone         *)
(* approved the very version that is merged in, on a review of the two     *)
(* branches that nobody rejected, however late its head was read           *)
(* (domain invariant 15).                                                  *)
ProtectedTakesApproved ==
  [][\A v \in VersionId : IntoProtected(v) =>
       \E a \in approvals :
         /\ a.decision = "approved" /\ a.version = ver'[v].mergeParent
         /\ Head(reviews[a.review].source) = a.version
         /\ reviews[a.review].target = ver'[v].branch
         /\ \A b \in OnReview(a.review) : b.decision = "approved"]_allVars

(* A failure found on the content being merged keeps it out until a later  *)
(* test of that content passes, whichever review or branch it was run from *)
(* and whether that is still there; a test that decides nothing lifts      *)
(* nothing.                                                                *)
FailedTestBlocks ==
  [][\A v \in VersionId : IntoProtected(v) =>
       \A x \in tests :
         /\ x.verdict = "red"
         /\ ver[x.source].doc = ver[ver'[v].mergeParent].doc
         /\ ver[x.target].doc = ver[ver'[v].parent].doc
         => \E y \in tests : /\ y.verdict = "green" /\ y.at > x.at
                             /\ ver[y.source].doc = ver[x.source].doc
                             /\ ver[y.target].doc = ver[x.target].doc]_allVars

(* A review shows the newest of its tests, in whatever order they are      *)
(* stored (storeTest).                                                     *)
LastTestIsNewest ==
  \A r \in Open :
    LET own == {x \in tests : x.review = r}
    IN  /\ own # {} => reviews[r].lastTest \in own
        /\ \A x \in own : ~isNewerTest(x, reviews[r].lastTest)

(* A review is merged only when its target holds its source, and stays     *)
(* merged as long as its branches are there.                               *)
MergedReviewLanded ==
  [][\A r \in Open \cap Open' :
       /\ reviews[r].status = "merged" => reviews'[r].status = "merged"
       /\ reviews[r].status # "merged" /\ reviews'[r].status = "merged" =>
            historyContains(Head(reviews[r].target), Head(reviews[r].source))']_allVars

(* Reviews only restrict the version store: whatever they do to it is what *)
(* one of its own operations does (one merge implementation).              *)
GateImplementsVersions == Spec
=============================================================================
