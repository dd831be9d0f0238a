-------------------------- MODULE ReviewGateProofs --------------------------
(***************************************************************************)
(* Proofs about ReviewGate, for every set of reviews, reviewers and tests. *)
(* A step of the gate is a step of the version store or leaves it alone,   *)
(* so what VersionHistoryProofs shows of the store holds under the gate.   *)
(***************************************************************************)
EXTENDS ReviewGate, VersionHistoryProofs, FiniteSetTheorems, WellFoundedInduction

(* A decision under way holds a review that is there and still open.       *)
HeldIsUnsettled ==
  \A d \in Reviewer : deciding[d] # None =>
    /\ deciding[d].review \in Open
    /\ reviews[deciding[d].review].status \notin Terminal

(* LastTestIsNewest, with nothing shown that was not stored.               *)
ShownIsNewest ==
  \A r \in Open :
    /\ reviews[r].lastTest # None => reviews[r].lastTest \in tests /\ reviews[r].lastTest.review = r
    /\ \A x \in tests : x.review = r =>
         reviews[r].lastTest # None /\ ~isNewerTest(x, reviews[r].lastTest)

GateInv == GateTypeOK /\ StatusFollowsDecisions /\ HeldIsUnsettled /\ ShownIsNewest

-----------------------------------------------------------------------------
(* The refinement, step by step.                                           *)
LEMMA VersionsOnlyStep ==
  ASSUME IInv, VersionsOnly
  PROVE  Next /\ Live \subseteq Live'
<1>1. \A b \in Live : Head(b) \in Minted \cup {None}
  BY DEF IInv, TypeOK
<1>2. Main \in Live
  BY DEF IInv, TypeOK
<1>3. CASE \E b \in Live, doc \in Doc : commit(b, doc, Head(b), "user")
  <2>1. PICK b \in Live, doc \in Doc : commit(b, doc, Head(b), "user")
    BY <1>3
  <2>2. Live' = Live
    BY <2>1 DEF commit, insertVersion, MovedHead, Live
  <2> QED BY <1>1, <2>1, <2>2 DEF Next
<1>4. CASE \E b \in BranchId, name \in BranchName : createBranch(b, name, Head(Main))
  <2>1. PICK b \in BranchId, name \in BranchName : createBranch(b, name, Head(Main))
    BY <1>4
  <2>2. Live \subseteq Live'
    BY <2>1 DEF createBranch, Live
  <2> QED BY <1>1, <1>2, <2>1, <2>2 DEF Next
<1>5. CASE \E b \in Live \cap Protectable, isProtected \in BOOLEAN : setProtection(b, isProtected)
  <2>1. PICK b \in Live, isProtected \in BOOLEAN : setProtection(b, isProtected)
    BY <1>5
  <2>2. Live' = Live
    BY <2>1 DEF setProtection, Live
  <2> QED BY <2>1, <2>2 DEF Next
<1> QED BY <1>3, <1>4, <1>5 DEF VersionsOnly

LEMMA MergeKeepsBranches ==
  ASSUME NEW s, NEW t, mergeBranchIn(s, t)
  PROVE  Live' = Live
BY DEF mergeBranchIn, MovedHead, Live

LEMMA CleanupDropsSource ==
  ASSUME NEW s, NEW t, mergeAndCleanup(s, t)
  PROVE  Live' = Live \ {s}
BY DEF mergeAndCleanup, Restrict, Live

LEMMA DeleteDropsBranch ==
  ASSUME NEW b, deleteBranch(b)
  PROVE  Live' = Live \ {b}
BY DEF deleteBranch, Restrict, Live

LEMMA GateStepIsVersionStep ==
  ASSUME IInv, GateTypeOK, [GateNext]_allVars
  PROVE  [Next]_vars
<1>1. \A r \in Open : reviews[r].source \in Live /\ reviews[r].target \in Live
  BY DEF GateTypeOK
<1>2. CASE VersionsOnly
  BY <1>2, VersionsOnlyStep
<1>3. CASE \E r \in ReviewId, s, t \in Live : createReview(r, s, t)
  BY <1>3 DEF createReview
<1>4. CASE \E d \in Reviewer, r \in Open, decision \in Decision : readHead(d, r, decision)
  BY <1>4 DEF readHead
<1>5. CASE \E d \in Reviewer : submitApproval(d)
  BY <1>5 DEF submitApproval
<1>6. CASE \E r \in Open : closeReview(r)
  BY <1>6 DEF closeReview
<1>7. CASE \E r \in Open : mergeReview(r)
  BY <1>1, <1>7 DEF mergeReview, UpToDate, Next
<1>8. CASE \E s, t \in Live : mergeFromBranches(s, t)
  BY <1>8 DEF mergeFromBranches, Next
<1>9. CASE \E s, t \in Live : updateFrom(t, s)
  BY <1>9 DEF updateFrom, Next
<1>10. CASE \E b \in Live : deleteBranchAndReviews(b)
  BY <1>10 DEF deleteBranchAndReviews, Next
<1>11. CASE \E x \in Tester, r \in Open : testBranch(x, r)
  BY <1>11 DEF testBranch
<1>12. CASE \E x \in Tester, verdict \in Verdict, at \in 0..MaxTests : testEnds(x, verdict, at)
  BY <1>12 DEF testEnds
<1>13. CASE \E x \in Tester : testCancelled(x) \/ storeTest(x)
  BY <1>13 DEF testCancelled, storeTest
<1>14. CASE UNCHANGED allVars
  BY <1>14 DEF allVars
<1> QED BY <1>2, <1>3, <1>4, <1>5, <1>6, <1>7, <1>8, <1>9, <1>10, <1>11, <1>12, <1>13, <1>14
        DEF GateNext

-----------------------------------------------------------------------------
(* The invariant, action by action.                                        *)
LEMMA GateInitInv == GateInit => GateInv
<1> SUFFICES ASSUME GateInit
             PROVE  GateInv
  OBVIOUS
<1>1. /\ Open = {} /\ approvals = {} /\ tests = {} /\ opened = {} /\ clock = 0
      /\ \A d \in Reviewer : deciding[d] = None
  BY DEF GateInit, Open
<1>2. MaxTests \in Nat
  BY ReviewBoundAssumption
<1>3. GateTypeOK
  BY <1>1, <1>2 DEF GateInit, GateTypeOK, Open
<1>4. StatusFollowsDecisions /\ HeldIsUnsettled /\ ShownIsNewest
  BY <1>1 DEF StatusFollowsDecisions, HeldIsUnsettled, ShownIsNewest
<1> QED BY <1>3, <1>4 DEF GateInv

(* What leaves the gate's variables alone and keeps every branch.          *)
LEMMA FrameStep ==
  ASSUME GateInv, Live \subseteq Live', UNCHANGED gateVars
  PROVE  GateInv'
<1>1. GateTypeOK'
  BY DEF gateVars, GateInv, GateTypeOK, Open
<1>2. StatusFollowsDecisions'
  BY DEF gateVars, GateInv, StatusFollowsDecisions, Open, OnReview
<1>3. HeldIsUnsettled'
  BY DEF gateVars, GateInv, HeldIsUnsettled, Open
<1>4. ShownIsNewest'
  BY DEF gateVars, GateInv, ShownIsNewest, Open, isNewerTest
<1> QED BY <1>1, <1>2, <1>3, <1>4 DEF GateInv

LEMMA CreateReviewStep ==
  ASSUME IInv, GateInv, NEW r \in ReviewId, NEW s \in Live, NEW t \in Live, createReview(r, s, t)
  PROVE  GateInv'
<1> DEFINE row == [source |-> s, target |-> t, lastTest |-> None, status |-> "open"]
<1>1. /\ r \notin Open /\ r \notin opened
      /\ Open' = Open \cup {r}
      /\ reviews' = [x \in Open \cup {r} |-> IF x = r THEN row ELSE reviews[x]]
      /\ opened' = opened \cup {r}
      /\ UNCHANGED <<approvals, tests, deciding, testing, clock>>
      /\ Live' = Live
  BY DEF createReview, GateInv, GateTypeOK, Open, vars, Live
<1>2. row \in Review
  BY DEF Review, IInv, TypeOK
<1>3. r # None
  BY ReviewAssumption
<1>4. (\A a \in approvals : a.review # r) /\ (\A x \in tests : x.review # r)
  BY <1>1, <1>3 DEF GateInv, GateTypeOK
<1>5. GateTypeOK'
  BY <1>1, <1>2 DEF GateInv, GateTypeOK
<1>6. StatusFollowsDecisions'
  BY <1>1, <1>4 DEF GateInv, StatusFollowsDecisions, OnReview
<1>7. HeldIsUnsettled'
  BY <1>1 DEF GateInv, HeldIsUnsettled
<1>8. ShownIsNewest'
  BY <1>1, <1>4 DEF GateInv, ShownIsNewest, isNewerTest
<1> QED BY <1>5, <1>6, <1>7, <1>8 DEF GateInv

LEMMA ReadHeadStep ==
  ASSUME IInv, GateInv, NEW d \in Reviewer, NEW r \in Open, NEW decision \in Decision,
         readHead(d, r, decision)
  PROVE  GateInv'
<1> DEFINE held == [review |-> r, decision |-> decision, version |-> Head(reviews[r].source)]
<1>1. /\ deciding' = [deciding EXCEPT ![d] = held]
      /\ reviews[r].status \notin Terminal
      /\ UNCHANGED <<reviews, opened, approvals, tests, testing, clock>>
      /\ Open' = Open /\ Live' = Live
  BY DEF readHead, Open, vars, Live
<1>2. held \in Approval
  BY DEF Approval, GateInv, GateTypeOK, IInv, TypeOK
<1>3. GateTypeOK'
  BY <1>1, <1>2 DEF GateInv, GateTypeOK
<1>4. HeldIsUnsettled'
  BY <1>1 DEF GateInv, GateTypeOK, HeldIsUnsettled
<1>5. StatusFollowsDecisions' /\ ShownIsNewest'
  BY <1>1 DEF GateInv, StatusFollowsDecisions, ShownIsNewest, OnReview, isNewerTest
<1> QED BY <1>3, <1>4, <1>5 DEF GateInv

LEMMA SubmitApprovalStep ==
  ASSUME GateInv, NEW d \in Reviewer, submitApproval(d)
  PROVE  GateInv'
<1>0. PICK a \in Approval, r \in Open : a = deciding[d] /\ r = a.review
  BY DEF submitApproval, GateInv, GateTypeOK, HeldIsUnsettled
<1>1. /\ a # None
      /\ approvals' = approvals \cup {a}
      /\ reviews' = [reviews EXCEPT ![r].status = statusOf(r, approvals')]
      /\ deciding' = [deciding EXCEPT ![d] = None]
      /\ UNCHANGED <<opened, tests, testing, clock>>
      /\ Live' = Live
  BY <1>0 DEF submitApproval, vars, Live
<1>2. a \in Approval /\ r \in Open /\ a.review = r
  BY <1>0
<1>3. a.decision \in {"approved", "rejected"}
  BY <1>2 DEF Approval, Decision
<1>4. reviews \in [Open -> Review]
  BY DEF GateInv, GateTypeOK
<1>5. Open' = Open /\ \A q \in Open : q # r => reviews'[q] = reviews[q]
  BY <1>1, <1>2, <1>4 DEF Open
<1>6. /\ reviews'[r].source = reviews[r].source /\ reviews'[r].target = reviews[r].target
      /\ reviews'[r].lastTest = reviews[r].lastTest
      /\ reviews'[r].status = statusOf(r, approvals')
  BY <1>1, <1>2, <1>4 DEF Review
<1>7. \/ statusOf(r, approvals') = "rejected" /\ \E b \in approvals' : b.review = r /\ b.decision = "rejected"
      \/ /\ statusOf(r, approvals') = "approved"
         /\ ~\E b \in approvals' : b.review = r /\ b.decision = "rejected"
         /\ a \in approvals'
  BY <1>1, <1>2, <1>3 DEF statusOf
<1>8. \A b \in approvals' : b \in Approval /\ b.decision \in {"approved", "rejected"}
  BY <1>1, <1>2, <1>3 DEF GateInv, GateTypeOK, Approval, Decision
<1>9. GateTypeOK'
  <2>1. reviews'[r] \in Review
    BY <1>1, <1>2, <1>4, <1>7 DEF Review
  <2>2. reviews' \in [Open' -> Review]
    BY <1>1, <1>2, <1>4, <1>5, <2>1
  <2> QED BY <1>1, <1>2, <1>5, <1>6, <2>2 DEF GateInv, GateTypeOK
<1>10. StatusFollowsDecisions'
  <2>1. ASSUME NEW q \in Open, q # r
        PROVE  OnReview(q)' = OnReview(q)
    BY <1>1, <1>2, <2>1 DEF OnReview
  <2>2. {b.decision : b \in OnReview(r)'} \subseteq {"approved", "rejected"}
    BY <1>8 DEF OnReview
  <2>3. a.decision \in {b.decision : b \in OnReview(r)'}
    BY <1>1, <1>2 DEF OnReview
  <2>4. ("rejected" \in {b.decision : b \in OnReview(r)'})
          <=> \E b \in approvals' : b.review = r /\ b.decision = "rejected"
    BY DEF OnReview
  <2>5. ASSUME NEW q \in Open, q # r
        PROVE  LET given == {b.decision : b \in OnReview(q)'}
               IN  /\ reviews'[q].status = "open" => given = {}
                   /\ reviews'[q].status = "approved" => given = {"approved"}
                   /\ reviews'[q].status = "rejected" => "rejected" \in given
    BY <1>5, <2>1, <2>5 DEF GateInv, StatusFollowsDecisions
  <2>6. LET given == {b.decision : b \in OnReview(r)'}
        IN  /\ reviews'[r].status = "open" => given = {}
            /\ reviews'[r].status = "approved" => given = {"approved"}
            /\ reviews'[r].status = "rejected" => "rejected" \in given
    BY <1>3, <1>6, <1>7, <2>2, <2>3, <2>4
  <2> QED BY <1>5, <2>5, <2>6 DEF StatusFollowsDecisions
<1>11. HeldIsUnsettled'
  BY <1>1, <1>5, <1>6, <1>7 DEF GateInv, GateTypeOK, HeldIsUnsettled, Terminal
<1>12. ShownIsNewest'
  <2>1. \A q \in Open : reviews'[q].lastTest = reviews[q].lastTest
    BY <1>5, <1>6
  <2> QED BY <1>1, <1>5, <2>1 DEF GateInv, ShownIsNewest, isNewerTest
<1> QED BY <1>9, <1>10, <1>11, <1>12 DEF GateInv

(* Closing or merging reviews nobody holds.                                *)
LEMMA SettleStep ==
  ASSUME GateInv, NEW which \in SUBSET Open, NEW status \in Terminal, Settle(which, status),
         \A r \in which : ~Held(r), Live \subseteq Live',
         UNCHANGED <<opened, approvals, tests, deciding, testing, clock>>
  PROVE  GateInv'
<1>1. reviews \in [Open -> Review]
  BY DEF GateInv, GateTypeOK
<1>2. Open' = Open /\ reviews' \in [Open -> Review]
  BY <1>1 DEF Settle, Open, Review
<1>3. \A r \in Open : /\ reviews'[r].source = reviews[r].source
                      /\ reviews'[r].target = reviews[r].target
                      /\ reviews'[r].lastTest = reviews[r].lastTest
                      /\ reviews'[r].status = IF r \in which THEN status ELSE reviews[r].status
  BY <1>1 DEF Settle, Review
<1>4. status \notin {"open", "approved", "rejected"}
  BY DEF Terminal
<1>5. GateTypeOK'
  BY <1>2, <1>3 DEF GateInv, GateTypeOK
<1>6. StatusFollowsDecisions'
  <2>1. \A r \in Open : OnReview(r)' = OnReview(r)
    BY DEF OnReview
  <2> QED BY <1>2, <1>3, <1>4, <2>1 DEF GateInv, StatusFollowsDecisions
<1>7. HeldIsUnsettled'
  BY <1>2, <1>3 DEF GateInv, HeldIsUnsettled, Held
<1>8. ShownIsNewest'
  BY <1>2, <1>3 DEF GateInv, ShownIsNewest, isNewerTest
<1> QED BY <1>5, <1>6, <1>7, <1>8 DEF GateInv

(* Reviews that go with a branch of theirs, nobody holding one.            *)
LEMMA DropStep ==
  ASSUME GateInv, NEW gone \in SUBSET Open, DropReviews(gone),
         \A r \in gone : ~Held(r),
         \A r \in Open \ gone : {reviews[r].source, reviews[r].target} \subseteq Live',
         UNCHANGED <<opened, deciding, testing, clock>>
  PROVE  GateInv'
<1>1. /\ reviews' = [r \in Open \ gone |-> reviews[r]]
      /\ Open' = Open \ gone
      /\ approvals' = {a \in approvals : a.review \notin gone}
      /\ tests' = {[x EXCEPT !.review = IF @ \in gone THEN None ELSE @] : x \in tests}
  BY DEF DropReviews, Restrict, Open
<1>2. None \notin Open
  BY ReviewAssumption DEF GateInv, GateTypeOK
<1>3. \A x \in tests : x \in Test /\ x.review \in Open \cup {None}
  BY DEF GateInv, GateTypeOK
<1>4. \A y \in tests' : y \in Test /\ y.review \in Open' \cup {None}
  BY <1>1, <1>3 DEF Test
<1>5. \A y \in tests' : y.review \in Open' => y \in tests
  BY <1>1, <1>2, <1>3 DEF Test
<1>6. \A x \in tests : x.review \in Open' => x \in tests'
  BY <1>1, <1>3 DEF Test
<1>7. GateTypeOK'
  BY <1>1, <1>4 DEF GateInv, GateTypeOK
<1>8. StatusFollowsDecisions'
  <2>1. \A r \in Open' : OnReview(r)' = OnReview(r)
    BY <1>1 DEF OnReview
  <2> QED BY <1>1, <2>1 DEF GateInv, StatusFollowsDecisions
<1>9. HeldIsUnsettled'
  BY <1>1 DEF GateInv, HeldIsUnsettled, Held
<1>10. ShownIsNewest'
  <2> SUFFICES ASSUME NEW r \in Open'
               PROVE  /\ reviews[r].lastTest # None =>
                           reviews[r].lastTest \in tests' /\ reviews[r].lastTest.review = r
                      /\ \A x \in tests' : x.review = r =>
                           reviews[r].lastTest # None /\ ~isNewerTest(x, reviews[r].lastTest)
    BY <1>1 DEF ShownIsNewest, isNewerTest
  <2> QED BY <1>1, <1>5, <1>6 DEF GateInv, ShownIsNewest
<1> QED BY <1>7, <1>8, <1>9, <1>10 DEF GateInv

LEMMA MergeReviewStep ==
  ASSUME GateInv, NEW r \in Open, mergeReview(r)
  PROVE  GateInv'
<1>1. Live' = Live
  BY MergeKeepsBranches DEF mergeReview, UpToDate, vars, Live
<1>2. ~Held(r)
  BY DEF mergeReview, PairUnheld, Unsettled, Pair
<1>3. Settle({r}, "merged") /\ UNCHANGED <<opened, approvals, tests, deciding, testing, clock>>
  BY DEF mergeReview
<1>4. "merged" \in Terminal
  BY DEF Terminal
<1> QED BY <1>1, <1>2, <1>3, <1>4, SettleStep

LEMMA CloseReviewStep ==
  ASSUME GateInv, NEW r \in Open, closeReview(r)
  PROVE  GateInv'
<1>1. "closed" \in Terminal /\ Live' = Live
  BY DEF Terminal, closeReview, vars, Live
<1> QED BY <1>1, SettleStep DEF closeReview

LEMMA MergeFromBranchesStep ==
  ASSUME GateInv, NEW s \in Live, NEW t \in Live, mergeFromBranches(s, t)
  PROVE  GateInv'
<1>1. CASE /\ mergeBranchIn(s, t)
           /\ Settle(Unsettled(s, t), "merged")
           /\ UNCHANGED <<approvals, tests>>
  <2>1. Live' = Live
    BY <1>1, MergeKeepsBranches
  <2>2. Unsettled(s, t) \in SUBSET Open /\ \A r \in Unsettled(s, t) : ~Held(r)
    BY DEF mergeFromBranches, PairUnheld, Unsettled, Pair
  <2>3. "merged" \in Terminal
    BY DEF Terminal
  <2>4. UNCHANGED <<opened, approvals, tests, deciding, testing, clock>>
    BY <1>1 DEF mergeFromBranches
  <2> QED BY <1>1, <2>1, <2>2, <2>3, <2>4, SettleStep
<1>2. CASE /\ \A r \in WithBranch(s) : ~Held(r)
           /\ mergeAndCleanup(s, t)
           /\ DropReviews(WithBranch(s))
  <2>1. Live' = Live \ {s}
    BY <1>2, CleanupDropsSource
  <2>2. /\ WithBranch(s) \in SUBSET Open
        /\ \A r \in Open \ WithBranch(s) : {reviews[r].source, reviews[r].target} \subseteq Live'
    BY <2>1 DEF WithBranch, GateInv, GateTypeOK
  <2>3. UNCHANGED <<opened, deciding, testing, clock>>
    BY DEF mergeFromBranches
  <2> QED BY <1>2, <2>2, <2>3, DropStep
<1> QED BY <1>1, <1>2 DEF mergeFromBranches

LEMMA DeleteBranchAndReviewsStep ==
  ASSUME GateInv, NEW b \in Live, deleteBranchAndReviews(b)
  PROVE  GateInv'
<1>1. Live' = Live \ {b}
  BY DeleteDropsBranch DEF deleteBranchAndReviews
<1>2. /\ WithBranch(b) \in SUBSET Open
      /\ \A r \in Open \ WithBranch(b) : {reviews[r].source, reviews[r].target} \subseteq Live'
  BY <1>1 DEF WithBranch, GateInv, GateTypeOK
<1> QED BY <1>2, DropStep DEF deleteBranchAndReviews

LEMMA TestBranchStep ==
  ASSUME IInv, GateInv, NEW x \in Tester, NEW r \in Open, testBranch(x, r)
  PROVE  GateInv'
<1> DEFINE started == [review |-> r, source |-> Head(reviews[r].source),
                       target |-> Head(reviews[r].target), verdict |-> "green", at |-> 0]
<1>1. /\ testing' = [testing EXCEPT ![x] = started]
      /\ Head(reviews[r].source) # None /\ Head(reviews[r].target) # None
      /\ UNCHANGED <<reviews, opened, approvals, tests, deciding, clock>>
      /\ Live' = Live /\ Open' = Open
  BY DEF testBranch, vars, Live, Open
<1>2. started \in Test
  BY <1>1 DEF Test, Verdict, GateInv, GateTypeOK, IInv, TypeOK
<1>3. GateTypeOK'
  BY <1>1, <1>2 DEF GateInv, GateTypeOK
<1>4. StatusFollowsDecisions' /\ HeldIsUnsettled' /\ ShownIsNewest'
  BY <1>1 DEF GateInv, StatusFollowsDecisions, HeldIsUnsettled, ShownIsNewest, OnReview, isNewerTest
<1> QED BY <1>3, <1>4 DEF GateInv

LEMMA TestEndsStep ==
  ASSUME GateInv, NEW x \in Tester, NEW verdict \in Verdict, NEW at \in 0..MaxTests,
         testEnds(x, verdict, at)
  PROVE  GateInv'
<1>1. /\ testing' = [testing EXCEPT ![x].verdict = verdict, ![x].at = at]
      /\ clock' = at /\ testing[x] # None
      /\ UNCHANGED <<reviews, opened, approvals, tests, deciding>>
      /\ Live' = Live /\ Open' = Open
  BY DEF testEnds, Running, vars, Live, Open
<1>2. at \in Nat /\ testing[x] \in Test
  BY <1>1, ReviewBoundAssumption DEF GateInv, GateTypeOK
<1>3. testing' \in [Tester -> Test \cup {None}]
  BY <1>1, <1>2 DEF GateInv, GateTypeOK, Test
<1>4. GateTypeOK'
  BY <1>1, <1>3 DEF GateInv, GateTypeOK
<1>5. StatusFollowsDecisions' /\ HeldIsUnsettled' /\ ShownIsNewest'
  BY <1>1 DEF GateInv, StatusFollowsDecisions, HeldIsUnsettled, ShownIsNewest, OnReview, isNewerTest
<1> QED BY <1>4, <1>5 DEF GateInv

LEMMA TestCancelledStep ==
  ASSUME GateInv, NEW x \in Tester, testCancelled(x)
  PROVE  GateInv'
<1>1. /\ testing' = [testing EXCEPT ![x] = None]
      /\ UNCHANGED <<reviews, opened, approvals, tests, deciding, clock>>
      /\ Live' = Live /\ Open' = Open
  BY DEF testCancelled, vars, Live, Open
<1>2. GateTypeOK'
  BY <1>1 DEF GateInv, GateTypeOK
<1>3. StatusFollowsDecisions' /\ HeldIsUnsettled' /\ ShownIsNewest'
  BY <1>1 DEF GateInv, StatusFollowsDecisions, HeldIsUnsettled, ShownIsNewest, OnReview, isNewerTest
<1> QED BY <1>2, <1>3 DEF GateInv

(* Newer is a strict order: what was not newer than the test shown before  *)
(* is not newer than a newer one.                                          *)
LEMMA NewerIsTransitive ==
  ASSUME NEW x \in Test, NEW shown \in Test, NEW result \in Test,
         ~isNewerTest(x, shown), isNewerTest(result, shown)
  PROVE  ~isNewerTest(x, result)
BY DEF isNewerTest, Test

LEMMA StoreTestStep ==
  ASSUME GateInv, NEW x \in Tester, storeTest(x)
  PROVE  GateInv'
<1>1. PICK r, result : /\ r = testing[x].review
                       /\ result = [testing[x] EXCEPT !.review = IF r \in Open THEN r ELSE None]
  OBVIOUS
<1>2. /\ testing[x] # None
      /\ tests' = tests \cup {result}
      /\ IF r \in Open THEN ShowTest(r, result) ELSE UNCHANGED reviews
      /\ testing' = [testing EXCEPT ![x] = None]
      /\ UNCHANGED <<opened, approvals, deciding, clock>>
      /\ Live' = Live
  BY <1>1 DEF storeTest, vars, Live
<1>3. /\ result \in Test
      /\ result.review = IF r \in Open THEN r ELSE None
      /\ None \notin Open
  BY <1>1, <1>2, ReviewAssumption DEF GateInv, GateTypeOK, Test
<1>4. reviews \in [Open -> Review] /\ tests \subseteq Test
  BY DEF GateInv, GateTypeOK
<1>5. /\ Open' = Open
      /\ reviews' \in [Open -> Review]
      /\ \A q \in Open : /\ reviews'[q].source = reviews[q].source
                         /\ reviews'[q].target = reviews[q].target
                         /\ reviews'[q].status = reviews[q].status
                         /\ q # r => reviews'[q].lastTest = reviews[q].lastTest
      /\ r \in Open => reviews'[r].lastTest =
           IF reviews[r].lastTest = None \/ isNewerTest(result, reviews[r].lastTest)
           THEN result ELSE reviews[r].lastTest
  <2>1. CASE reviews' = reviews
    BY <1>2, <1>4, <2>1 DEF Open, ShowTest, Review
  <2>2. CASE r \in Open /\ reviews' = [reviews EXCEPT ![r].lastTest = result]
    BY <1>2, <1>3, <1>4, <2>2 DEF Open, ShowTest, Review
  <2> QED BY <1>2, <2>1, <2>2 DEF ShowTest
<1>6. GateTypeOK'
  BY <1>2, <1>3, <1>5 DEF GateInv, GateTypeOK
<1>7. StatusFollowsDecisions'
  <2>1. \A q \in Open : OnReview(q)' = OnReview(q)
    BY <1>2 DEF OnReview
  <2> QED BY <1>5, <2>1 DEF GateInv, StatusFollowsDecisions
<1>8. HeldIsUnsettled'
  BY <1>2, <1>5 DEF GateInv, HeldIsUnsettled
<1>9. ShownIsNewest'
  <2>1. ASSUME NEW q \in Open
        PROVE  /\ reviews'[q].lastTest # None =>
                    reviews'[q].lastTest \in tests' /\ reviews'[q].lastTest.review = q
               /\ \A y \in tests' : y.review = q =>
                    reviews'[q].lastTest # None /\ ~isNewerTest(y, reviews'[q].lastTest)
    <3>1. /\ reviews[q].lastTest # None =>
               reviews[q].lastTest \in tests /\ reviews[q].lastTest.review = q
          /\ \A y \in tests : y.review = q =>
               reviews[q].lastTest # None /\ ~isNewerTest(y, reviews[q].lastTest)
      BY DEF GateInv, ShownIsNewest
    <3>2. CASE q # r
      BY <1>2, <1>3, <1>5, <3>1, <3>2
    <3>3. CASE q = r /\ reviews[r].lastTest = None
      <4>1. reviews'[r].lastTest = result /\ result # None
        BY <1>3, <1>5, <3>3, ReviewAssumption
      <4>2. ~isNewerTest(result, result)
        BY <1>3 DEF isNewerTest, Test
      <4> QED BY <1>2, <1>3, <3>1, <3>3, <4>1, <4>2
    <3>4. CASE q = r /\ reviews[r].lastTest # None /\ isNewerTest(result, reviews[r].lastTest)
      <4>1. reviews[r].lastTest \in Test /\ result # None
        BY <1>3, <1>4, <3>1, <3>4, ReviewAssumption
      <4>2. ~isNewerTest(result, result)
        BY <1>3 DEF isNewerTest, Test
      <4>3. reviews'[r].lastTest = result
        BY <1>5, <3>4
      <4>4. \A y \in tests : y.review = r => ~isNewerTest(y, result)
        BY <1>3, <1>4, <3>1, <3>4, <4>1, NewerIsTransitive
      <4> QED BY <1>2, <1>3, <3>4, <4>1, <4>2, <4>3, <4>4
    <3>5. CASE q = r /\ reviews[r].lastTest # None /\ ~isNewerTest(result, reviews[r].lastTest)
      BY <1>2, <1>5, <3>1, <3>5
    <3> QED BY <3>2, <3>3, <3>4, <3>5
  <2> QED BY <1>5, <2>1 DEF ShownIsNewest, isNewerTest
<1> QED BY <1>6, <1>7, <1>8, <1>9 DEF GateInv

-----------------------------------------------------------------------------
LEMMA GateNextInv == IInv /\ GateInv /\ [GateNext]_allVars => IInv' /\ GateInv'
<1> SUFFICES ASSUME IInv, GateInv, [GateNext]_allVars
             PROVE  IInv' /\ GateInv'
  OBVIOUS
<1>1. IInv'
  BY GateStepIsVersionStep, NextIInv DEF GateInv
<1> SUFFICES GateInv'
  BY <1>1
<1>2. CASE VersionsOnly
  BY <1>2, VersionsOnlyStep, FrameStep DEF VersionsOnly
<1>3. CASE \E r \in ReviewId, s, t \in Live : createReview(r, s, t)
  BY <1>3, CreateReviewStep
<1>4. CASE \E d \in Reviewer, r \in Open, decision \in Decision : readHead(d, r, decision)
  BY <1>4, ReadHeadStep
<1>5. CASE \E d \in Reviewer : submitApproval(d)
  BY <1>5, SubmitApprovalStep
<1>6. CASE \E r \in Open : closeReview(r)
  BY <1>6, CloseReviewStep
<1>7. CASE \E r \in Open : mergeReview(r)
  BY <1>7, MergeReviewStep
<1>8. CASE \E s, t \in Live : mergeFromBranches(s, t)
  BY <1>8, MergeFromBranchesStep
<1>9. CASE \E s, t \in Live : updateFrom(t, s)
  BY <1>9, MergeKeepsBranches, FrameStep DEF updateFrom
<1>10. CASE \E b \in Live : deleteBranchAndReviews(b)
  BY <1>10, DeleteBranchAndReviewsStep
<1>11. CASE \E x \in Tester, r \in Open : testBranch(x, r)
  BY <1>11, TestBranchStep
<1>12. CASE \E x \in Tester, verdict \in Verdict, at \in 0..MaxTests : testEnds(x, verdict, at)
  BY <1>12, TestEndsStep
<1>13. CASE \E x \in Tester : testCancelled(x)
  BY <1>13, TestCancelledStep
<1>14. CASE \E x \in Tester : storeTest(x)
  BY <1>14, StoreTestStep
<1>15. CASE UNCHANGED allVars
  <2>1. Live' = Live /\ UNCHANGED gateVars
    BY <1>15 DEF allVars, vars, Live
  <2> QED BY <2>1, FrameStep, <1>1
<1> QED BY <1>1, <1>2, <1>3, <1>4, <1>5, <1>6, <1>7, <1>8, <1>9, <1>10, <1>11, <1>12, <1>13,
           <1>14, <1>15 DEF GateNext

THEOREM GateInvariantHolds == GateSpec => [](IInv /\ GateInv)
<1>1. GateInit => IInv /\ GateInv
  BY InitIInv, GateInitInv DEF GateInit
<1> QED BY <1>1, GateNextInv, PTL DEF GateSpec

(* Reviews only restrict the version store: every behaviour under the gate *)
(* is one of the store alone.                                              *)
THEOREM GateRefinesVersions == GateSpec => GateImplementsVersions
<1>1. GateInit => Init
  BY DEF GateInit
<1>2. IInv /\ GateInv /\ [GateNext]_allVars => [Next]_vars
  BY GateStepIsVersionStep DEF GateInv
<1> QED BY <1>1, <1>2, GateInvariantHolds, PTL DEF GateSpec, GateImplementsVersions, Spec

(* Rows are well formed, and no review, decision or test names a branch or *)
(* a review that is gone.                                                  *)
THEOREM GateTypeCorrect == GateSpec => []GateTypeOK
<1>1. GateInv => GateTypeOK
  BY DEF GateInv
<1> QED BY <1>1, GateInvariantHolds, PTL

(* A review stands as its decisions say, for any number of reviewers.      *)
THEOREM StatusIsDecided == GateSpec => []StatusFollowsDecisions
<1>1. GateInv => StatusFollowsDecisions
  BY DEF GateInv
<1> QED BY <1>1, GateInvariantHolds, PTL

(* The test a review shows is the newest of its own, in whatever order     *)
(* they were stored.                                                       *)
THEOREM ShownTestIsNewest == GateSpec => []LastTestIsNewest
<1>1. GateInv => LastTestIsNewest
  <2> SUFFICES ASSUME GateInv, NEW r \in Open
               PROVE  LET own == {x \in tests : x.review = r}
                      IN  /\ own # {} => reviews[r].lastTest \in own
                          /\ \A x \in own : ~isNewerTest(x, reviews[r].lastTest)
    BY DEF LastTestIsNewest
  <2> QED BY DEF GateInv, ShownIsNewest
<1> QED BY <1>1, GateInvariantHolds, PTL

-----------------------------------------------------------------------------
(* What a merge mints, with and without its source going.                  *)
MintsMerge(s, t, v) ==
  v \in Minted' \ Minted =>
    ver'[v].branch = t /\ ver'[v].parent = Head(t) /\ ver'[v].mergeParent = Head(s)

LEMMA MergeMintsMerge ==
  ASSUME NEW s \in Live, NEW t \in Live, mergeBranchIn(s, t), NEW v \in VersionId
  PROVE  MintsMerge(s, t, v)
<1>1. PICK w \in VersionId, doc \in MergedDocs(s, t) : ver' = WithVersion(w, MergedVersion(s, t, doc))
  BY DEF mergeBranchIn
<1> QED BY <1>1 DEF MintsMerge, WithVersion, MergedVersion, Minted

LEMMA CleanupMintsMerge ==
  ASSUME IInv, NEW s \in Live, NEW t \in Live, mergeAndCleanup(s, t), NEW v \in VersionId
  PROVE  MintsMerge(s, t, v)
<1>1. PICK w \in VersionId, doc \in MergedDocs(s, t) :
        ver' = Branchless(WithVersion(w, MergedVersion(s, t, doc)), s)
  BY DEF mergeAndCleanup
<1>2. s # t
  <2>1. Head(s) \in Minted
    BY DEF mergeAndCleanup, MergeAllowed, IInv, TypeOK
  <2>2. historyContains(Head(s), Head(s))
    BY <2>1 DEF historyContains
  <2> QED BY <2>2 DEF mergeAndCleanup, MergeAllowed
<1>3. ASSUME v \in Minted' \ Minted
      PROVE  v = w
  BY <1>1, <1>3 DEF Branchless, WithVersion, Minted
<1>4. WithVersion(w, MergedVersion(s, t, doc))[w] = MergedVersion(s, t, doc)
  BY DEF WithVersion
<1>5. MergedVersion(s, t, doc).branch = t
  BY DEF MergedVersion
<1>6. w \in DOMAIN WithVersion(w, MergedVersion(s, t, doc))
  BY DEF WithVersion
<1>7. ver'[w] = MergedVersion(s, t, doc)
  BY <1>1, <1>2, <1>4, <1>5, <1>6 DEF Branchless
<1> QED BY <1>3, <1>7 DEF MintsMerge, MergedVersion

(* Only a merge that passed the gate puts a merged version on a protected  *)
(* branch.                                                                 *)
LEMMA LandedThroughGate ==
  ASSUME IInv, GateInv, [GateNext]_allVars, NEW v \in VersionId, IntoProtected(v)
  PROVE  \E s, t \in Live : /\ MergeGate(s, t)
                            /\ branches[t].isProtected
                            /\ MintsMerge(s, t, v)
<1>1. v \in Minted' \ Minted /\ ver'[v].mergeParent # None /\ branches[ver'[v].branch].isProtected
  BY DEF IntoProtected
<1>2. \A r \in Open : reviews[r].source \in Live /\ reviews[r].target \in Live
  BY DEF GateInv, GateTypeOK
<1>3. ~VersionsOnly
  <2>1. ASSUME NEW b \in Live, NEW doc \in Doc, commit(b, doc, Head(b), "user")
        PROVE  ver'[v].mergeParent = None
    <3>1. PICK w \in VersionId : insertVersion(w, b, doc, None)
      BY <2>1 DEF commit
    <3> QED BY <1>1, <3>1 DEF insertVersion, WithVersion, Minted
  <2> QED BY <1>1, <2>1 DEF VersionsOnly, createBranch, setProtection, Minted
<1>4. ~UNCHANGED vars
  BY <1>1 DEF vars, Minted
<1>5. CASE \E r \in Open : mergeReview(r)
  <2>1. PICK r \in Open : mergeReview(r)
    BY <1>5
  <2>2. mergeBranchIn(reviews[r].source, reviews[r].target)
    BY <1>4, <2>1 DEF mergeReview, UpToDate
  <2>3. MintsMerge(reviews[r].source, reviews[r].target, v)
    BY <1>2, <2>2, MergeMintsMerge
  <2> QED BY <1>1, <1>2, <2>1, <2>3 DEF mergeReview, MintsMerge
<1>6. CASE \E s, t \in Live : mergeFromBranches(s, t)
  <2>1. PICK s \in Live, t \in Live : mergeFromBranches(s, t)
    BY <1>6
  <2>2. MintsMerge(s, t, v)
    BY <2>1, MergeMintsMerge, CleanupMintsMerge DEF mergeFromBranches
  <2> QED BY <1>1, <2>1, <2>2 DEF mergeFromBranches, MintsMerge
<1>7. CASE \E s, t \in Live : updateFrom(t, s)
  <2>1. PICK s \in Live, t \in Live : updateFrom(t, s)
    BY <1>7
  <2>2. MintsMerge(s, t, v)
    BY <2>1, MergeMintsMerge DEF updateFrom
  <2> QED BY <1>1, <2>1, <2>2 DEF updateFrom, MintsMerge
<1>8. ~\E b \in Live : deleteBranchAndReviews(b)
  BY <1>1 DEF deleteBranchAndReviews, deleteBranch, Branchless, Minted
<1> QED
  BY <1>3, <1>4, <1>5, <1>6, <1>7, <1>8
  DEF GateNext, allVars, createReview, readHead, submitApproval, closeReview, testBranch, testEnds,
      testCancelled, storeTest

(* Nothing lands on a protected branch but the very version somebody       *)
(* approved, on a review nobody rejected: whatever the source's branch did *)
(* between the read of its head and the merge.                             *)
THEOREM OnlyApprovedLands == GateSpec => ProtectedTakesApproved
<1> DEFINE Approved ==
      \A v \in VersionId : IntoProtected(v) =>
        \E a \in approvals :
          /\ a.decision = "approved" /\ a.version = ver'[v].mergeParent
          /\ Head(reviews[a.review].source) = a.version
          /\ reviews[a.review].target = ver'[v].branch
          /\ \A b \in OnReview(a.review) : b.decision = "approved"
<1>1. IInv /\ GateInv /\ [GateNext]_allVars => Approved
  <2> SUFFICES ASSUME IInv, GateInv, [GateNext]_allVars, NEW v \in VersionId, IntoProtected(v)
               PROVE  \E a \in approvals :
                        /\ a.decision = "approved" /\ a.version = ver'[v].mergeParent
                        /\ Head(reviews[a.review].source) = a.version
                        /\ reviews[a.review].target = ver'[v].branch
                        /\ \A b \in OnReview(a.review) : b.decision = "approved"
    OBVIOUS
  <2>1. PICK s \in Live, t \in Live : MergeGate(s, t) /\ branches[t].isProtected /\ MintsMerge(s, t, v)
    BY LandedThroughGate
  <2>2. ver'[v].branch = t /\ ver'[v].mergeParent = Head(s)
    BY <2>1 DEF IntoProtected, MintsMerge
  <2>3. PICK r \in Pair(s, t) : /\ reviews[r].status = "approved"
                                /\ \E a \in OnReview(r) : a.decision = "approved" /\ a.version = Head(s)
    BY <2>1 DEF MergeGate, approvalCurrent
  <2>4. PICK a \in OnReview(r) : a.decision = "approved" /\ a.version = Head(s)
    BY <2>3
  <2>5. r \in Open /\ reviews[r].source = s /\ reviews[r].target = t /\ a \in approvals /\ a.review = r
    BY <2>4 DEF Pair, OnReview
  <2>6. {b.decision : b \in OnReview(r)} = {"approved"}
    BY <2>3, <2>5 DEF GateInv, StatusFollowsDecisions
  <2>7. \A b \in OnReview(r) : b.decision = "approved"
    BY <2>6
  <2> QED BY <2>2, <2>4, <2>5, <2>7
<1> HIDE DEF Approved
<1>2. GateSpec => [][Approved]_allVars
  BY <1>1, GateInvariantHolds, PTL DEF GateSpec
<1> QED BY <1>2 DEF Approved, ProtectedTakesApproved

-----------------------------------------------------------------------------
(* A finite set of numbers has a largest: of the sets of what lies above a *)
(* member one is least, and it is empty.                                   *)
LEMMA FiniteHasLargest ==
  ASSUME NEW T \in SUBSET Nat, T # {}, IsFiniteSet(T)
  PROVE  \E x \in T : \A y \in T : y <= x
<1> DEFINE Above(x) == {y \in T : y > x}
           F == {Above(x) : x \in T}
<1>1. \A x \in T : IsFiniteSet(Above(x))
  BY FS_Subset
<1>2. F \subseteq FiniteSubsetsOf(T) /\ F # {}
  BY <1>1 DEF FiniteSubsetsOf
<1>3. IsWellFoundedOn(StrictSubsetOrdering(T), FiniteSubsetsOf(T))
  BY FS_StrictSubsetOrderingWellFounded
<1> HIDE DEF F
<1>4. PICK U \in F : \A V \in F : <<V, U>> \notin StrictSubsetOrdering(T)
  BY <1>2, <1>3, WFMin
<1> USE DEF F
<1>5. PICK x \in T : U = Above(x)
  BY <1>4
<1>6. ASSUME NEW y \in T, y > x
      PROVE  FALSE
  <2>0. (\A z \in T : z > y => z > x) /\ ~(y > y)
    BY <1>6
  <2>1. Above(y) \in F /\ Above(y) \subseteq U /\ y \in U /\ y \notin Above(y)
    BY <1>5, <1>6, <2>0
  <2>2. <<Above(y), U>> \in StrictSubsetOrdering(T)
    BY <2>1, <1>4 DEF StrictSubsetOrdering
  <2> QED BY <1>4, <2>1, <2>2
<1> QED BY <1>6

(* No test finished later than one last did.                               *)
TestsAreTimed ==
  /\ \A x \in tests : x.at <= clock
  /\ \A x \in Tester : testing[x] # None => testing[x].at <= clock

LEMMA TimedStep ==
  ASSUME GateInv, TestsAreTimed, [GateNext]_allVars
  PROVE  TestsAreTimed'
<1>1. clock \in Nat /\ testing \in [Tester -> Test \cup {None}] /\ tests \subseteq Test
  BY ReviewBoundAssumption DEF GateInv, GateTypeOK
<1>2. CASE UNCHANGED <<tests, testing, clock>>
  BY <1>2 DEF TestsAreTimed
<1>3. ASSUME NEW gone, DropReviews(gone), UNCHANGED <<testing, clock>>
      PROVE  TestsAreTimed'
  BY <1>1, <1>3 DEF TestsAreTimed, DropReviews, Test
<1>4. CASE \E x \in Tester, r \in Open : testBranch(x, r)
  BY <1>1, <1>4 DEF TestsAreTimed, testBranch
<1>5. CASE \E x \in Tester, verdict \in Verdict, at \in 0..MaxTests : testEnds(x, verdict, at)
  <2>1. PICK x \in Tester, verdict \in Verdict, at \in 0..MaxTests : testEnds(x, verdict, at)
    BY <1>5
  <2>2. at \in Nat /\ clock <= at
    BY <1>1, <2>1 DEF testEnds
  <2>3. \A y \in Tester : testing'[y] # None =>
           testing'[y].at = at \/ (testing[y] # None /\ testing'[y] = testing[y])
    BY <1>1, <2>1 DEF testEnds, Running, Test
  <2>4. \A y \in Tester : testing[y] # None => testing[y].at \in Nat
    BY <1>1 DEF Test
  <2>5. \A y \in tests : y.at \in Nat
    BY <1>1 DEF Test
  <2>6. tests' = tests /\ clock' = at
    BY <2>1 DEF testEnds
  <2> QED BY <1>1, <2>2, <2>3, <2>4, <2>5, <2>6 DEF TestsAreTimed
<1>6. CASE \E x \in Tester : testCancelled(x)
  BY <1>1, <1>6 DEF TestsAreTimed, testCancelled
<1>7. CASE \E x \in Tester : storeTest(x)
  <2>1. PICK x \in Tester : storeTest(x)
    BY <1>7
  <2>2. PICK review : /\ tests' = tests \cup {[testing[x] EXCEPT !.review = review]}
                      /\ testing[x] # None
    BY <2>1 DEF storeTest
  <2>3. [testing[x] EXCEPT !.review = review].at = testing[x].at
    BY <1>1, <2>2 DEF Test
  <2>4. testing' = [testing EXCEPT ![x] = None] /\ clock' = clock
    BY <2>1 DEF storeTest
  <2> QED BY <1>1, <2>2, <2>3, <2>4 DEF TestsAreTimed
<1> QED
  BY <1>2, <1>3, <1>4, <1>5, <1>6, <1>7
  DEF GateNext, allVars, gateVars, VersionsOnly, createReview, readHead, submitApproval, closeReview,
      mergeReview, mergeFromBranches, updateFrom, deleteBranchAndReviews

LEMMA TimedInvariantHolds == GateSpec => [](IInv /\ GateInv /\ TestsAreTimed)
<1>1. GateInit => TestsAreTimed
  BY DEF GateInit, TestsAreTimed
<1>2. IInv /\ GateInv /\ TestsAreTimed /\ [GateNext]_allVars => TestsAreTimed'
  BY TimedStep
<1> QED BY <1>1, <1>2, GateInvariantHolds, PTL DEF GateSpec

(* A failed test of the content being merged is answered by a later test   *)
(* of it that passed, or nothing lands.                                    *)
THEOREM FailuresBlock == GateSpec => FailedTestBlocks
<1> DEFINE Answered ==
      \A v \in VersionId : IntoProtected(v) =>
        \A x \in tests :
          /\ x.verdict = "red"
          /\ ver[x.source].doc = ver[ver'[v].mergeParent].doc
          /\ ver[x.target].doc = ver[ver'[v].parent].doc
          => \E y \in tests : /\ y.verdict = "green" /\ y.at > x.at
                              /\ ver[y.source].doc = ver[x.source].doc
                              /\ ver[y.target].doc = ver[x.target].doc
<1>1. IInv /\ GateInv /\ TestsAreTimed /\ [GateNext]_allVars => Answered
  <2> SUFFICES ASSUME IInv, GateInv, TestsAreTimed, [GateNext]_allVars,
                      NEW v \in VersionId, IntoProtected(v),
                      NEW x \in tests, x.verdict = "red",
                      ver[x.source].doc = ver[ver'[v].mergeParent].doc,
                      ver[x.target].doc = ver[ver'[v].parent].doc
               PROVE  \E y \in tests : /\ y.verdict = "green" /\ y.at > x.at
                                       /\ ver[y.source].doc = ver[x.source].doc
                                       /\ ver[y.target].doc = ver[x.target].doc
    OBVIOUS
  <2>1. PICK s \in Live, t \in Live : MergeGate(s, t) /\ branches[t].isProtected /\ MintsMerge(s, t, v)
    BY LandedThroughGate
  <2>2. ver'[v].mergeParent = Head(s) /\ ver'[v].parent = Head(t)
    BY <2>1 DEF IntoProtected, MintsMerge
  <2>3. tests \subseteq Test /\ clock \in Nat
    BY ReviewBoundAssumption DEF GateInv, GateTypeOK
  <2> DEFINE D == DecisiveTests(s, t)
             Times == {y.at : y \in D}
  <2>4. x \in D /\ D \subseteq tests
    BY <2>2 DEF DecisiveTests, sameContent
  <2>5. Times \in SUBSET Nat /\ Times # {} /\ \A n \in Times : n <= clock
    BY <2>3, <2>4 DEF Test, TestsAreTimed
  <2>6. IsFiniteSet(Times)
    BY <2>3, <2>5, FS_BoundedSetOfNaturals
  <2>7. PICK n \in Times : \A m \in Times : m <= n
    BY <2>5, <2>6, FiniteHasLargest
  <2>8. PICK y \in D : y.at = n
    BY <2>7
  <2>9. \A z \in D : z.at <= y.at
    BY <2>7, <2>8
  <2>10. ~latestFailingTest(s, t)
    BY <2>1 DEF MergeGate
  <2>11. \A z \in D : z.at = y.at => z.verdict # "red"
    BY <2>9, <2>10 DEF latestFailingTest
  <2>12. y.verdict = "green"
    BY <2>3, <2>4, <2>11 DEF DecisiveTests, Test, Verdict
  <2>13. x.at \in Nat /\ y.at \in Nat
    BY <2>3, <2>4 DEF Test
  <2>14. y.at > x.at
    BY <2>4, <2>9, <2>11, <2>13
  <2>15. ver[y.source].doc = ver[x.source].doc /\ ver[y.target].doc = ver[x.target].doc
    BY <2>2 DEF DecisiveTests, sameContent
  <2> QED BY <2>4, <2>12, <2>14, <2>15
<1> HIDE DEF Answered
<1>2. GateSpec => [][Answered]_allVars
  BY <1>1, TimedInvariantHolds, PTL DEF GateSpec
<1> QED BY <1>2 DEF Answered, FailedTestBlocks

-----------------------------------------------------------------------------
(* A merge puts its source's head into its target's history.               *)
LEMMA MergeTakesSource ==
  ASSUME IInv, NEW s \in Live, NEW t \in Live, mergeBranchIn(s, t)
  PROVE  historyContains(Head(t), Head(s))'
<1>1. PICK v \in VersionId, doc \in MergedDocs(s, t) :
        /\ ver' = WithVersion(v, MergedVersion(s, t, doc))
        /\ branches' = MovedHead(t, v)
  BY DEF mergeBranchIn
<1>2. Head(s) \in Minted /\ Head(s) # None
  BY DEF mergeBranchIn, MergeAllowed, IInv, TypeOK
<1>3. s # t
  <2>1. historyContains(Head(s), Head(s))
    BY DEF historyContains
  <2> QED BY <2>1 DEF mergeBranchIn, MergeAllowed
<1>4. \A c \in Live : branches[c] \in BranchRow
  BY DEF IInv, TypeOK
<1>5. Head(t)' = v /\ Head(s)' = Head(s)
  BY <1>1, <1>3, <1>4 DEF MovedHead, Head, BranchRow, Live
<1>6. Head(s) \in Parents(v)'
  BY <1>1, <1>2 DEF Parents, WithVersion, MergedVersion
<1> QED BY <1>5, <1>6 DEF historyContains, HistoryClosed

LEMMA ReviewStatusStep ==
  ASSUME IInv, GateInv, [GateNext]_allVars, NEW r \in Open, r \in Open'
  PROVE  /\ reviews[r].status = "merged" => reviews'[r].status = "merged"
         /\ reviews[r].status # "merged" /\ reviews'[r].status = "merged" =>
              historyContains(Head(reviews[r].target), Head(reviews[r].source))'
<1>0. /\ reviews \in [Open -> Review]
      /\ \A q \in Open : reviews[q].source \in Live /\ reviews[q].target \in Live
  BY DEF GateInv, GateTypeOK
<1>1. CASE reviews'[r].status = reviews[r].status
  BY <1>1
<1>2. ASSUME reviews' = reviews
      PROVE  reviews'[r].status = reviews[r].status
  BY <1>2
<1>3. CASE \E q \in ReviewId, s, t \in Live : createReview(q, s, t)
  BY <1>1, <1>3 DEF createReview, GateInv, GateTypeOK
<1>4. CASE \E d \in Reviewer : submitApproval(d)
  <2>1. PICK d \in Reviewer : submitApproval(d)
    BY <1>4
  <2>2. CASE deciding[d].review # r
    BY <1>0, <1>1, <2>1, <2>2 DEF submitApproval
  <2>3. CASE deciding[d].review = r
    <3>1. reviews[r].status # "merged"
      BY <2>1, <2>3 DEF submitApproval, GateInv, HeldIsUnsettled, Terminal
    <3>2. reviews'[r].status = statusOf(r, approvals')
      BY <1>0, <2>1, <2>3 DEF submitApproval, Review
    <3> QED BY <3>1, <3>2 DEF statusOf
  <2> QED BY <2>2, <2>3
<1>5. CASE \E q \in Open : closeReview(q)
  BY <1>0, <1>5 DEF closeReview, Settle, Review
<1>6. CASE \E q \in Open : mergeReview(q)
  <2>1. PICK q \in Open : mergeReview(q)
    BY <1>6
  <2>2. CASE q # r
    BY <1>0, <1>1, <2>1, <2>2 DEF mergeReview, Settle
  <2>3. CASE q = r
    <3> DEFINE s == reviews[r].source
               t == reviews[r].target
    <3>1. reviews'[r].source = s /\ reviews'[r].target = t /\ reviews[r].status # "merged"
      BY <1>0, <2>1, <2>3 DEF mergeReview, Settle, Review, Terminal
    <3>2. PICK src \in Live, dst \in Live : src = s /\ dst = t
      BY <1>0
    <3>3. historyContains(Head(dst), Head(src))'
      <4>1. CASE mergeBranchIn(src, dst)
        BY <4>1, MergeTakesSource
      <4>2. CASE UpToDate(src, dst)
        BY <4>2 DEF UpToDate, vars, historyContains, HistoryClosed, Parents, Minted, Head
      <4> QED BY <2>1, <2>3, <3>2, <4>1, <4>2 DEF mergeReview
    <3> QED BY <3>1, <3>2, <3>3
  <2> QED BY <2>2, <2>3
<1>7. CASE \E s, t \in Live : mergeFromBranches(s, t)
  <2>1. PICK s \in Live, t \in Live : mergeFromBranches(s, t)
    BY <1>7
  <2>2. CASE mergeBranchIn(s, t) /\ Settle(Unsettled(s, t), "merged")
    <3>1. CASE r \notin Unsettled(s, t)
      BY <1>1, <2>2, <3>1 DEF Settle
    <3>2. CASE r \in Unsettled(s, t)
      <4>1. /\ reviews[r].source = s /\ reviews[r].target = t
            /\ reviews'[r].source = s /\ reviews'[r].target = t
            /\ reviews[r].status # "merged"
        BY <1>0, <2>2, <3>2 DEF Settle, Unsettled, Pair, Review, Terminal
      <4>2. historyContains(Head(t), Head(s))'
        BY <2>2, MergeTakesSource
      <4> QED BY <4>1, <4>2
    <3> QED BY <3>1, <3>2
  <2>3. CASE DropReviews(WithBranch(s))
    BY <1>1, <2>3 DEF DropReviews, Restrict, Open
  <2> QED BY <2>1, <2>2, <2>3 DEF mergeFromBranches
<1>8. CASE \E b \in Live : deleteBranchAndReviews(b)
  BY <1>1, <1>8 DEF deleteBranchAndReviews, DropReviews, Restrict, Open
<1>9. CASE \E x \in Tester : storeTest(x)
  BY <1>0, <1>1, <1>9 DEF storeTest, ShowTest, Review
<1> QED
  BY <1>1, <1>2, <1>3, <1>4, <1>5, <1>6, <1>7, <1>8, <1>9
  DEF GateNext, allVars, gateVars, VersionsOnly, readHead, updateFrom, testBranch, testEnds,
      testCancelled

(* A review is merged only when its target holds its source, and stays     *)
(* merged.                                                                 *)
THEOREM MergedMeansLanded == GateSpec => MergedReviewLanded
<1> DEFINE Landed ==
      \A r \in Open \cap Open' :
        /\ reviews[r].status = "merged" => reviews'[r].status = "merged"
        /\ reviews[r].status # "merged" /\ reviews'[r].status = "merged" =>
             historyContains(Head(reviews[r].target), Head(reviews[r].source))'
<1>1. IInv /\ GateInv /\ [GateNext]_allVars => Landed
  BY ReviewStatusStep
<1> HIDE DEF Landed
<1>2. GateSpec => [][Landed]_allVars
  BY <1>1, GateInvariantHolds, PTL DEF GateSpec
<1> QED BY <1>2 DEF Landed, MergedReviewLanded
=============================================================================
