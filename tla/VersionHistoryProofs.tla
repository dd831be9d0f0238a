------------------------ MODULE VersionHistoryProofs ------------------------
(***************************************************************************)
(* Proofs about VersionHistory, for every set of versions, branches,       *)
(* fields, values and sessions.                                            *)
(***************************************************************************)
EXTENDS VersionHistory, TLAPS, FiniteSetTheorems

LEMMA LineReflexive ==
  ASSUME NEW h \in Minted
  PROVE  wasHeadOf(h, h)
BY DEF wasHeadOf

(* A first-parent line survives any step that keeps the versions and their *)
(* parents.                                                                *)
LEMMA LineKept ==
  ASSUME Minted \subseteq Minted',
         \A w \in Minted : ver'[w].parent = ver[w].parent,
         \A w \in Minted : ver[w].parent \in Minted \cup {None},
         NEW h \in Minted, NEW v \in Minted,
         wasHeadOf(h, v)
  PROVE  wasHeadOf(h, v)'
<1> SUFFICES ASSUME NEW S \in SUBSET Minted', h \in S, LineClosed(S)'
             PROVE  v \in S
  BY DEF wasHeadOf
<1> DEFINE T == S \cap Minted
<1>1. LineClosed(T)
  BY DEF LineClosed
<1>2. v \in T
  BY <1>1 DEF wasHeadOf
<1> QED BY <1>2

(* A new version's line holds the line of its parent.                      *)
LEMMA LineExtended ==
  ASSUME Minted \subseteq Minted',
         \A w \in Minted : ver'[w].parent = ver[w].parent,
         \A w \in Minted : ver[w].parent \in Minted \cup {None},
         NEW n \in Minted', NEW h \in Minted, NEW v \in Minted,
         ver'[n].parent = h, h # None,
         wasHeadOf(h, v)
  PROVE  wasHeadOf(n, v)'
<1>1. wasHeadOf(h, v)'
  BY LineKept
<1> SUFFICES ASSUME NEW S \in SUBSET Minted', n \in S, LineClosed(S)'
             PROVE  v \in S
  BY DEF wasHeadOf
<1>2. h \in S
  BY DEF LineClosed
<1> QED BY <1>1, <1>2 DEF wasHeadOf
-----------------------------------------------------------------------------
(* The inductive invariant: the properties the runs check, and the two     *)
(* facts they rest on.                                                     *)
IInv ==
  /\ TypeOK
  /\ HeadIsHighest
  /\ NumberedLine
  /\ NothingLost
  /\ LatestFloats
  /\ RestoringKnowsBranch
  /\ RollbackStaysOnLine

LEMMA MaxIs ==
  ASSUME NEW S, NEW top \in S, \A y \in S : y \in Nat /\ top >= y
  PROVE  Max(S) = top
<1>1. Max(S) \in S /\ \A y \in S : Max(S) >= y
  BY DEF Max
<1>2. Max(S) \in Nat /\ top \in Nat /\ Max(S) >= top /\ top >= Max(S)
  BY <1>1
<1> QED BY <1>2

(* What a rollback brought back is a version of the workflow.              *)
LEMMA RollbackTargetMinted ==
  ASSUME TypeOK, RollbackStaysOnLine, NEW v \in Minted, ver[v].restored # None
  PROVE  ver[v].restored \in Minted
<1>1. Minted \in SUBSET Minted /\ LineClosed(Minted)
  BY DEF LineClosed, TypeOK
<1> QED BY <1>1 DEF RollbackStaysOnLine, wasHeadOf

(* The number a new version takes is one past its branch's head.           *)
LEMMA NextNumberValue ==
  ASSUME TypeOK, HeadIsHighest, NumberedLine, NEW b \in Live
  PROVE  /\ NextNumber(b) \in Nat
         /\ Own(b) = {} => NextNumber(b) = 1
         /\ \A v \in Own(b) : NextNumber(b) = ver[Head(b)].number + 1
<1> DEFINE N == {0} \cup {ver[v].number : v \in Own(b)}
           top == IF Own(b) = {} THEN 0 ELSE ver[Head(b)].number
<1>1. \A v \in Own(b) : ver[v].number \in Nat
  BY DEF TypeOK, Own, Minted, VersionRow
<1>2. \A v \in Own(b) : ver[v].number <= top
  BY DEF HeadIsHighest
<1>3. top \in N /\ top \in Nat
  <2>1. CASE Own(b) = {}
    BY <2>1
  <2>2. CASE Own(b) # {}
    BY <1>1, <2>2 DEF HeadIsHighest
  <2> QED BY <2>1, <2>2
<1>4. \A y \in N : y \in Nat /\ top >= y
  BY <1>1, <1>2, <1>3
<1>5. Max(N) = top
  <2> HIDE DEF N, top
  <2> QED BY <1>3, <1>4, MaxIs
<1>6. NextNumber(b) = 1 + top
  BY <1>5 DEF NextNumber
<1> QED BY <1>3, <1>6

(* A step that mints nothing keeps the lines: it keeps what rows say of    *)
(* the past and the heads of surviving branches, and a row leaves its      *)
(* branch only when the branch is gone.                                    *)
LEMMA KeepStep ==
  ASSUME IInv,
         Minted' = Minted,
         \A w \in Minted : /\ ver'[w].parent = ver[w].parent
                           /\ ver'[w].number = ver[w].number
                           /\ ver'[w].restored = ver[w].restored
                           /\ ver'[w].branch \in {ver[w].branch, None}
                           /\ ver[w].branch \in Live' => ver'[w].branch = ver[w].branch,
         \A b \in Live' \cap Live : Head(b)' = Head(b),
         Live' \ Live \subseteq BranchId \ used,
         \A s \in Session : restoring'[s] # None =>
            \/ restoring'[s] = restoring[s]
            \/ restoring'[s].target \in Minted /\ restoring'[s].branch = ver[restoring'[s].target].branch
  PROVE  /\ HeadIsHighest'
         /\ NumberedLine'
         /\ NothingLost'
         /\ RollbackStaysOnLine'
         /\ RestoringKnowsBranch'
<1>1. \A w \in Minted : ver[w].parent \in Minted \cup {None} /\ ver[w].branch \in Live \cup {None}
  BY DEF IInv, TypeOK
<1>2. \A b \in Live' : Own(b)' = Own(b) /\ (Own(b) # {} => b \in Live)
  BY <1>1, BranchAssumption DEF IInv, TypeOK, Own
<1>3. \A b \in Live' : Own(b) # {} => Head(b)' = Head(b) /\ b \in Live
  BY <1>2
<1>4. HeadIsHighest'
  BY <1>2, <1>3 DEF IInv, HeadIsHighest, Own
<1>5. NumberedLine'
  BY <1>2, <1>3 DEF IInv, NumberedLine, Own
<1>6. NothingLost'
  <2> SUFFICES ASSUME NEW b \in Live', NEW v \in Own(b)'
               PROVE  Head(b)' # None /\ wasHeadOf(Head(b), v)'
    BY DEF NothingLost
  <2>1. b \in Live /\ v \in Own(b) /\ Head(b)' = Head(b) /\ v \in Minted
    BY <1>2, <1>3 DEF Own
  <2>2. Head(b) # None /\ wasHeadOf(Head(b), v) /\ Head(b) \in Minted
    BY <2>1 DEF IInv, NothingLost, TypeOK
  <2>3. \A h \in Minted : wasHeadOf(h, v) => wasHeadOf(h, v)'
    BY <1>1, <2>1, LineKept
  <2> QED BY <2>1, <2>2, <2>3
<1>7. RollbackStaysOnLine'
  <2> SUFFICES ASSUME NEW v \in Minted, ver'[v].restored # None
               PROVE  wasHeadOf(v, ver[v].restored)'
    BY DEF RollbackStaysOnLine
  <2>1. ver[v].restored \in Minted /\ ver'[v].restored = ver[v].restored /\ ver[v].restored # None
    BY RollbackTargetMinted DEF IInv
  <2>2. wasHeadOf(v, ver[v].restored)
    BY <2>1 DEF IInv, RollbackStaysOnLine
  <2>3. \A u \in Minted : wasHeadOf(v, u) => wasHeadOf(v, u)'
    BY <1>1, LineKept
  <2> QED BY <2>1, <2>2, <2>3
<1>8. RestoringKnowsBranch'
  <2> SUFFICES ASSUME NEW s \in Session, restoring'[s] # None, restoring'[s].branch \in Live'
               PROVE  ver'[restoring'[s].target].branch = restoring'[s].branch
    BY DEF RestoringKnowsBranch
  <2>1. CASE restoring'[s] = restoring[s]
    <3>1. restoring[s].target \in Minted /\ restoring[s].branch \in used \cup {None}
      BY <2>1 DEF IInv, TypeOK
    <3>2. restoring[s].branch \in Live
      BY <2>1, <3>1, BranchAssumption DEF IInv, TypeOK
    <3>3. ver[restoring[s].target].branch = restoring[s].branch
      BY <2>1, <3>2 DEF IInv, RestoringKnowsBranch
    <3> QED BY <2>1, <3>1, <3>3
  <2>2. CASE /\ restoring'[s].target \in Minted
             /\ restoring'[s].branch = ver[restoring'[s].target].branch
    BY <2>2
  <2> QED BY <2>1, <2>2
<1> QED BY <1>4, <1>5, <1>6, <1>7, <1>8
(* A step that mints v on branch b, keeps the heads of the other surviving *)
(* branches, and lets the branches `gone` go.                              *)
LEMMA MintStep ==
  ASSUME IInv,
         NEW b \in Live, NEW v \in VersionId \ Minted, NEW gone \in SUBSET (Live \ {b}),
         Minted' = Minted \cup {v},
         \A w \in Minted : /\ ver'[w].parent = ver[w].parent
                           /\ ver'[w].number = ver[w].number
                           /\ ver'[w].restored = ver[w].restored
                           /\ ver'[w].branch = IF ver[w].branch \in gone THEN None ELSE ver[w].branch,
         ver'[v].branch = b,
         ver'[v].number = NextNumber(b),
         ver'[v].parent = Head(b),
         ver'[v].restored # None =>
            /\ Head(b) # None
            /\ ver'[v].restored \in Minted
            /\ wasHeadOf(Head(b), ver'[v].restored),
         Live' = Live \ gone,
         Head(b)' = v,
         \A c \in Live' \ {b} : Head(c)' = Head(c),
         \A s \in Session : restoring'[s] # None => restoring'[s] = restoring[s]
  PROVE  /\ HeadIsHighest'
         /\ NumberedLine'
         /\ NothingLost'
         /\ RollbackStaysOnLine'
         /\ RestoringKnowsBranch'
<1>1. \A w \in Minted : /\ ver[w].parent \in Minted \cup {None}
                        /\ ver[w].branch \in Live \cup {None}
                        /\ ver[w].number \in Nat
  BY DEF IInv, TypeOK, VersionRow
<1>2. None \notin Live /\ None \notin VersionId
  BY BranchAssumption, VersionAssumption DEF IInv, TypeOK
<1>3. \A c \in Live' \ {b} : Own(c)' = Own(c)
  BY <1>1, <1>2 DEF Own
<1>4. Own(b)' = Own(b) \cup {v}
  BY <1>1, <1>2 DEF Own
<1>5. /\ ver'[v].number \in Nat
      /\ Own(b) = {} => ver'[v].number = 1
      /\ \A w \in Own(b) : /\ Head(b) \in Own(b)
                           /\ ver[w].number <= ver[Head(b)].number
                           /\ ver'[v].number = ver[Head(b)].number + 1
  BY NextNumberValue DEF IInv, HeadIsHighest
<1>6. \A c \in Live : \A w \in Own(c) : w \in Minted /\ w # v
  BY DEF Own
<1>7. HeadIsHighest'
  <2> SUFFICES ASSUME NEW c \in Live', NEW w \in Own(c)'
               PROVE  Head(c)' \in Own(c)' /\ ver'[w].number <= ver'[Head(c)'].number
    BY DEF HeadIsHighest
  <2>1. CASE c = b
    BY <1>1, <1>4, <1>5, <1>6, <2>1
  <2>2. CASE c # b
    BY <1>3, <1>6, <2>2 DEF IInv, HeadIsHighest
  <2> QED BY <2>1, <2>2
<1>8. NumberedLine'
  <2> SUFFICES ASSUME NEW c \in Live', NEW w \in Own(c)'
               PROVE  /\ ver'[w].number >= 1
                      /\ \A u \in Own(c)' \ {w} : ver'[u].number # ver'[w].number
                      /\ ver'[w].number > 1 =>
                           /\ ver'[w].parent \in Own(c)'
                           /\ ver'[ver'[w].parent].number = ver'[w].number - 1
                      /\ ver'[w].number = 1 => ver'[w].parent \notin Own(c)'
    BY DEF NumberedLine
  <2>1. CASE c # b
    BY <1>3, <1>6, <2>1 DEF IInv, NumberedLine
  <2>2. CASE c = b /\ w = v
    <3>1. CASE Own(b) = {}
      BY <1>1, <1>2, <1>4, <1>5, <2>2, <3>1 DEF IInv, TypeOK
    <3>2. CASE Own(b) # {}
      BY <1>1, <1>4, <1>5, <1>6, <2>2, <3>2 DEF IInv, NumberedLine
    <3> QED BY <3>1, <3>2
  <2>3. CASE c = b /\ w \in Own(b)
    BY <1>1, <1>2, <1>4, <1>5, <1>6, <2>3 DEF IInv, NumberedLine
  <2> QED BY <1>4, <2>1, <2>2, <2>3
<1>9. \A h \in Minted, u \in Minted : wasHeadOf(h, u) => wasHeadOf(h, u)'
  BY <1>1, LineKept
<1>10. \A u \in Minted : Head(b) # None /\ wasHeadOf(Head(b), u) => wasHeadOf(v, u)'
  <2>1. Head(b) \in Minted \cup {None}
    BY DEF IInv, TypeOK
  <2> QED BY <1>1, <2>1, LineExtended
<1>11. NothingLost'
  <2> SUFFICES ASSUME NEW c \in Live', NEW w \in Own(c)'
               PROVE  Head(c)' # None /\ wasHeadOf(Head(c), w)'
    BY DEF NothingLost
  <2>1. CASE c # b
    <3>1. w \in Own(c) /\ Head(c)' = Head(c) /\ c \in Live /\ Head(c) \in Minted \cup {None}
      BY <1>3, <2>1 DEF IInv, TypeOK
    <3>2. Head(c) # None /\ wasHeadOf(Head(c), w)
      BY <3>1 DEF IInv, NothingLost
    <3> QED BY <1>6, <1>9, <3>1, <3>2
  <2>2. CASE c = b /\ w = v
    <3>1. wasHeadOf(v, v)'
      BY DEF wasHeadOf
    <3> QED BY <1>2, <2>2, <3>1
  <2>3. CASE c = b /\ w \in Own(b)
    <3>1. wasHeadOf(v, w)'
      BY <1>6, <1>10, <2>3 DEF IInv, NothingLost
    <3> QED BY <1>2, <2>3, <3>1
  <2> QED BY <1>4, <2>1, <2>2, <2>3
<1>12. RollbackStaysOnLine'
  <2> SUFFICES ASSUME NEW w \in Minted', ver'[w].restored # None
               PROVE  wasHeadOf(w, ver[w].restored)'
    BY DEF RollbackStaysOnLine
  <2>1. CASE w = v
    BY <1>10, <2>1
  <2>2. CASE w \in Minted
    <3>1. wasHeadOf(w, ver[w].restored) /\ ver'[w].restored = ver[w].restored
      BY <2>2 DEF IInv, RollbackStaysOnLine
    <3>2. ver[w].restored \in Minted
      BY <2>2, RollbackTargetMinted DEF IInv
    <3> QED BY <1>9, <2>2, <3>1, <3>2
  <2> QED BY <2>1, <2>2
<1>13. RestoringKnowsBranch'
  <2> SUFFICES ASSUME NEW s \in Session, restoring'[s] # None, restoring'[s].branch \in Live'
               PROVE  ver'[restoring'[s].target].branch = restoring'[s].branch
    BY DEF RestoringKnowsBranch
  <2>1. /\ restoring[s] # None
        /\ restoring[s].branch \in Live
        /\ restoring[s].target \in Minted
        /\ restoring'[s] = restoring[s]
    BY DEF IInv, TypeOK
  <2> QED BY <2>1 DEF IInv, RestoringKnowsBranch
<1> QED BY <1>7, <1>8, <1>11, <1>12, <1>13
-----------------------------------------------------------------------------
(* The first state.                                                        *)
LEMMA InitIInv == Init => IInv
<1>1. ASSUME Init, ver = [v \in {} |-> None], branches = InitialBranch(None), latest = [b \in {} |-> None]
      PROVE  IInv
  <2>1. Minted = {} /\ Live = {Main} /\ Head(Main) = None /\ DOMAIN latest = {}
    BY <1>1 DEF InitialBranch, Minted, Live, Head
  <2>2. ver \in [Minted -> VersionRow] /\ latest \in [DOMAIN latest -> Minted]
    BY <1>1, <2>1
  <2>3. branches \in [Live -> BranchRow]
    BY <1>1, <2>1, BranchAssumption DEF InitialBranch, BranchRow
  <2>4. TypeOK
    BY <1>1, <2>1, <2>2, <2>3, BranchAssumption DEF Init, TypeOK
  <2> QED BY <1>1, <2>1, <2>4 DEF IInv, Init, HeadIsHighest, NumberedLine, NothingLost, Own,
                                  LatestFloats, RestoringKnowsBranch, RollbackStaysOnLine
<1>2. ASSUME Init, NEW doc \in Doc, NEW v \in VersionId,
             ver = [w \in {v} |-> [branch |-> Main, number |-> 1, doc |-> doc, parent |-> None,
                                   mergeParent |-> None, restored |-> None]],
             branches = InitialBranch(v), latest = [b \in {Main} |-> v]
      PROVE  IInv
  <2>1. Minted = {v} /\ Live = {Main} /\ Head(Main) = v /\ DOMAIN latest = {Main} /\ latest[Main] = v
    BY <1>2 DEF InitialBranch, Minted, Live, Head
  <2>2. ver[v] = [branch |-> Main, number |-> 1, doc |-> doc, parent |-> None,
                  mergeParent |-> None, restored |-> None]
    BY <1>2
  <2>3. ver[v] \in VersionRow
    BY <2>2, BranchAssumption DEF VersionRow
  <2>4. ver \in [Minted -> VersionRow]
    BY <1>2, <2>1, <2>2, <2>3
  <2>5. branches \in [Live -> BranchRow]
    BY <1>2, <2>1, BranchAssumption DEF InitialBranch, BranchRow
  <2>6. latest \in [DOMAIN latest -> Minted]
    BY <1>2, <2>1
  <2>7. restoring = [s \in Session |-> None] /\ used = {Main}
    BY <1>2 DEF Init
  <2>8. TypeOK
    BY <2>1, <2>2, <2>4, <2>5, <2>6, <2>7, BranchAssumption DEF TypeOK
  <2>9. \A b \in Live : b = Main
    BY <2>1
  <2>10. v # None
    BY VersionAssumption
  <2>11. Own(Main) = {v}
    BY <2>1, <2>2 DEF Own
  <2>12. HeadIsHighest
    BY <2>1, <2>2, <2>9, <2>11 DEF HeadIsHighest
  <2>13. NumberedLine
    BY <2>1, <2>2, <2>9, <2>10, <2>11 DEF NumberedLine
  <2>14. NothingLost
    BY <2>1, <2>9, <2>10, <2>11, LineReflexive DEF NothingLost
  <2>15. LatestFloats
    BY <2>1, <2>9, <2>10 DEF LatestFloats
  <2>16. RestoringKnowsBranch /\ RollbackStaysOnLine
    BY <2>1, <2>2, <2>7 DEF RestoringKnowsBranch, RollbackStaysOnLine
  <2> QED BY <2>8, <2>12, <2>13, <2>14, <2>15, <2>16 DEF IInv
<1> QED BY <1>1, <1>2 DEF Init

-----------------------------------------------------------------------------
(* Each operation preserves the invariant.                                 *)

(* What every commit and rollback does through insertVersion.              *)
LEMMA InsertStep ==
  ASSUME IInv, NEW b \in Live, NEW doc \in Doc, NEW restored \in Minted \cup {None},
         NEW v \in VersionId, insertVersion(v, b, doc, restored),
         used' = used,
         restoring' \in [Session -> Restore \cup {None}],
         \A s \in Session : restoring'[s] # None => restoring'[s] = restoring[s],
         restored # None => Head(b) # None /\ wasHeadOf(Head(b), restored)
  PROVE  IInv'
<1>1. /\ v \in VersionId \ Minted
      /\ Minted' = Minted \cup {v}
      /\ Live' = Live
      /\ \A c \in Live : branches'[c] = IF c = b THEN [branches[b] EXCEPT !.head = v] ELSE branches[c]
      /\ \A w \in Minted : ver'[w] = ver[w]
  BY DEF insertVersion, IsFresh, WithVersion, MovedHead, Minted, Live
<1>2. ver'[v] = [branch |-> b, number |-> NextNumber(b), doc |-> doc, parent |-> Head(b),
                 mergeParent |-> None, restored |-> restored]
  BY <1>1 DEF insertVersion, WithVersion
<1>3. \A c \in Live : branches[c] \in BranchRow
  BY DEF IInv, TypeOK
<1>4. Head(b)' = v /\ \A c \in Live' \ {b} : Head(c)' = Head(c)
  BY <1>1, <1>3 DEF Head, BranchRow
<1>5. \A w \in Minted : ver[w].branch \in Live \cup {None} /\ ver[w].branch \notin {}
  BY DEF IInv, TypeOK
<1>6. /\ HeadIsHighest'
      /\ NumberedLine'
      /\ NothingLost'
      /\ RollbackStaysOnLine'
      /\ RestoringKnowsBranch'
  <2> DEFINE gone == {}
  <2>1. gone \in SUBSET (Live \ {b}) /\ Live' = Live \ gone
    BY <1>1
  <2>2. \A w \in Minted : /\ ver'[w].parent = ver[w].parent
                          /\ ver'[w].number = ver[w].number
                          /\ ver'[w].restored = ver[w].restored
                          /\ ver'[w].branch = IF ver[w].branch \in gone THEN None ELSE ver[w].branch
    BY <1>1
  <2> HIDE DEF gone
  <2>3. /\ ver'[v].branch = b
        /\ ver'[v].number = NextNumber(b)
        /\ ver'[v].parent = Head(b)
        /\ ver'[v].restored # None =>
             /\ Head(b) # None
             /\ ver'[v].restored \in Minted
             /\ wasHeadOf(Head(b), ver'[v].restored)
    BY <1>2
  <2> QED BY <1>1, <1>4, <2>1, <2>2, <2>3, MintStep
<1>7. NextNumber(b) \in Nat
  BY NextNumberValue DEF IInv
<1>8. ver'[v] \in VersionRow
  BY <1>2, <1>7 DEF VersionRow, IInv, TypeOK
<1>9. TypeOK'
  <2>1. ver' \in [Minted' -> VersionRow]
    BY <1>1, <1>8 DEF insertVersion, WithVersion, IInv, TypeOK, Minted
  <2>2. \A w \in Minted' : /\ {ver'[w].parent, ver'[w].mergeParent, ver'[w].restored} \subseteq Minted' \cup {None}
                           /\ ver'[w].branch \in Live' \cup {None}
    BY <1>1, <1>2 DEF IInv, TypeOK
  <2>3. branches' \in [Live' -> BranchRow]
    BY <1>1, <1>3 DEF insertVersion, MovedHead, BranchRow, IInv, TypeOK, Live
  <2>4. \A c \in Live' : Head(c)' \in Minted' \cup {None}
    BY <1>1, <1>4 DEF IInv, TypeOK
  <2>5. latest' \in [DOMAIN latest' -> Minted'] /\ DOMAIN latest' \subseteq Live'
    BY <1>1 DEF insertVersion, moveLatestTag, IInv, TypeOK
  <2>6. \A s \in Session : restoring'[s] # None =>
           restoring'[s].target \in Minted' /\ restoring'[s].branch \in used' \cup {None}
    BY <1>1 DEF IInv, TypeOK
  <2> QED BY <1>1, <2>1, <2>2, <2>3, <2>4, <2>5, <2>6 DEF IInv, TypeOK
<1>10. LatestFloats'
  BY <1>1, <1>4, VersionAssumption DEF insertVersion, moveLatestTag, IInv, TypeOK, LatestFloats
<1> QED BY <1>6, <1>9, <1>10 DEF IInv

LEMMA CommitStep ==
  ASSUME IInv, NEW b \in Live, NEW doc \in Doc, NEW base \in Minted \cup {None},
         NEW principal, commit(b, doc, base, principal)
  PROVE  IInv'
<1>1. PICK v \in VersionId : insertVersion(v, b, doc, None)
  BY DEF commit
<1>2. used' = used /\ restoring' = restoring
  BY DEF commit
<1>3. restoring' \in [Session -> Restore \cup {None}]
  BY <1>2 DEF IInv, TypeOK
<1>4. \A s \in Session : restoring'[s] # None => restoring'[s] = restoring[s]
  BY <1>2
<1> QED BY <1>1, <1>2, <1>3, <1>4, InsertStep

LEMMA PatchLayoutStep ==
  ASSUME IInv, NEW b \in Live, NEW layout \in Value, patchLayout(b, layout)
  PROVE  IInv'
<1>1. PICK v \in Own(b) : ver' = [ver EXCEPT ![v].doc[Position] = layout]
  BY DEF patchLayout
<1>2. v \in Minted /\ ver \in [Minted -> VersionRow]
  BY DEF Own, IInv, TypeOK
<1>3. Minted' = Minted /\ \A w \in Minted \ {v} : ver'[w] = ver[w]
  BY <1>1, <1>2 DEF Minted
<1>4. ver'[v] = [ver[v] EXCEPT !.doc[Position] = layout]
  BY <1>1, <1>2
<1>5. ver[v] \in VersionRow /\ ver[v].doc \in Doc
  BY <1>2 DEF VersionRow
<1>6. [ver[v].doc EXCEPT ![Position] = layout] \in Doc
  BY <1>5 DEF Doc
<1>7. ver'[v] \in VersionRow
  BY <1>4, <1>5, <1>6 DEF VersionRow
<1>8. \A w \in Minted : /\ ver'[w].parent = ver[w].parent
                        /\ ver'[w].number = ver[w].number
                        /\ ver'[w].restored = ver[w].restored
                        /\ ver'[w].branch = ver[w].branch
                        /\ ver'[w].mergeParent = ver[w].mergeParent
  BY <1>3, <1>4, <1>5 DEF VersionRow
<1>9. ver' \in [Minted' -> VersionRow]
  BY <1>1, <1>2, <1>3, <1>7
<1>10. branches' = branches /\ latest' = latest /\ used' = used /\ restoring' = restoring
  BY DEF patchLayout
<1>11. TypeOK'
  BY <1>3, <1>8, <1>9, <1>10 DEF IInv, TypeOK, Live, Head
<1>12. LatestFloats'
  BY <1>10 DEF IInv, LatestFloats, Live, Head
<1>13. Live' = Live /\ \A c \in Live : Head(c)' = Head(c)
  BY <1>10 DEF Live, Head
<1>14. /\ HeadIsHighest'
       /\ NumberedLine'
       /\ NothingLost'
       /\ RollbackStaysOnLine'
       /\ RestoringKnowsBranch'
  BY <1>3, <1>8, <1>10, <1>13, KeepStep
<1> QED BY <1>11, <1>12, <1>14 DEF IInv

LEMMA ReadRollbackTargetStep ==
  ASSUME IInv, NEW s \in Session, NEW v \in Minted, readRollbackTarget(s, v)
  PROVE  IInv'
<1> DEFINE r == [target |-> v, branch |-> ver[v].branch, doc |-> ver[v].doc]
<1>1. /\ restoring' = [restoring EXCEPT ![s] = r]
      /\ ver' = ver /\ branches' = branches /\ latest' = latest /\ used' = used
  BY DEF readRollbackTarget
<1>2. r \in Restore /\ r.branch \in used \cup {None} /\ r.target \in Minted
  BY DEF IInv, TypeOK, VersionRow, Restore
<1>3. restoring \in [Session -> Restore \cup {None}]
  BY DEF IInv, TypeOK
<1>4. restoring'[s] = r /\ \A q \in Session \ {s} : restoring'[q] = restoring[q]
  BY <1>1, <1>3
<1>5. restoring' \in [Session -> Restore \cup {None}]
  BY <1>1, <1>2, <1>3
<1>6. \A q \in Session : restoring'[q] # None =>
         restoring'[q].target \in Minted /\ restoring'[q].branch \in used \cup {None}
  BY <1>2, <1>4 DEF IInv, TypeOK
<1>7. TypeOK'
  BY <1>1, <1>5, <1>6 DEF IInv, TypeOK, Minted, Live, Head
<1>8. LatestFloats'
  BY <1>1 DEF IInv, LatestFloats, Live, Head
<1>9. Minted' = Minted /\ Live' = Live /\ \A c \in Live : Head(c)' = Head(c)
  BY <1>1 DEF Minted, Live, Head
<1>10. \A q \in Session : restoring'[q] # None =>
          \/ restoring'[q] = restoring[q]
          \/ restoring'[q].target \in Minted /\ restoring'[q].branch = ver[restoring'[q].target].branch
  BY <1>4
<1>11. /\ HeadIsHighest'
       /\ NumberedLine'
       /\ NothingLost'
       /\ RollbackStaysOnLine'
       /\ RestoringKnowsBranch'
  <2> HIDE DEF r
  <2> QED BY <1>1, <1>9, <1>10, KeepStep
<1> QED BY <1>7, <1>8, <1>11 DEF IInv

LEMMA RollbackStep ==
  ASSUME IInv, NEW s \in Session, rollback(s)
  PROVE  IInv'
<1> DEFINE r == restoring[s]
           b == RestoreOnto(r)
<1>1. /\ r \in Restore
      /\ r.target \in Minted
      /\ r.branch \in used \cup {None}
      /\ r.doc \in Doc
      /\ restoring' = [restoring EXCEPT ![s] = None]
      /\ used' = used
  BY DEF rollback, IInv, TypeOK, Restore
<1>2. restoring \in [Session -> Restore \cup {None}]
  BY DEF IInv, TypeOK
<1>3. restoring' \in [Session -> Restore \cup {None}]
  BY <1>1, <1>2
<1>4. \A q \in Session : restoring'[q] # None => restoring'[q] = restoring[q]
  BY <1>1, <1>2
<1>5. b \in Live
  BY DEF RestoreOnto, IInv, TypeOK
<1>6. CASE UNCHANGED <<ver, branches, latest>>
  <2>1. Minted' = Minted /\ Live' = Live /\ \A c \in Live : Head(c)' = Head(c)
    BY <1>6 DEF Minted, Live, Head
  <2>2. \A q \in Session : restoring'[q] # None =>
           restoring'[q].target \in Minted' /\ restoring'[q].branch \in used' \cup {None}
    BY <1>1, <1>4, <2>1 DEF IInv, TypeOK
  <2>3. TypeOK'
    BY <1>1, <1>3, <1>6, <2>1, <2>2 DEF IInv, TypeOK
  <2>4. LatestFloats'
    BY <1>6, <2>1 DEF IInv, LatestFloats
  <2>5. \A w \in Minted : ver[w].branch \in {ver[w].branch, None}
    OBVIOUS
  <2>6. /\ HeadIsHighest'
        /\ NumberedLine'
        /\ NothingLost'
        /\ RollbackStaysOnLine'
        /\ RestoringKnowsBranch'
    BY <1>4, <1>6, <2>1, <2>5, KeepStep
  <2> QED BY <2>3, <2>4, <2>6 DEF IInv
<1>7. CASE /\ ~Orphaned(r)
           /\ \E v \in VersionId : insertVersion(v, b, r.doc, r.target)
  <2>1. PICK v \in VersionId : insertVersion(v, b, r.doc, r.target)
    BY <1>7
  <2>2. Head(b) # None /\ wasHeadOf(Head(b), r.target)
    <3>1. CASE r.branch \in Live
      <4>1. r.target \in Own(b)
        BY <1>1, <3>1 DEF RestoreOnto, Own, IInv, RestoringKnowsBranch, rollback
      <4> QED BY <1>5, <4>1 DEF IInv, NothingLost
    <3>2. CASE r.branch \notin Live
      BY <1>7, <3>2 DEF Orphaned, RestoreOnto
    <3> QED BY <3>1, <3>2
  <2>3. r.target \in Minted \cup {None}
    BY <1>1
  <2> HIDE DEF r, b
  <2> QED BY <1>1, <1>3, <1>4, <1>5, <2>1, <2>2, <2>3, InsertStep
<1> QED BY <1>6, <1>7 DEF rollback

LEMMA CreateBranchStep ==
  ASSUME IInv, NEW b \in BranchId, NEW name \in BranchName, NEW from \in Minted \cup {None},
         createBranch(b, name, from)
  PROVE  IInv'
<1>1. /\ b \in BranchId \ used
      /\ used' = used \cup {b}
      /\ ver' = ver /\ restoring' = restoring
      /\ latest' = IF from = None THEN latest ELSE moveLatestTag(b, from)
  BY DEF createBranch
<1>2. /\ Minted' = Minted
      /\ Live' = Live \cup {b}
      /\ b \notin Live
      /\ branches'[b] = [name |-> name, head |-> from, isProtected |-> FALSE]
      /\ \A c \in Live : branches'[c] = branches[c]
  BY <1>1 DEF createBranch, Minted, Live, IInv, TypeOK
<1>3. Head(b)' = from /\ \A c \in Live : Head(c)' = Head(c)
  BY <1>2 DEF Head
<1>4. branches' \in [Live' -> BranchRow]
  BY <1>2 DEF createBranch, IInv, TypeOK, BranchRow, Live
<1>5. /\ latest' \in [DOMAIN latest' -> Minted']
      /\ DOMAIN latest' \subseteq Live'
  BY <1>1, <1>2 DEF moveLatestTag, IInv, TypeOK
<1>6. \A q \in Session : restoring'[q] # None =>
         restoring'[q].target \in Minted' /\ restoring'[q].branch \in used' \cup {None}
  BY <1>1, <1>2 DEF IInv, TypeOK
<1>7. \A w \in Minted : ver'[w].branch \in Live' \cup {None}
  BY <1>1, <1>2 DEF IInv, TypeOK
<1>8. TypeOK'
  <2>1. ver' \in [Minted' -> VersionRow] /\ Minted' \subseteq VersionId
    BY <1>1, <1>2 DEF IInv, TypeOK
  <2>2. \A w \in Minted' : {ver'[w].parent, ver'[w].mergeParent, ver'[w].restored} \subseteq Minted' \cup {None}
    BY <1>1, <1>2 DEF IInv, TypeOK
  <2>3. Main \in Live' /\ Live' \subseteq used' /\ used' \subseteq BranchId
    BY <1>1, <1>2 DEF IInv, TypeOK
  <2>4. \A c \in Live' : Head(c)' \in Minted' \cup {None}
    BY <1>2, <1>3 DEF IInv, TypeOK
  <2>5. restoring' \in [Session -> Restore \cup {None}]
    BY <1>1 DEF IInv, TypeOK
  <2> QED BY <1>2, <1>4, <1>5, <1>6, <1>7, <2>1, <2>2, <2>3, <2>4, <2>5 DEF TypeOK
<1>9. LatestFloats'
  <2>1. CASE from = None
    BY <1>1, <1>2, <1>3, <2>1 DEF IInv, LatestFloats
  <2>2. CASE from # None
    BY <1>1, <1>2, <1>3, <2>2 DEF IInv, TypeOK, LatestFloats, moveLatestTag
  <2> QED BY <2>1, <2>2
<1>10. Live' \ Live \subseteq BranchId \ used
  BY <1>1, <1>2
<1>11. \A w \in Minted : ver'[w] = ver[w] /\ ver[w].branch \in {ver[w].branch, None}
  BY <1>1
<1>12. /\ HeadIsHighest'
       /\ NumberedLine'
       /\ NothingLost'
       /\ RollbackStaysOnLine'
       /\ RestoringKnowsBranch'
  BY <1>1, <1>2, <1>3, <1>10, <1>11, KeepStep
<1> QED BY <1>8, <1>9, <1>12 DEF IInv

LEMMA SetProtectionStep ==
  ASSUME IInv, NEW b \in Live, NEW isProtected \in BOOLEAN, setProtection(b, isProtected)
  PROVE  IInv'
<1>1. /\ branches' = [branches EXCEPT ![b].isProtected = isProtected]
      /\ ver' = ver /\ latest' = latest /\ used' = used /\ restoring' = restoring
  BY DEF setProtection
<1>2. \A c \in Live : branches[c] \in BranchRow
  BY DEF IInv, TypeOK
<1>3. Minted' = Minted /\ Live' = Live
  BY <1>1 DEF Minted, Live
<1>4. \A c \in Live : Head(c)' = Head(c)
  BY <1>1, <1>2 DEF Head, BranchRow, Live
<1>5. branches' \in [Live' -> BranchRow]
  BY <1>1, <1>2, <1>3 DEF IInv, TypeOK, BranchRow
<1>6. TypeOK'
  BY <1>1, <1>3, <1>4, <1>5 DEF IInv, TypeOK
<1>7. LatestFloats'
  BY <1>1, <1>3, <1>4 DEF IInv, LatestFloats
<1>8. \A w \in Minted : ver'[w] = ver[w] /\ ver[w].branch \in {ver[w].branch, None}
  BY <1>1
<1>9. /\ HeadIsHighest'
      /\ NumberedLine'
      /\ NothingLost'
      /\ RollbackStaysOnLine'
      /\ RestoringKnowsBranch'
  BY <1>1, <1>3, <1>4, <1>8, KeepStep
<1> QED BY <1>6, <1>7, <1>9 DEF IInv

LEMMA DeleteBranchStep ==
  ASSUME IInv, NEW b \in Live, deleteBranch(b)
  PROVE  IInv'
<1>1. /\ b # Main
      /\ ver' = Branchless(ver, b)
      /\ branches' = Restrict(branches, Live \ {b})
      /\ latest' = Restrict(latest, DOMAIN latest \ {b})
      /\ used' = used /\ restoring' = restoring
  BY DEF deleteBranch, Deletable
<1>2. /\ Minted' = Minted
      /\ Live' = Live \ {b}
      /\ \A c \in Live' : branches'[c] = branches[c]
  BY <1>1 DEF Branchless, Restrict, Minted, Live
<1>3. \A w \in Minted : ver'[w] = IF ver[w].branch = b THEN [ver[w] EXCEPT !.branch = None] ELSE ver[w]
  BY <1>1 DEF Branchless, Minted
<1>4. \A w \in Minted : ver[w] \in VersionRow /\ ver[w].branch \in Live \cup {None}
  BY DEF IInv, TypeOK
<1>5. \A w \in Minted : /\ ver'[w] \in VersionRow
                        /\ ver'[w].parent = ver[w].parent
                        /\ ver'[w].mergeParent = ver[w].mergeParent
                        /\ ver'[w].number = ver[w].number
                        /\ ver'[w].restored = ver[w].restored
                        /\ ver'[w].branch = IF ver[w].branch = b THEN None ELSE ver[w].branch
  <2> SUFFICES ASSUME NEW w \in Minted
               PROVE  /\ ver'[w] \in VersionRow
                      /\ ver'[w].parent = ver[w].parent
                      /\ ver'[w].mergeParent = ver[w].mergeParent
                      /\ ver'[w].number = ver[w].number
                      /\ ver'[w].restored = ver[w].restored
                      /\ ver'[w].branch = IF ver[w].branch = b THEN None ELSE ver[w].branch
    OBVIOUS
  <2>1. CASE ver[w].branch = b
    BY <1>3, <1>4, <2>1 DEF VersionRow
  <2>2. CASE ver[w].branch # b
    BY <1>3, <1>4, <2>2
  <2> QED BY <2>1, <2>2
<1>6. \A c \in Live' : Head(c)' = Head(c)
  BY <1>2 DEF Head
<1>7. TypeOK'
  <2>1. ver' \in [Minted' -> VersionRow] /\ Minted' \subseteq VersionId
    BY <1>1, <1>2, <1>5 DEF IInv, TypeOK, Branchless, Minted
  <2>2. \A w \in Minted' : /\ {ver'[w].parent, ver'[w].mergeParent, ver'[w].restored} \subseteq Minted' \cup {None}
                           /\ ver'[w].branch \in Live' \cup {None}
    BY <1>2, <1>4, <1>5 DEF IInv, TypeOK
  <2>3. branches' \in [Live' -> BranchRow]
    BY <1>1, <1>2 DEF IInv, TypeOK, Restrict
  <2>4. latest' \in [DOMAIN latest' -> Minted'] /\ DOMAIN latest' \subseteq Live'
    BY <1>1, <1>2 DEF IInv, TypeOK, Restrict
  <2>5. Main \in Live' /\ Live' \subseteq used' /\ used' \subseteq BranchId
    BY <1>1, <1>2 DEF IInv, TypeOK
  <2>6. \A c \in Live' : Head(c)' \in Minted' \cup {None}
    BY <1>2, <1>6 DEF IInv, TypeOK
  <2>7. /\ restoring' \in [Session -> Restore \cup {None}]
        /\ \A s \in Session : restoring'[s] # None =>
             restoring'[s].target \in Minted' /\ restoring'[s].branch \in used' \cup {None}
    BY <1>1, <1>2 DEF IInv, TypeOK
  <2> QED BY <2>1, <2>2, <2>3, <2>4, <2>5, <2>6, <2>7 DEF TypeOK
<1>8. LatestFloats'
  BY <1>1, <1>2, <1>6 DEF IInv, TypeOK, LatestFloats, Restrict
<1>9. \A w \in Minted : /\ ver'[w].branch \in {ver[w].branch, None}
                        /\ ver[w].branch \in Live' => ver'[w].branch = ver[w].branch
  BY <1>2, <1>5
<1>10. Live' \ Live \subseteq BranchId \ used
  BY <1>2
<1>11. /\ HeadIsHighest'
       /\ NumberedLine'
       /\ NothingLost'
       /\ RollbackStaysOnLine'
       /\ RestoringKnowsBranch'
  BY <1>1, <1>2, <1>5, <1>6, <1>9, <1>10, KeepStep
<1> QED BY <1>7, <1>8, <1>11 DEF IInv

(* Every document a merge can land is a document.                          *)
LEMMA MergedDocType ==
  ASSUME IInv, NEW s \in Live, NEW t \in Live, MergeAllowed(s, t), NEW doc \in MergedDocs(s, t)
  PROVE  doc \in Doc
<1> DEFINE S == ver[Head(s)].doc
           T == ver[Head(t)].doc
<1>1. Head(s) \in Minted /\ Head(t) \in Minted
  BY DEF MergeAllowed, IInv, TypeOK
<1>2. S \in Doc /\ T \in Doc
  BY <1>1 DEF IInv, TypeOK, VersionRow
<1>3. PICK base \in MergeBases(s, t) :
         \E chosen \in [ConflictFields(ver[base].doc, S, T) -> Value] :
           doc = threeWayMerge(ver[base].doc, S, T, chosen)
  BY DEF MergedDocs
<1>4. PICK chosen \in [ConflictFields(ver[base].doc, S, T) -> Value] :
         doc = threeWayMerge(ver[base].doc, S, T, chosen)
  BY <1>3
<1>5. \A f \in Field : f \in ConflictFields(ver[base].doc, S, T) => chosen[f] \in Value
  OBVIOUS
<1>6. \A f \in Field : S[f] \in Value /\ T[f] \in Value
  BY <1>2 DEF Doc
<1> HIDE DEF S, T
<1> QED BY <1>4, <1>5, <1>6 DEF threeWayMerge, Doc

(* A merge mints one version on its target, and may let its source go.     *)
LEMMA MergeMints ==
  ASSUME IInv, NEW s \in Live, NEW t \in Live, MergeAllowed(s, t),
         NEW v \in VersionId, IsFresh(v), NEW doc \in MergedDocs(s, t),
         NEW gone \in SUBSET (Live \ {t, Main}),
         Minted' = Minted \cup {v},
         \A w \in Minted :
            ver'[w] = IF ver[w].branch \in gone THEN [ver[w] EXCEPT !.branch = None] ELSE ver[w],
         ver' = [w \in Minted' |-> ver'[w]],
         ver'[v] = MergedVersion(s, t, doc),
         branches' = Restrict(MovedHead(t, v), Live \ gone),
         latest' = Restrict(moveLatestTag(t, v), (DOMAIN latest \cup {t}) \ gone),
         used' = used, restoring' = restoring
  PROVE  IInv'
<1>1. v \in VersionId \ Minted
  BY DEF IsFresh
<1>2. Head(s) \in Minted /\ Head(t) \in Minted
  BY DEF MergeAllowed, IInv, TypeOK
<1>3. \A c \in Live : branches[c] \in BranchRow
  BY DEF IInv, TypeOK
<1>4. /\ Live' = Live \ gone
      /\ \A c \in Live' : branches'[c] = IF c = t THEN [branches[t] EXCEPT !.head = v] ELSE branches[c]
  BY DEF Live, Restrict, MovedHead
<1>5. t \in Live' /\ Head(t)' = v /\ \A c \in Live' \ {t} : Head(c)' = Head(c)
  BY <1>3, <1>4 DEF Head, BranchRow
<1>6. \A w \in Minted : ver[w] \in VersionRow /\ ver[w].branch \in Live \cup {None}
  BY DEF IInv, TypeOK
<1>7. \A w \in Minted : /\ ver'[w] \in VersionRow
                        /\ ver'[w].parent = ver[w].parent
                        /\ ver'[w].mergeParent = ver[w].mergeParent
                        /\ ver'[w].number = ver[w].number
                        /\ ver'[w].restored = ver[w].restored
                        /\ ver'[w].branch = IF ver[w].branch \in gone THEN None ELSE ver[w].branch
  <2> SUFFICES ASSUME NEW w \in Minted
               PROVE  /\ ver'[w] \in VersionRow
                      /\ ver'[w].parent = ver[w].parent
                      /\ ver'[w].mergeParent = ver[w].mergeParent
                      /\ ver'[w].number = ver[w].number
                      /\ ver'[w].restored = ver[w].restored
                      /\ ver'[w].branch = IF ver[w].branch \in gone THEN None ELSE ver[w].branch
    OBVIOUS
  <2>1. CASE ver[w].branch \in gone
    BY <1>6, <2>1 DEF VersionRow
  <2>2. CASE ver[w].branch \notin gone
    BY <1>6, <2>2
  <2> QED BY <2>1, <2>2
<1>8. /\ ver'[v].branch = t
      /\ ver'[v].number = NextNumber(t)
      /\ ver'[v].parent = Head(t)
      /\ ver'[v].mergeParent = Head(s)
      /\ ver'[v].restored = None
  BY DEF MergedVersion
<1>9. ver'[v] \in VersionRow
  <2>1. NextNumber(t) \in Nat
    BY NextNumberValue DEF IInv
  <2>2. doc \in Doc /\ t \in BranchId /\ Head(s) \in VersionId /\ Head(t) \in VersionId
    BY <1>2, MergedDocType DEF IInv, TypeOK
  <2> QED BY <2>1, <2>2 DEF MergedVersion, VersionRow
<1>10. TypeOK'
  <2>1. ver' \in [Minted' -> VersionRow] /\ Minted' \subseteq VersionId
    BY <1>1, <1>7, <1>9 DEF IInv, TypeOK
  <2>2. \A w \in Minted' : /\ {ver'[w].parent, ver'[w].mergeParent, ver'[w].restored} \subseteq Minted' \cup {None}
                           /\ ver'[w].branch \in Live' \cup {None}
    <3> SUFFICES ASSUME NEW w \in Minted'
                 PROVE  /\ {ver'[w].parent, ver'[w].mergeParent, ver'[w].restored} \subseteq Minted' \cup {None}
                        /\ ver'[w].branch \in Live' \cup {None}
      OBVIOUS
    <3>1. CASE w = v
      BY <1>2, <1>5, <1>8, <3>1
    <3>2. CASE w \in Minted
      BY <1>4, <1>6, <1>7, <3>2 DEF IInv, TypeOK
    <3> QED BY <3>1, <3>2
  <2>3. branches' \in [Live' -> BranchRow]
    <3>1. branches' = [c \in Live' |-> branches'[c]]
      BY <1>4 DEF Restrict
    <3>2. [branches[t] EXCEPT !.head = v] \in BranchRow
      BY <1>1, <1>3 DEF BranchRow
    <3>3. ASSUME NEW c \in Live' PROVE branches'[c] \in BranchRow
      <4>1. c \in Live /\ branches'[c] = IF c = t THEN [branches[t] EXCEPT !.head = v] ELSE branches[c]
        BY <1>4
      <4>2. CASE c = t
        BY <3>2, <4>1, <4>2
      <4>3. CASE c # t
        BY <1>3, <4>1, <4>3
      <4> QED BY <4>2, <4>3
    <3> QED BY <3>1, <3>3
  <2>4. latest' \in [DOMAIN latest' -> Minted'] /\ DOMAIN latest' \subseteq Live'
    BY <1>4 DEF Restrict, moveLatestTag, IInv, TypeOK
  <2>5. Main \in Live' /\ Live' \subseteq used' /\ used' \subseteq BranchId
    BY <1>4 DEF IInv, TypeOK
  <2>6. \A c \in Live' : Head(c)' \in Minted' \cup {None}
    BY <1>4, <1>5 DEF IInv, TypeOK
  <2>7. /\ restoring' \in [Session -> Restore \cup {None}]
        /\ \A q \in Session : restoring'[q] # None =>
             restoring'[q].target \in Minted' /\ restoring'[q].branch \in used' \cup {None}
    BY DEF IInv, TypeOK
  <2> QED BY <2>1, <2>2, <2>3, <2>4, <2>5, <2>6, <2>7 DEF TypeOK
<1>11. LatestFloats'
  <2>1. DOMAIN latest' = (DOMAIN latest \cup {t}) \ gone
    BY DEF Restrict
  <2>2. \A c \in DOMAIN latest' : latest'[c] = IF c = t THEN v ELSE latest[c]
    BY <2>1 DEF Restrict, moveLatestTag
  <2>3. /\ DOMAIN latest = {c \in Live : Head(c) # None}
        /\ \A c \in DOMAIN latest : latest[c] = Head(c)
    BY DEF IInv, LatestFloats
  <2>4. v # None
    BY <1>1, VersionAssumption
  <2>5. DOMAIN latest' = {c \in Live' : Head(c)' # None}
    BY <1>4, <1>5, <2>1, <2>3, <2>4
  <2>6. \A c \in DOMAIN latest' : latest'[c] = Head(c)'
    BY <1>4, <1>5, <2>1, <2>2, <2>3
  <2> QED BY <2>5, <2>6 DEF LatestFloats
<1>12. /\ HeadIsHighest'
       /\ NumberedLine'
       /\ NothingLost'
       /\ RollbackStaysOnLine'
       /\ RestoringKnowsBranch'
  <2>1. gone \in SUBSET (Live \ {t})
    OBVIOUS
  <2> QED BY <1>1, <1>4, <1>5, <1>7, <1>8, <2>1, MintStep
<1> QED BY <1>10, <1>11, <1>12 DEF IInv

LEMMA MergeBranchInStep ==
  ASSUME IInv, NEW s \in Live, NEW t \in Live, mergeBranchIn(s, t)
  PROVE  IInv'
<1>1. PICK v \in VersionId, doc \in MergedDocs(s, t) :
        /\ IsFresh(v)
        /\ ver' = WithVersion(v, MergedVersion(s, t, doc))
        /\ branches' = MovedHead(t, v)
        /\ latest' = moveLatestTag(t, v)
  BY DEF mergeBranchIn
<1>2. MergeAllowed(s, t) /\ used' = used /\ restoring' = restoring
  BY DEF mergeBranchIn
<1>3. /\ v \notin Minted
      /\ Minted' = Minted \cup {v}
      /\ ver'[v] = MergedVersion(s, t, doc)
      /\ \A w \in Minted : ver'[w] = ver[w]
      /\ ver' = [w \in Minted' |-> ver'[w]]
  BY <1>1 DEF IsFresh, WithVersion, Minted
<1>4. /\ DOMAIN MovedHead(t, v) = Live
      /\ MovedHead(t, v) = [c \in Live |-> MovedHead(t, v)[c]]
      /\ moveLatestTag(t, v) = [c \in DOMAIN latest \cup {t} |-> moveLatestTag(t, v)[c]]
  BY DEF MovedHead, moveLatestTag, Live, IInv, TypeOK
<1> DEFINE gone == {}
<1>5. gone \in SUBSET (Live \ {t, Main})
  OBVIOUS
<1>6. \A w \in Minted :
        ver'[w] = IF ver[w].branch \in gone THEN [ver[w] EXCEPT !.branch = None] ELSE ver[w]
  BY <1>3
<1>7. branches' = Restrict(MovedHead(t, v), Live \ gone)
  BY <1>1, <1>4 DEF Restrict
<1>8. latest' = Restrict(moveLatestTag(t, v), (DOMAIN latest \cup {t}) \ gone)
  BY <1>1, <1>4 DEF Restrict
<1>9. IsFresh(v)
  BY <1>1
<1> HIDE DEF gone
<1> QED BY <1>2, <1>3, <1>5, <1>6, <1>7, <1>8, <1>9, MergeMints

LEMMA MergeAndCleanupStep ==
  ASSUME IInv, NEW s \in Live, NEW t \in Live, mergeAndCleanup(s, t)
  PROVE  IInv'
<1>1. PICK v \in VersionId, doc \in MergedDocs(s, t) :
        /\ IsFresh(v)
        /\ ver' = Branchless(WithVersion(v, MergedVersion(s, t, doc)), s)
        /\ branches' = Restrict(MovedHead(t, v), Live \ {s})
        /\ latest' = Restrict(moveLatestTag(t, v), (DOMAIN latest \cup {t}) \ {s})
  BY DEF mergeAndCleanup
<1>2. /\ MergeAllowed(s, t) /\ used' = used /\ restoring' = restoring
      /\ s # Main
  BY DEF mergeAndCleanup, Deletable
<1>3. s # t
  (* A branch's history holds its own head.                                *)
  <2>1. Head(s) \in Minted
    BY <1>2 DEF MergeAllowed, IInv, TypeOK
  <2>2. historyContains(Head(s), Head(s))
    BY <2>1 DEF historyContains
  <2> QED BY <1>2, <2>2 DEF MergeAllowed
<1>4. DOMAIN WithVersion(v, MergedVersion(s, t, doc)) = Minted \cup {v}
  BY DEF WithVersion
<1>5. v \notin Minted /\ Minted' = Minted \cup {v} /\ ver' = [w \in Minted' |-> ver'[w]]
  BY <1>1, <1>4 DEF IsFresh, Branchless, Minted
<1>6. /\ WithVersion(v, MergedVersion(s, t, doc))[v] = MergedVersion(s, t, doc)
      /\ \A w \in Minted : WithVersion(v, MergedVersion(s, t, doc))[w] = ver[w]
  BY <1>5 DEF WithVersion
<1>7. MergedVersion(s, t, doc).branch = t
  BY DEF MergedVersion
<1>8. ver'[v] = MergedVersion(s, t, doc)
  BY <1>1, <1>3, <1>4, <1>6, <1>7 DEF Branchless
<1>9. \A w \in Minted :
        ver'[w] = IF ver[w].branch \in {s} THEN [ver[w] EXCEPT !.branch = None] ELSE ver[w]
  BY <1>1, <1>4, <1>6 DEF Branchless
<1>10. {s} \in SUBSET (Live \ {t, Main})
  BY <1>2, <1>3
<1> QED BY <1>1, <1>2, <1>5, <1>8, <1>9, <1>10, MergeMints

LEMMA StutterStep ==
  ASSUME IInv, UNCHANGED vars
  PROVE  IInv'
BY DEF vars, IInv, TypeOK, HeadIsHighest, NumberedLine, NothingLost, LatestFloats,
       RestoringKnowsBranch, RollbackStaysOnLine, Minted, Live, Head, Own,
       wasHeadOf, LineClosed
-----------------------------------------------------------------------------
(* Every step preserves the invariant, so it holds in every behaviour.     *)
LEMMA NextIInv == IInv /\ [Next]_vars => IInv'
<1> SUFFICES ASSUME IInv, [Next]_vars
             PROVE  IInv'
  OBVIOUS
<1>1. CASE \E b \in Live, doc \in Doc, base \in Minted \cup {None}, principal \in {"user", "api_key"} :
             commit(b, doc, base, principal)
  BY <1>1, CommitStep
<1>2. CASE \E b \in Live, layout \in Value : patchLayout(b, layout)
  BY <1>2, PatchLayoutStep
<1>3. CASE \E s \in Session, v \in Minted : readRollbackTarget(s, v)
  BY <1>3, ReadRollbackTargetStep
<1>4. CASE \E s \in Session : rollback(s)
  BY <1>4, RollbackStep
<1>5. CASE \E b \in BranchId, name \in BranchName, from \in Minted \cup {None} : createBranch(b, name, from)
  BY <1>5, CreateBranchStep
<1>6. CASE \E b \in Live, isProtected \in BOOLEAN : setProtection(b, isProtected)
  BY <1>6, SetProtectionStep
<1>7. CASE \E b \in Live : deleteBranch(b)
  BY <1>7, DeleteBranchStep
<1>8. CASE \E s, t \in Live : mergeBranchIn(s, t)
  BY <1>8, MergeBranchInStep
<1>9. CASE \E s, t \in Live : mergeAndCleanup(s, t)
  BY <1>9, MergeAndCleanupStep
<1>10. CASE UNCHANGED vars
  BY <1>10, StutterStep
<1> QED BY <1>1, <1>2, <1>3, <1>4, <1>5, <1>6, <1>7, <1>8, <1>9, <1>10 DEF Next

THEOREM InvariantHolds == Spec => []IInv
<1>1. Init => IInv
  BY InitIInv
<1>2. IInv /\ [Next]_vars => IInv'
  BY NextIInv
<1> QED BY <1>1, <1>2, PTL DEF Spec

(* Rows are well formed and their foreign keys name rows that exist.       *)
THEOREM TypeCorrect == Spec => []TypeOK
<1>1. IInv => TypeOK
  BY DEF IInv
<1> QED BY <1>1, InvariantHolds, PTL

(* The version numbers of a live branch are 1, 2, 3, ... along its line.   *)
THEOREM NumbersFormALine == Spec => []NumberedLine
<1>1. IInv => NumberedLine
  BY DEF IInv
<1> QED BY <1>1, InvariantHolds, PTL

(* No commit, merge, rollback or deletion of another branch loses a        *)
(* version a live branch minted.                                           *)
THEOREM NothingIsLost == Spec => []NothingLost
<1>1. IInv => NothingLost
  BY DEF IInv
<1> QED BY <1>1, InvariantHolds, PTL

(* The `latest` tag always stands at the head of its branch.               *)
THEOREM LatestFollowsHead == Spec => []LatestFloats
<1>1. IInv => LatestFloats
  BY DEF IInv
<1> QED BY <1>1, InvariantHolds, PTL

(* A rollback brings back a version its branch once stood at, for any      *)
(* number of rollbacks in flight and anything done between the read of the *)
(* target and the write.                                                   *)
THEOREM RollbackIsSafe == Spec => []RollbackStaysOnLine
<1>1. IInv => RollbackStaysOnLine
  BY DEF IInv
<1> QED BY <1>1, InvariantHolds, PTL

-----------------------------------------------------------------------------
(* A head stays, or moves to a version whose parent it is.                 *)
Advances(b) ==
  \/ Head(b)' = Head(b)
  \/ Head(b)' \in Minted' /\ ver'[Head(b)'].parent = Head(b)

LEMMA InsertAdvances ==
  ASSUME IInv, NEW v \in VersionId, NEW b \in Live, NEW doc, NEW restored,
         insertVersion(v, b, doc, restored),
         NEW c \in Live
  PROVE  Advances(c)
<1>1. \A d \in Live : branches[d] \in BranchRow
  BY DEF IInv, TypeOK
<1>2. v \in Minted' /\ ver'[v].parent = Head(b)
  BY DEF insertVersion, WithVersion, Minted
<1>3. Head(c)' = IF c = b THEN v ELSE Head(c)
  BY <1>1 DEF insertVersion, MovedHead, Head, BranchRow, Live
<1> QED BY <1>2, <1>3 DEF Advances

LEMMA HeadsAdvance ==
  ASSUME IInv, [Next]_vars, NEW c \in Live, c \in Live'
  PROVE  Advances(c)
<1>0. \A d \in Live : branches[d] \in BranchRow
  BY DEF IInv, TypeOK
<1>1. CASE \E b \in Live, doc \in Doc, base \in Minted \cup {None}, principal \in {"user", "api_key"} :
             commit(b, doc, base, principal)
  BY <1>1, InsertAdvances DEF commit
<1>2. CASE \/ \E b \in Live, layout \in Value : patchLayout(b, layout)
           \/ \E s \in Session, v \in Minted : readRollbackTarget(s, v)
           \/ UNCHANGED vars
  BY <1>2 DEF patchLayout, readRollbackTarget, vars, Advances, Head
<1>3. CASE \E s \in Session : rollback(s)
  <2>1. PICK s \in Session : rollback(s)
    BY <1>3
  <2>2. CASE UNCHANGED <<ver, branches, latest>>
    BY <2>2 DEF Advances, Head
  <2>3. CASE \E v \in VersionId :
               insertVersion(v, RestoreOnto(restoring[s]), restoring[s].doc,
                             restoring[s].target)
    <3>1. RestoreOnto(restoring[s]) \in Live
      BY DEF RestoreOnto, IInv, TypeOK
    <3> QED BY <2>3, <3>1, InsertAdvances
  <2> QED BY <2>1, <2>2, <2>3 DEF rollback
<1>4. CASE \E b \in BranchId, name \in BranchName, from \in Minted \cup {None} : createBranch(b, name, from)
  BY <1>4 DEF createBranch, Advances, Head, IInv, TypeOK
<1>5. CASE \E b \in Live, isProtected \in BOOLEAN : setProtection(b, isProtected)
  BY <1>0, <1>5 DEF setProtection, Advances, Head, BranchRow, Live
<1>6. CASE \E b \in Live : deleteBranch(b)
  BY <1>6 DEF deleteBranch, Advances, Head, Restrict, Live
<1>7. CASE \E s, t \in Live : mergeBranchIn(s, t)
  <2>0. PICK s \in Live, t \in Live : mergeBranchIn(s, t)
    BY <1>7
  <2>1. PICK v \in VersionId, doc \in MergedDocs(s, t) :
          /\ ver' = WithVersion(v, MergedVersion(s, t, doc))
          /\ branches' = MovedHead(t, v)
    BY <2>0 DEF mergeBranchIn
  <2>2. v \in Minted' /\ ver'[v].parent = Head(t)
    BY <2>1 DEF WithVersion, MergedVersion, Minted
  <2>3. Head(c)' = IF c = t THEN v ELSE Head(c)
    BY <1>0, <2>1 DEF MovedHead, Head, BranchRow, Live
  <2> QED BY <2>2, <2>3 DEF Advances
<1>8. CASE \E s, t \in Live : mergeAndCleanup(s, t)
  <2>2. PICK s \in Live, t \in Live : mergeAndCleanup(s, t)
    BY <1>8
  <2>3. PICK v \in VersionId, doc \in MergedDocs(s, t) :
          /\ ver' = Branchless(WithVersion(v, MergedVersion(s, t, doc)), s)
          /\ branches' = Restrict(MovedHead(t, v), Live \ {s})
    BY <2>2 DEF mergeAndCleanup
  <2>4. WithVersion(v, MergedVersion(s, t, doc))[v] = MergedVersion(s, t, doc)
    BY DEF WithVersion
  <2>5. v \in Minted' /\ ver'[v].parent = Head(t)
    BY <2>3, <2>4 DEF Branchless, WithVersion, MergedVersion, Minted
  <2>6. c \in Live \ {s}
    BY <2>3 DEF Restrict, Live
  <2>7. Head(c)' = IF c = t THEN v ELSE Head(c)
    BY <1>0, <2>3, <2>6 DEF Restrict, MovedHead, Head, BranchRow, Live
  <2> QED BY <2>5, <2>7 DEF Advances
<1> QED BY <1>1, <1>2, <1>3, <1>4, <1>5, <1>6, <1>7, <1>8 DEF Next

(* The head a branch left is in the history of the one it moved to: no     *)
(* operation makes a branch forget.                                        *)
THEOREM HeadsNeverGoBack == Spec => HeadOnlyAdvances
<1> DEFINE Forward ==
      \A b \in Live \cap Live' : \A v \in Minted :
        Head(b) = v => Head(b)' # None /\ historyContains(Head(b), v)'
<1>1. IInv /\ IInv' /\ [Next]_vars => Forward
  <2> SUFFICES ASSUME IInv, IInv', [Next]_vars, NEW b \in Live, b \in Live',
                      NEW v \in Minted, Head(b) = v
               PROVE  Head(b)' # None /\ historyContains(Head(b), v)'
    OBVIOUS
  <2>1. Advances(b)
    BY HeadsAdvance
  <2>2. Head(b) # None
    BY VersionAssumption DEF IInv, TypeOK
  <2>3. Head(b)' # None
    BY <2>1, <2>2, VersionAssumption DEF Advances, IInv, TypeOK
  <2> QED BY <2>1, <2>2, <2>3 DEF Advances, historyContains, HistoryClosed, Parents
<1>2. Spec => []IInv
  BY InvariantHolds
<1> HIDE DEF Forward
<1>3. Spec => [][Forward]_vars
  BY <1>1, <1>2, PTL DEF Spec
<1> QED BY <1>3 DEF Forward, HeadOnlyAdvances

-----------------------------------------------------------------------------
(* A merge's version, when it is minted: its parents are the two heads,    *)
(* and its document is one the merge can land.                             *)
MergedOf(v) ==
  \E s, t \in Live :
    /\ MergeAllowed(s, t)
    /\ ver'[v].parent = Head(t) /\ ver'[v].mergeParent = Head(s)
    /\ ver'[v].doc \in MergedDocs(s, t)

LEMMA InsertIsNoMerge ==
  ASSUME IInv, NEW v \in VersionId, NEW b \in Live, NEW doc, NEW restored,
         insertVersion(v, b, doc, restored)
  PROVE  /\ Minted' = Minted \cup {v} /\ v \notin Minted
         /\ \A w \in Minted : ver'[w] = ver[w]
         /\ ver'[v].mergeParent = None
BY DEF insertVersion, IsFresh, WithVersion, Minted

(* A step keeps the parents of every version, and a version it mints with  *)
(* a second parent is a merge's.                                           *)
LEMMA StepMints ==
  ASSUME IInv, [Next]_vars
  PROVE  /\ Minted \subseteq Minted'
         /\ \A w \in Minted : /\ ver'[w].parent = ver[w].parent
                              /\ ver'[w].mergeParent = ver[w].mergeParent
         /\ \A w \in Minted' \ Minted : ver'[w].mergeParent # None => MergedOf(w)
<1>0. \A w \in Minted : ver[w] \in VersionRow
  BY DEF IInv, TypeOK
<1>1. CASE \E b \in Live, doc \in Doc, base \in Minted \cup {None}, principal \in {"user", "api_key"} :
             commit(b, doc, base, principal)
  BY <1>1, InsertIsNoMerge DEF commit
<1>2. CASE \E b \in Live, layout \in Value : patchLayout(b, layout)
  <2>1. PICK v \in Minted, layout \in Value : ver' = [ver EXCEPT ![v].doc[Position] = layout]
    BY <1>2 DEF patchLayout, Own
  <2>2. Minted' = Minted
    BY <2>1 DEF Minted
  <2>3. \A w \in Minted : ver'[w].parent = ver[w].parent /\ ver'[w].mergeParent = ver[w].mergeParent
    BY <1>0, <2>1 DEF Minted, VersionRow
  <2> QED BY <2>2, <2>3
<1>3. CASE \E s \in Session : rollback(s)
  <2>1. PICK s \in Session : rollback(s)
    BY <1>3
  <2>2. CASE UNCHANGED <<ver, branches, latest>>
    BY <2>2 DEF Minted
  <2>3. CASE \E v \in VersionId :
               insertVersion(v, RestoreOnto(restoring[s]), restoring[s].doc, restoring[s].target)
    <3>1. RestoreOnto(restoring[s]) \in Live
      BY DEF RestoreOnto, IInv, TypeOK
    <3> QED BY <2>3, <3>1, InsertIsNoMerge
  <2> QED BY <2>1, <2>2, <2>3 DEF rollback
<1>4. CASE ver' = ver
  BY <1>4 DEF Minted
<1>5. CASE \E b \in Live : deleteBranch(b)
  <2>1. PICK b \in Live : ver' = Branchless(ver, b)
    BY <1>5 DEF deleteBranch
  <2>2. Minted' = Minted
    BY <2>1 DEF Branchless, Minted
  <2>3. \A w \in Minted : ver'[w] \in {ver[w], [ver[w] EXCEPT !.branch = None]}
    BY <2>1 DEF Branchless, Minted
  <2>4. \A w \in Minted : ver'[w].parent = ver[w].parent /\ ver'[w].mergeParent = ver[w].mergeParent
    BY <1>0, <2>3 DEF VersionRow
  <2> QED BY <2>2, <2>4
<1>6. CASE \E s, t \in Live : mergeBranchIn(s, t)
  <2>0. PICK s \in Live, t \in Live : mergeBranchIn(s, t)
    BY <1>6
  <2>1. PICK v \in VersionId, doc \in MergedDocs(s, t) :
          IsFresh(v) /\ ver' = WithVersion(v, MergedVersion(s, t, doc))
    BY <2>0 DEF mergeBranchIn
  <2>2. /\ Minted' = Minted \cup {v} /\ v \notin Minted
        /\ \A w \in Minted : ver'[w] = ver[w]
        /\ ver'[v] = MergedVersion(s, t, doc)
    BY <2>1 DEF IsFresh, WithVersion, Minted
  <2>3. MergedOf(v)
    BY <2>0, <2>2 DEF MergedOf, MergedVersion, mergeBranchIn
  <2> QED BY <2>2, <2>3
<1>7. CASE \E s, t \in Live : mergeAndCleanup(s, t)
  <2>0. PICK s \in Live, t \in Live : mergeAndCleanup(s, t)
    BY <1>7
  <2>1. PICK v \in VersionId, doc \in MergedDocs(s, t) :
          IsFresh(v) /\ ver' = Branchless(WithVersion(v, MergedVersion(s, t, doc)), s)
    BY <2>0 DEF mergeAndCleanup
  <2> DEFINE W == WithVersion(v, MergedVersion(s, t, doc))
  <2>2. /\ DOMAIN W = Minted \cup {v} /\ v \notin Minted
        /\ \A w \in Minted : W[w] = ver[w]
        /\ W[v] = MergedVersion(s, t, doc)
    BY <2>1 DEF IsFresh, WithVersion, Minted
  <2>3. /\ Minted' = Minted \cup {v}
        /\ \A w \in Minted' : ver'[w] \in {W[w], [W[w] EXCEPT !.branch = None]}
    <3> HIDE DEF W
    <3> QED BY <2>1, <2>2 DEF Branchless, Minted, W
  <2>4. \A w \in Minted : ver'[w].parent = ver[w].parent /\ ver'[w].mergeParent = ver[w].mergeParent
    BY <1>0, <2>2, <2>3 DEF VersionRow
  <2>5. /\ ver'[v].parent = Head(t)
        /\ ver'[v].mergeParent = Head(s)
        /\ ver'[v].doc = doc
    BY <2>2, <2>3 DEF MergedVersion
  <2>6. MergedOf(v)
    BY <2>0, <2>5 DEF MergedOf, mergeAndCleanup
  <2> QED BY <2>2, <2>3, <2>4, <2>6
<1> QED BY <1>1, <1>2, <1>3, <1>4, <1>5, <1>6, <1>7
        DEF Next, readRollbackTarget, createBranch, setProtection, vars

(* What a version's history lacks it lacks for good: parents never change. *)
LEMMA NewsStaysNews ==
  ASSUME Minted \subseteq Minted',
         \A w \in Minted : ver'[w].parent = ver[w].parent /\ ver'[w].mergeParent = ver[w].mergeParent,
         NEW h \in Minted, NEW v \in Minted, ~historyContains(h, v)
  PROVE  ~historyContains(h, v)'
<1>1. PICK S \in SUBSET Minted : h \in S /\ HistoryClosed(S) /\ v \notin S
  BY DEF historyContains
<1>2. S \in SUBSET Minted' /\ HistoryClosed(S)'
  BY <1>1 DEF HistoryClosed, Parents
<1> QED BY <1>1, <1>2 DEF historyContains

(* No merge ever repeats one that landed: in every version with a second   *)
(* parent, that parent was news to the first.                              *)
THEOREM MergesAreNews == Spec => []MergesBringNews
<1>1. Init => MergesBringNews
  <2>1. ASSUME ver = [v \in {} |-> None]
        PROVE  MergesBringNews
    BY <2>1 DEF MergesBringNews, Minted
  <2>2. ASSUME NEW doc \in Doc, NEW v \in VersionId,
               ver = [w \in {v} |-> [branch |-> Main, number |-> 1, doc |-> doc, parent |-> None,
                                     mergeParent |-> None, restored |-> None]]
        PROVE  MergesBringNews
    <3>1. \A w \in Minted : ver[w].mergeParent = None
      BY <2>2 DEF Minted
    <3> QED BY <3>1 DEF MergesBringNews
  <2> QED BY <2>1, <2>2 DEF Init
<1>2. IInv /\ MergesBringNews /\ [Next]_vars => MergesBringNews'
  <2> SUFFICES ASSUME IInv, MergesBringNews, [Next]_vars,
                      NEW v \in Minted', ver'[v].mergeParent # None
               PROVE  ver'[v].parent # None /\ ~historyContains(ver[v].parent, ver[v].mergeParent)'
    BY DEF MergesBringNews
  <2>1. /\ Minted \subseteq Minted'
        /\ \A w \in Minted : /\ ver'[w].parent = ver[w].parent
                             /\ ver'[w].mergeParent = ver[w].mergeParent
        /\ v \notin Minted => MergedOf(v)
    BY StepMints
  <2>2. /\ ver'[v].parent \in Minted /\ ver'[v].mergeParent \in Minted
        /\ ~historyContains(ver'[v].parent, ver'[v].mergeParent)
    <3>1. CASE v \in Minted
      <4>1. ver'[v].parent = ver[v].parent /\ ver'[v].mergeParent = ver[v].mergeParent
        BY <2>1, <3>1
      <4>2. /\ ver[v].parent # None
            /\ ~historyContains(ver[v].parent, ver[v].mergeParent)
        BY <3>1, <4>1 DEF MergesBringNews
      <4>3. ver[v].parent \in Minted /\ ver[v].mergeParent \in Minted
        BY <3>1, <4>1, <4>2 DEF IInv, TypeOK
      <4> QED BY <4>1, <4>2, <4>3
    <3>2. CASE v \notin Minted
      <4>1. PICK s \in Live, t \in Live :
              /\ MergeAllowed(s, t)
              /\ ver'[v].parent = Head(t) /\ ver'[v].mergeParent = Head(s)
        BY <2>1, <3>2 DEF MergedOf
      <4>2. Head(s) \in Minted /\ Head(t) \in Minted
        BY <4>1 DEF MergeAllowed, IInv, TypeOK
      <4> QED BY <4>1, <4>2 DEF MergeAllowed
    <3> QED BY <3>1, <3>2
  <2>3. \A h, w \in Minted : ~historyContains(h, w) => ~historyContains(h, w)'
    BY <2>1, NewsStaysNews
  <2>4. ver'[v].parent # None
    BY <2>2, VersionAssumption DEF IInv, TypeOK
  <2> QED BY <2>2, <2>3, <2>4
<1> QED BY <1>1, <1>2, InvariantHolds, PTL DEF Spec

(* The base of a merge into a branch the source has already taken in is    *)
(* that branch's head, so only the source has changes.                     *)
LEMMA UpToDateBase ==
  ASSUME IInv, NEW s \in Live, NEW t \in Live, MergeAllowed(s, t),
         historyContains(Head(s), Head(t))
  PROVE  \A doc \in MergedDocs(s, t) : doc = ver[Head(s)].doc
<1> DEFINE S == ver[Head(s)].doc
           T == ver[Head(t)].doc
<1>1. Head(s) \in Minted /\ Head(t) \in Minted
  BY DEF MergeAllowed, IInv, TypeOK
<1>2. Head(t) \in Common(Head(s), Head(t))
  BY <1>1 DEF Common, historyContains
<1>3. \A v \in Common(Head(s), Head(t)) : historyContains(Head(t), v)
  BY DEF Common
<1>4. \A base \in MergeBases(s, t) : base = Head(t)
  BY <1>2, <1>3 DEF MergeBases, lowestCommonAncestor
<1>5. S \in Doc /\ T \in Doc
  BY <1>1 DEF IInv, TypeOK, VersionRow
<1>6. \A chosen : threeWayMerge(T, S, T, chosen) = S
  <2> HIDE DEF S, T
  <2>1. \A f \in Field : f \notin ConflictFields(T, S, T)
    BY DEF ConflictFields, computeDiff
  <2>2. \A f \in Field : f \notin computeDiff(T, S) => T[f] = S[f]
    BY DEF computeDiff
  <2>3. S = [f \in Field |-> S[f]]
    BY <1>5 DEF Doc
  <2> QED BY <2>1, <2>2, <2>3 DEF threeWayMerge
<1> SUFFICES ASSUME NEW doc \in MergedDocs(s, t) PROVE doc = S
  OBVIOUS
<1>7. PICK base \in MergeBases(s, t) :
         \E chosen \in [ConflictFields(ver[base].doc, S, T) -> Value] :
           doc = threeWayMerge(ver[base].doc, S, T, chosen)
  BY DEF MergedDocs
<1>8. ver[base].doc = T
  BY <1>4, <1>7
<1> HIDE DEF S, T
<1> QED BY <1>6, <1>7, <1>8

(* A branch brought up to date with its target lands as it is: nothing     *)
(* nobody reviewed comes in, and no resolved conflict is raised again.     *)
THEOREM UpToDateLandsAsItIs == Spec => UpToDateMergeTakesSource
<1> DEFINE Lands ==
      \A v \in Minted' \ Minted :
        LET row == ver'[v]
        IN  /\ row.mergeParent # None
            /\ historyContains(row.mergeParent, row.parent)
            => row.doc = ver[row.mergeParent].doc
<1>1. IInv /\ [Next]_vars => Lands
  <2> SUFFICES ASSUME IInv, [Next]_vars, NEW v \in Minted' \ Minted,
                      ver'[v].mergeParent # None,
                      historyContains(ver'[v].mergeParent, ver'[v].parent)
               PROVE  ver'[v].doc = ver[ver'[v].mergeParent].doc
    OBVIOUS
  <2>1. MergedOf(v)
    BY StepMints
  <2> QED BY <2>1, UpToDateBase DEF MergedOf
<1> HIDE DEF Lands
<1>2. Spec => [][Lands]_vars
  BY <1>1, InvariantHolds, PTL DEF Spec
<1> QED BY <1>2 DEF Lands, UpToDateMergeTakesSource

-----------------------------------------------------------------------------
(* The version store implements append-only branch lines: the refinement   *)
(* of BranchLines stated in VersionHistory.                                *)

\* Under a name of its own: Sequences has a Head too.
Sq == INSTANCE SequenceTheorems

(* What the line of a branch rests on: its own versions are finitely many, *)
(* their numbers are 1 up to how many there are, and its head is the last. *)
Counted ==
  \A b \in Live :
    /\ IsFiniteSet(Own(b))
    /\ \A v \in Own(b) : ver[v].number \in 1..Cardinality(Own(b))
    /\ \A k \in 1..Cardinality(Own(b)) : \E v \in Own(b) : ver[v].number = k
    /\ Own(b) # {} => ver[Head(b)].number = Cardinality(Own(b))

LInv == IInv /\ Counted

OwnCount(b) == Cardinality(Own(b))

-----------------------------------------------------------------------------
(* What every operation does to the lines: it mints one version at the end *)
(* of one of them and lets some branches go, or it mints nothing.          *)

Mints(t, v, gone) ==
  /\ Minted' = Minted \cup {v}
  /\ \A w \in Minted : ver'[w].parent = ver[w].parent /\ ver'[w].number = ver[w].number
  /\ ver'[v].number = NextNumber(t) /\ ver'[v].parent = Head(t)
  /\ Live' = Live \ gone
  /\ Own(t)' = Own(t) \cup {v} /\ Head(t)' = v
  /\ \A b \in Live' \ {t} : Own(b)' = Own(b) /\ Head(b)' = Head(b)

Keeps ==
  /\ Minted' = Minted
  /\ \A w \in Minted : ver'[w].parent = ver[w].parent /\ ver'[w].number = ver[w].number
  /\ \A b \in Live \cap Live' : Own(b)' = Own(b) /\ Head(b)' = Head(b)

MintsSome ==
  \E t \in Live, v \in VersionId \ Minted : \E gone \in SUBSET (Live \ {t}) : Mints(t, v, gone)
KeepsAll == Keeps /\ Live' = Live
LosesOne == Keeps /\ \E b \in Live : Live' = Live \ {b}
ForksOne ==
  Keeps /\ \E b \in BranchId \ Live, from \in Minted \cup {None} :
             Live' = Live \cup {b} /\ Own(b)' = {} /\ Head(b)' = from

LEMMA InsertShape ==
  ASSUME IInv, NEW v \in VersionId, NEW b \in Live, NEW doc, NEW restored,
         insertVersion(v, b, doc, restored)
  PROVE  MintsSome
<1>1. \A d \in Live : branches[d] \in BranchRow
  BY DEF IInv, TypeOK
<1>2. /\ v \in VersionId \ Minted
      /\ Minted' = Minted \cup {v}
      /\ Live' = Live
      /\ \A w \in Minted : ver'[w] = ver[w]
  BY DEF insertVersion, IsFresh, WithVersion, MovedHead, Minted, Live
<1>3. ver'[v].branch = b /\ ver'[v].number = NextNumber(b) /\ ver'[v].parent = Head(b)
  BY <1>2 DEF insertVersion, WithVersion, Minted
<1>4. \A c \in Live : Head(c)' = IF c = b THEN v ELSE Head(c)
  BY <1>1 DEF insertVersion, MovedHead, Head, BranchRow, Live
<1>5. Own(b)' = Own(b) \cup {v} /\ \A c \in Live \ {b} : Own(c)' = Own(c)
  BY <1>2, <1>3 DEF Own
<1>6. Mints(b, v, {})
  BY <1>2, <1>3, <1>4, <1>5 DEF Mints
<1> QED BY <1>2, <1>6 DEF MintsSome

LEMMA SameRowsShape ==
  ASSUME IInv, Minted' = Minted,
         \A w \in Minted : /\ ver'[w].parent = ver[w].parent
                           /\ ver'[w].number = ver[w].number
                           /\ ver'[w].branch = ver[w].branch,
         \A b \in Live \cap Live' : Head(b)' = Head(b)
  PROVE  Keeps
BY DEF Keeps, Own

LEMMA MergeShape ==
  ASSUME IInv, NEW s \in Live, NEW t \in Live, NEW v \in VersionId, NEW doc, IsFresh(v),
         ver' = WithVersion(v, MergedVersion(s, t, doc)), branches' = MovedHead(t, v)
  PROVE  MintsSome
<1>1. \A d \in Live : branches[d] \in BranchRow
  BY DEF IInv, TypeOK
<1>2. /\ v \in VersionId \ Minted
      /\ Minted' = Minted \cup {v}
      /\ Live' = Live
      /\ \A w \in Minted : ver'[w] = ver[w]
      /\ ver'[v] = MergedVersion(s, t, doc)
  BY DEF IsFresh, WithVersion, MovedHead, Minted, Live
<1>3. ver'[v].branch = t /\ ver'[v].number = NextNumber(t) /\ ver'[v].parent = Head(t)
  BY <1>2 DEF MergedVersion
<1>4. \A c \in Live : Head(c)' = IF c = t THEN v ELSE Head(c)
  BY <1>1 DEF MovedHead, Head, BranchRow, Live
<1>5. Own(t)' = Own(t) \cup {v} /\ \A c \in Live \ {t} : Own(c)' = Own(c)
  BY <1>2, <1>3 DEF Own
<1>6. Mints(t, v, {})
  BY <1>2, <1>3, <1>4, <1>5 DEF Mints
<1> QED BY <1>2, <1>6 DEF MintsSome

LEMMA CleanupShape ==
  ASSUME IInv, NEW s \in Live, NEW t \in Live, s # t, NEW v \in VersionId, NEW doc, IsFresh(v),
         ver' = Branchless(WithVersion(v, MergedVersion(s, t, doc)), s),
         branches' = Restrict(MovedHead(t, v), Live \ {s})
  PROVE  MintsSome
<1> DEFINE W == WithVersion(v, MergedVersion(s, t, doc))
<1>1. \A d \in Live : branches[d] \in BranchRow
  BY DEF IInv, TypeOK
<1>2. /\ v \in VersionId \ Minted
      /\ DOMAIN W = Minted \cup {v}
      /\ \A w \in Minted : W[w] = ver[w]
      /\ W[v] = MergedVersion(s, t, doc)
  BY DEF IsFresh, WithVersion, Minted
<1>3. \A w \in Minted : ver[w] \in VersionRow /\ ver[w].branch \in Live \cup {None}
  BY DEF IInv, TypeOK
<1>4. /\ Minted' = Minted \cup {v}
      /\ \A w \in Minted' : ver'[w] = IF W[w].branch = s THEN [W[w] EXCEPT !.branch = None] ELSE W[w]
  <2> HIDE DEF W
  <2> QED BY <1>2 DEF Branchless, Minted, W
<1>5. ver'[v].branch = t /\ ver'[v].number = NextNumber(t) /\ ver'[v].parent = Head(t)
  <2> HIDE DEF W
  <2>1. W[v].branch = t
    BY <1>2 DEF MergedVersion
  <2>2. ver'[v] = MergedVersion(s, t, doc)
    BY <1>2, <1>4, <2>1
  <2> QED BY <2>2 DEF MergedVersion
<1>6. \A w \in Minted : /\ ver'[w].parent = ver[w].parent
                        /\ ver'[w].number = ver[w].number
                        /\ ver'[w].branch = IF ver[w].branch = s THEN None ELSE ver[w].branch
  <2> HIDE DEF W
  <2>1. \A w \in Minted : ver'[w] = IF ver[w].branch = s THEN [ver[w] EXCEPT !.branch = None] ELSE ver[w]
    BY <1>2, <1>4
  <2> QED BY <1>3, <2>1 DEF VersionRow
<1>7. Live' = Live \ {s}
  BY DEF Restrict, Live
<1>8. \A c \in Live' : Head(c)' = IF c = t THEN v ELSE Head(c)
  <2>1. \A c \in Live' : c \in Live /\ branches'[c] = MovedHead(t, v)[c]
    BY <1>7 DEF Restrict
  <2>2. \A c \in Live : MovedHead(t, v)[c].head = IF c = t THEN v ELSE branches[c].head
    BY <1>1 DEF MovedHead, BranchRow, Live
  <2> QED BY <2>1, <2>2 DEF Head
<1>9. None \notin Live
  BY BranchAssumption DEF IInv, TypeOK
<1>10. Own(t)' = Own(t) \cup {v} /\ \A c \in Live' \ {t} : Own(c)' = Own(c)
  BY <1>2, <1>4, <1>5, <1>6, <1>7, <1>9 DEF Own
<1>11. Mints(t, v, {s})
  BY <1>4, <1>5, <1>6, <1>7, <1>8, <1>10 DEF Mints
<1>12. {s} \in SUBSET (Live \ {t})
  OBVIOUS
<1> QED BY <1>2, <1>11, <1>12 DEF MintsSome

(* A branch cannot be merged into itself: it holds its own head.           *)
LEMMA NoSelfMerge ==
  ASSUME IInv, NEW s \in Live, NEW t \in Live, MergeAllowed(s, t)
  PROVE  s # t
BY DEF MergeAllowed, historyContains

LEMMA StepShape ==
  ASSUME IInv, [Next]_vars
  PROVE  MintsSome \/ KeepsAll \/ LosesOne \/ ForksOne
<1>0. /\ \A w \in Minted : ver[w] \in VersionRow /\ ver[w].branch \in Live \cup {None}
      /\ \A d \in Live : branches[d] \in BranchRow
      /\ None \notin Live
  BY BranchAssumption DEF IInv, TypeOK
<1>1. CASE \E b \in Live, doc \in Doc, base \in Minted \cup {None}, principal \in {"user", "api_key"} :
             commit(b, doc, base, principal)
  BY <1>1, InsertShape DEF commit
<1>2. CASE \E b \in Live, layout \in Value : patchLayout(b, layout)
  <2>1. PICK v \in Minted, layout \in Value : /\ ver' = [ver EXCEPT ![v].doc[Position] = layout]
                                              /\ branches' = branches
    BY <1>2 DEF patchLayout, Own
  <2>2. Minted' = Minted /\ Live' = Live
    BY <2>1 DEF Minted, Live
  <2>3. \A w \in Minted : /\ ver'[w].parent = ver[w].parent
                          /\ ver'[w].number = ver[w].number
                          /\ ver'[w].branch = ver[w].branch
    BY <1>0, <2>1 DEF Minted, VersionRow
  <2> QED BY <2>1, <2>2, <2>3, SameRowsShape DEF KeepsAll, Head
<1>3. CASE \/ \E s \in Session, v \in Minted : readRollbackTarget(s, v)
           \/ UNCHANGED vars
  <2>1. ver' = ver /\ branches' = branches
    BY <1>3 DEF readRollbackTarget, vars
  <2> QED BY <2>1, SameRowsShape DEF KeepsAll, Head, Minted, Live
<1>4. CASE \E s \in Session : rollback(s)
  <2>1. PICK s \in Session : rollback(s)
    BY <1>4
  <2>2. CASE UNCHANGED <<ver, branches, latest>>
    BY <2>2, SameRowsShape DEF KeepsAll, Head, Minted, Live
  <2>3. CASE \E v \in VersionId :
               insertVersion(v, RestoreOnto(restoring[s]), restoring[s].doc, restoring[s].target)
    <3>1. RestoreOnto(restoring[s]) \in Live
      BY DEF RestoreOnto, IInv, TypeOK
    <3> QED BY <2>3, <3>1, InsertShape
  <2> QED BY <2>1, <2>2, <2>3 DEF rollback
<1>5. CASE \E b \in BranchId, name \in BranchName, from \in Minted \cup {None} : createBranch(b, name, from)
  <2>1. PICK b \in BranchId, name \in BranchName, from \in Minted \cup {None} : createBranch(b, name, from)
    BY <1>5
  <2>2. b \notin Live /\ ver' = ver
    BY <2>1 DEF createBranch, IInv, TypeOK
  <2>3. /\ Live' = Live \cup {b}
        /\ Head(b)' = from
        /\ \A c \in Live : Head(c)' = Head(c)
    BY <2>1, <2>2 DEF createBranch, Live, Head
  <2>4. Own(b)' = {}
    BY <1>0, <2>1, <2>2, BranchAssumption DEF Own, Minted
  <2>5. Keeps
    BY <2>2, <2>3, SameRowsShape DEF Minted
  <2> QED BY <2>2, <2>3, <2>4, <2>5 DEF ForksOne
<1>6. CASE \E b \in Live, isProtected \in BOOLEAN : setProtection(b, isProtected)
  <2>1. ver' = ver /\ Live' = Live /\ \A c \in Live : Head(c)' = Head(c)
    BY <1>0, <1>6 DEF setProtection, Head, BranchRow, Live
  <2> QED BY <2>1, SameRowsShape DEF KeepsAll, Minted
<1>7. CASE \E b \in Live : deleteBranch(b)
  <2>1. PICK b \in Live : /\ ver' = Branchless(ver, b)
                          /\ branches' = Restrict(branches, Live \ {b})
    BY <1>7 DEF deleteBranch
  <2>2. Minted' = Minted /\ Live' = Live \ {b} /\ \A c \in Live' : Head(c)' = Head(c)
    BY <2>1 DEF Branchless, Restrict, Minted, Live, Head
  <2>3. \A w \in Minted : ver'[w] = IF ver[w].branch = b THEN [ver[w] EXCEPT !.branch = None] ELSE ver[w]
    BY <2>1 DEF Branchless, Minted
  <2>4. \A w \in Minted : /\ ver'[w].parent = ver[w].parent
                          /\ ver'[w].number = ver[w].number
                          /\ ver'[w].branch = IF ver[w].branch = b THEN None ELSE ver[w].branch
    BY <1>0, <2>3 DEF VersionRow
  <2>5. \A c \in Live' : Own(c)' = Own(c)
    BY <1>0, <2>2, <2>4 DEF Own
  <2>6. Keeps
    BY <2>2, <2>4, <2>5 DEF Keeps
  <2> QED BY <2>2, <2>6 DEF LosesOne
<1>8. CASE \E s, t \in Live : mergeBranchIn(s, t)
  BY <1>8, MergeShape DEF mergeBranchIn
<1>9. CASE \E s, t \in Live : mergeAndCleanup(s, t)
  BY <1>9, CleanupShape, NoSelfMerge DEF mergeAndCleanup
<1> QED BY <1>1, <1>2, <1>3, <1>4, <1>5, <1>6, <1>7, <1>8, <1>9 DEF Next
-----------------------------------------------------------------------------
(* Counting.                                                               *)

LEMMA InitCounted == Init => Counted
<1> SUFFICES ASSUME Init PROVE Counted
  OBVIOUS
<1>1. CASE ver = [v \in {} |-> None]
  <2>1. \A b \in Live : Own(b) = {}
    BY <1>1 DEF Own, Minted
  <2>2. IsFiniteSet({}) /\ Cardinality({}) = 0
    BY FS_EmptySet
  <2> QED BY <2>1, <2>2 DEF Counted
<1>2. ASSUME NEW doc \in Doc, NEW v \in VersionId,
             ver = [w \in {v} |-> [branch |-> Main, number |-> 1, doc |-> doc, parent |-> None,
                                   mergeParent |-> None, restored |-> None]],
             branches = InitialBranch(v)
      PROVE  Counted
  <2>1. Live = {Main} /\ Head(Main) = v
    BY <1>2 DEF InitialBranch, Live, Head
  <2>2. Own(Main) = {v} /\ ver[v].number = 1
    BY <1>2 DEF Own, Minted
  <2>3. IsFiniteSet({v}) /\ Cardinality({v}) = 1
    BY FS_Singleton
  <2> QED BY <2>1, <2>2, <2>3 DEF Counted
<1> QED BY <1>1, <1>2 DEF Init

LEMMA KeepsCounted ==
  ASSUME LInv, Keeps, \A b \in Live' \ Live : Own(b)' = {}
  PROVE  Counted'
<1>1. \A b \in Live \cap Live' : Own(b)' = Own(b) /\ Head(b)' = Head(b)
  BY DEF Keeps
<1>2. \A b \in Live : Own(b) \subseteq Minted /\ (Own(b) # {} => Head(b) \in Own(b))
  BY DEF Own, LInv, IInv, HeadIsHighest
<1>3. \A w \in Minted : ver'[w].number = ver[w].number
  BY DEF Keeps
<1>4. IsFiniteSet({}) /\ Cardinality({}) = 0
  BY FS_EmptySet
<1> SUFFICES ASSUME NEW b \in Live'
             PROVE  /\ IsFiniteSet(Own(b)')
                    /\ \A v \in Own(b)' : ver'[v].number \in 1..Cardinality(Own(b)')
                    /\ \A k \in 1..Cardinality(Own(b)') : \E v \in Own(b)' : ver'[v].number = k
                    /\ Own(b)' # {} => ver'[Head(b)'].number = Cardinality(Own(b)')
  BY DEF Counted
<1>5. CASE b \in Live
  <2>1. /\ IsFiniteSet(Own(b))
        /\ \A v \in Own(b) : ver[v].number \in 1..Cardinality(Own(b))
        /\ \A k \in 1..Cardinality(Own(b)) : \E v \in Own(b) : ver[v].number = k
        /\ Own(b) # {} => ver[Head(b)].number = Cardinality(Own(b))
    BY <1>5 DEF LInv, Counted
  <2> QED BY <1>1, <1>2, <1>3, <1>5, <2>1
<1>6. CASE b \notin Live
  BY <1>4, <1>6
<1> QED BY <1>5, <1>6

(* The number a new version takes is how many its branch has from then on. *)
LEMMA MintNumber ==
  ASSUME LInv, NEW t \in Live, NEW v \in VersionId \ Minted, NEW gone, Mints(t, v, gone)
  PROVE  /\ OwnCount(t) \in Nat
         /\ ver'[v].number = OwnCount(t) + 1
         /\ IsFiniteSet(Own(t)') /\ OwnCount(t)' = OwnCount(t) + 1
<1>1. /\ IsFiniteSet(Own(t)) /\ OwnCount(t) \in Nat
      /\ OwnCount(t) = 0 <=> Own(t) = {}
  BY FS_CardinalityType, FS_EmptySet DEF LInv, Counted, OwnCount
<1>2. /\ Own(t) = {} => NextNumber(t) = 1
      /\ \A w \in Own(t) : NextNumber(t) = ver[Head(t)].number + 1
  BY NextNumberValue DEF LInv, IInv
<1>3. Own(t) # {} => ver[Head(t)].number = OwnCount(t)
  BY DEF LInv, Counted, OwnCount
<1>4. ver'[v].number = NextNumber(t)
  BY DEF Mints
<1>5. Own(t)' = Own(t) \cup {v} /\ v \notin Own(t)
  BY DEF Mints, Own
<1>6. IsFiniteSet(Own(t)') /\ OwnCount(t)' = OwnCount(t) + 1
  BY <1>1, <1>5, FS_AddElement DEF OwnCount
<1>7. ver'[v].number = OwnCount(t) + 1
  BY <1>1, <1>2, <1>3, <1>4
<1> QED BY <1>1, <1>6, <1>7

LEMMA MintsCounted ==
  ASSUME LInv, MintsSome
  PROVE  Counted'
<1>1. PICK t \in Live, v \in VersionId \ Minted : \E gone \in SUBSET (Live \ {t}) : Mints(t, v, gone)
  BY DEF MintsSome
<1>2. PICK gone \in SUBSET (Live \ {t}) : Mints(t, v, gone)
  BY <1>1
<1>3. /\ OwnCount(t) \in Nat
      /\ ver'[v].number = OwnCount(t) + 1
      /\ IsFiniteSet(Own(t)') /\ OwnCount(t)' = OwnCount(t) + 1
  BY <1>2, MintNumber
<1>4. \A b \in Live : \A w \in Own(b) : w \in Minted /\ ver'[w].number = ver[w].number
  BY <1>2 DEF Mints, Own
<1>5. \A b \in Live : Own(b) # {} => Head(b) \in Own(b)
  BY DEF LInv, IInv, HeadIsHighest
<1> SUFFICES ASSUME NEW b \in Live'
             PROVE  /\ IsFiniteSet(Own(b)')
                    /\ \A w \in Own(b)' : ver'[w].number \in 1..OwnCount(b)'
                    /\ \A k \in 1..OwnCount(b)' : \E w \in Own(b)' : ver'[w].number = k
                    /\ Own(b)' # {} => ver'[Head(b)'].number = OwnCount(b)'
  BY DEF Counted, OwnCount
<1>6. b \in Live
  BY <1>2 DEF Mints
<1>7. /\ IsFiniteSet(Own(b))
      /\ \A w \in Own(b) : ver[w].number \in 1..OwnCount(b)
      /\ \A k \in 1..OwnCount(b) : \E w \in Own(b) : ver[w].number = k
      /\ Own(b) # {} => ver[Head(b)].number = OwnCount(b)
  BY <1>6 DEF LInv, Counted, OwnCount
<1>8. CASE b # t
  <2>1. Own(b)' = Own(b) /\ Head(b)' = Head(b) /\ OwnCount(b)' = OwnCount(b)
    BY <1>2, <1>8 DEF Mints, OwnCount
  <2> QED BY <1>4, <1>5, <1>6, <1>7, <2>1
<1>9. CASE b = t
  <2>1. Own(b)' = Own(b) \cup {v} /\ Head(b)' = v
    BY <1>2, <1>9 DEF Mints
  <2>2. \A w \in Own(b)' : ver'[w].number \in 1..(OwnCount(b) + 1)
    BY <1>3, <1>4, <1>7, <1>9, <2>1
  <2>3. ASSUME NEW k \in 1..(OwnCount(b) + 1)
        PROVE  \E w \in Own(b)' : ver'[w].number = k
    <3>1. CASE k = OwnCount(b) + 1
      BY <1>3, <1>9, <2>1, <3>1
    <3>2. CASE k \in 1..OwnCount(b)
      BY <1>4, <1>7, <1>9, <2>1, <3>2
    <3> QED BY <1>3, <1>9, <3>1, <3>2
  <2> QED BY <1>3, <1>9, <2>1, <2>2, <2>3
<1> QED BY <1>8, <1>9

LEMMA NextLInv == LInv /\ [Next]_vars => LInv'
<1> SUFFICES ASSUME LInv, [Next]_vars
             PROVE  LInv'
  OBVIOUS
<1>1. IInv'
  BY NextIInv DEF LInv
<1>2. MintsSome \/ KeepsAll \/ LosesOne \/ ForksOne
  BY StepShape DEF LInv
<1>3. Counted'
  BY <1>2, MintsCounted, KeepsCounted DEF KeepsAll, LosesOne, ForksOne
<1> QED BY <1>1, <1>3 DEF LInv

(* The versions of a branch are counted by their numbers, always.          *)
THEOREM LInvHolds == Spec => []LInv
<1>1. Init => LInv
  BY InitIInv, InitCounted DEF LInv
<1>2. LInv /\ [Next]_vars => LInv'
  BY NextLInv
<1> QED BY <1>1, <1>2, PTL DEF Spec
-----------------------------------------------------------------------------
(* The line of a branch, as the refinement mapping reads it.               *)

LEMMA LineFacts ==
  LInv => \A b \in Live :
    /\ OwnCount(b) \in Nat
    /\ OwnCount(b) = 0 <=> Own(b) = {}
    /\ OwnLine(b) \in [1..OwnCount(b) -> Own(b)]
    /\ \A k \in 1..OwnCount(b) : ver[OwnLine(b)[k]].number = k
<1> SUFFICES ASSUME LInv, NEW b \in Live
             PROVE  /\ OwnCount(b) \in Nat
                    /\ OwnCount(b) = 0 <=> Own(b) = {}
                    /\ OwnLine(b) \in [1..OwnCount(b) -> Own(b)]
                    /\ \A k \in 1..OwnCount(b) : ver[OwnLine(b)[k]].number = k
  OBVIOUS
<1>1. OwnCount(b) \in Nat /\ (OwnCount(b) = 0 <=> Own(b) = {})
  BY FS_CardinalityType, FS_EmptySet DEF LInv, Counted, OwnCount
<1>2. \A k \in 1..OwnCount(b) : \E v \in Own(b) : ver[v].number = k
  BY DEF LInv, Counted, OwnCount
<1>3. OwnLine(b) = [k \in 1..OwnCount(b) |-> CHOOSE v \in Own(b) : ver[v].number = k]
  BY DEF OwnLine, OwnCount
<1> QED BY <1>1, <1>2, <1>3

(* Numbers tell a branch's own versions apart, so they fix its line, and   *)
(* the parent of number 1 is where it was forked.                          *)
NumbersFixLine ==
  \A b \in Live : \A f \in [1..OwnCount(b) -> Own(b)] :
    (\A k \in 1..OwnCount(b) : ver[f[k]].number = k) => OwnLine(b) = f

NumbersFixFork ==
  \A b \in Live :
    /\ Own(b) = {} => ForkOf(b) = Head(b)
    /\ \A v \in Own(b) : ver[v].number = 1 => ForkOf(b) = ver[v].parent
    /\ ForkOf(b) \in Minted \cup {None}

LEMMA LineIs == LInv => NumbersFixLine
<1> SUFFICES ASSUME LInv, NEW b \in Live, NEW f \in [1..OwnCount(b) -> Own(b)],
                    \A k \in 1..OwnCount(b) : ver[f[k]].number = k
             PROVE  OwnLine(b) = f
  BY DEF NumbersFixLine
<1>1. /\ OwnLine(b) \in [1..OwnCount(b) -> Own(b)]
      /\ \A k \in 1..OwnCount(b) : ver[OwnLine(b)[k]].number = k
  BY LineFacts
<1>2. \A v, w \in Own(b) : ver[v].number = ver[w].number => v = w
  BY DEF LInv, IInv, NumberedLine
<1>3. \A k \in 1..OwnCount(b) : OwnLine(b)[k] = f[k]
  BY <1>1, <1>2
<1>4. OwnLine(b) = [k \in 1..OwnCount(b) |-> OwnLine(b)[k]]
  BY <1>1
<1>5. f = [k \in 1..OwnCount(b) |-> f[k]]
  OBVIOUS
<1>6. [k \in 1..OwnCount(b) |-> OwnLine(b)[k]] = [k \in 1..OwnCount(b) |-> f[k]]
  BY <1>3
<1> QED BY <1>4, <1>5, <1>6

LEMMA ForkIs == LInv => NumbersFixFork
<1> SUFFICES ASSUME LInv, NEW b \in Live
             PROVE  /\ Own(b) = {} => ForkOf(b) = Head(b)
                    /\ \A v \in Own(b) : ver[v].number = 1 => ForkOf(b) = ver[v].parent
                    /\ ForkOf(b) \in Minted \cup {None}
  BY DEF NumbersFixFork
<1>1. \A v, w \in Own(b) : ver[v].number = ver[w].number => v = w
  BY DEF LInv, IInv, NumberedLine
<1>2. /\ Head(b) \in Minted \cup {None}
      /\ \A v \in Own(b) : ver[v].parent \in Minted \cup {None}
  BY DEF LInv, IInv, TypeOK, Own
<1>3. CASE Own(b) = {}
  BY <1>2, <1>3 DEF ForkOf
<1>4. CASE Own(b) # {}
  <2>1. OwnCount(b) \in Nat /\ OwnCount(b) # 0
    BY <1>4, LineFacts
  <2>2. \E v \in Own(b) : ver[v].number = 1
    BY <2>1 DEF LInv, Counted, OwnCount
  <2> DEFINE first == CHOOSE v \in Own(b) : ver[v].number = 1
  <2>3. first \in Own(b) /\ ver[first].number = 1
    BY <2>2
  <2>4. ForkOf(b) = ver[first].parent
    BY <1>4 DEF ForkOf
  <2> HIDE DEF first
  <2> QED BY <1>1, <1>2, <1>4, <2>3, <2>4
<1> QED BY <1>3, <1>4

(* A branch stands at its head, so `latest` is what the lines say it is.   *)
LEMMA StandsAtHead ==
  LInv => \A b \in Live : Lines!StandsAt(ForkOf(b), OwnLine(b)) = Head(b)
<1> SUFFICES ASSUME LInv, NEW b \in Live
             PROVE  Lines!StandsAt(ForkOf(b), OwnLine(b)) = Head(b)
  OBVIOUS
<1>1. /\ OwnCount(b) \in Nat
      /\ OwnCount(b) = 0 <=> Own(b) = {}
      /\ OwnLine(b) \in [1..OwnCount(b) -> Own(b)]
      /\ \A k \in 1..OwnCount(b) : ver[OwnLine(b)[k]].number = k
  BY LineFacts
<1>2. CASE Own(b) = {}
  <2>1. OwnLine(b) = <<>>
    BY <1>1, <1>2
  <2>2. ForkOf(b) = Head(b)
    BY <1>2, ForkIs DEF NumbersFixFork
  <2> QED BY <2>1, <2>2 DEF Lines!StandsAt
<1>3. CASE Own(b) # {}
  <2>1. Sq!Len(OwnLine(b)) = OwnCount(b) /\ OwnLine(b) # <<>>
    BY <1>1, <1>3
  <2>2. Head(b) \in Own(b) /\ ver[Head(b)].number = OwnCount(b)
    BY <1>3 DEF LInv, IInv, HeadIsHighest, Counted, OwnCount
  <2>3. \A v, w \in Own(b) : ver[v].number = ver[w].number => v = w
    BY DEF LInv, IInv, NumberedLine
  <2>4. OwnLine(b)[OwnCount(b)] = Head(b)
    BY <1>1, <1>3, <2>2, <2>3
  <2> QED BY <2>1, <2>4 DEF Lines!StandsAt
<1> QED BY <1>2, <1>3

LatestOnLines ==
  latest = Lines!LatestOf([b \in Live |-> ForkOf(b)], [b \in Live |-> OwnLine(b)])

LEMMA LatestIs == LInv => LatestOnLines
<1> SUFFICES ASSUME LInv
             PROVE  latest = Lines!LatestOf([b \in Live |-> ForkOf(b)], [b \in Live |-> OwnLine(b)])
  BY DEF LatestOnLines
<1>1. \A b \in Live : Lines!StandsAt(ForkOf(b), OwnLine(b)) = Head(b)
  BY StandsAtHead
<1>2. latest = [b \in {c \in Live : Head(c) # None} |-> Head(b)]
  <2>1. /\ latest \in [DOMAIN latest -> Minted]
        /\ DOMAIN latest = {c \in Live : Head(c) # None}
        /\ \A b \in DOMAIN latest : latest[b] = Head(b)
    BY DEF LInv, IInv, TypeOK, LatestFloats
  <2> QED BY <2>1
<1> DEFINE F == [b \in Live |-> ForkOf(b)]
           L == [b \in Live |-> OwnLine(b)]
<1>3. DOMAIN L = Live /\ \A b \in Live : Lines!StandsAt(F[b], L[b]) = Head(b)
  BY <1>1
<1> HIDE DEF F, L
<1>4. Lines!LatestOf(F, L) = [b \in {c \in Live : Head(c) # None} |-> Head(b)]
  BY <1>3 DEF Lines!LatestOf
<1> QED BY <1>2, <1>4 DEF F, L
-----------------------------------------------------------------------------
(* A branch whose own versions are left alone keeps its line; the one that *)
(* minted has the new version at the end of its line.                      *)

LEMMA SameLine ==
  ASSUME LInv, LInv', NEW b \in Live, b \in Live',
         Own(b)' = Own(b), Head(b)' = Head(b),
         \A w \in Minted : ver'[w].parent = ver[w].parent /\ ver'[w].number = ver[w].number
  PROVE  OwnLine(b)' = OwnLine(b) /\ ForkOf(b)' = ForkOf(b)
<1>1. \A w \in Own(b) : ver'[w].parent = ver[w].parent /\ ver'[w].number = ver[w].number
  BY DEF Own
<1>2. /\ OwnCount(b) \in Nat
      /\ OwnCount(b) = 0 <=> Own(b) = {}
      /\ OwnLine(b) \in [1..OwnCount(b) -> Own(b)]
      /\ \A k \in 1..OwnCount(b) : ver[OwnLine(b)[k]].number = k
  BY LineFacts
<1>3. OwnCount(b)' = OwnCount(b)
  BY DEF OwnCount
<1>4. NumbersFixLine'
  BY LineIs, PTL
<1>5. OwnLine(b)' = OwnLine(b)
  BY <1>1, <1>2, <1>3, <1>4 DEF NumbersFixLine
<1>6. /\ Own(b) = {} => ForkOf(b) = Head(b)
      /\ \A v \in Own(b) : ver[v].number = 1 => ForkOf(b) = ver[v].parent
  BY ForkIs DEF NumbersFixFork
<1>7. NumbersFixFork'
  BY ForkIs, PTL
<1>8. Own(b) # {} => \E v \in Own(b) : ver[v].number = 1
  BY <1>2 DEF LInv, Counted, OwnCount
<1>9. ForkOf(b)' = ForkOf(b)
  BY <1>1, <1>6, <1>7, <1>8 DEF NumbersFixFork
<1> QED BY <1>5, <1>9

LEMMA GrownLine ==
  ASSUME LInv, LInv', NEW t \in Live, NEW v \in VersionId \ Minted, NEW gone,
         t \notin gone, Mints(t, v, gone)
  PROVE  OwnLine(t)' = Sq!Append(OwnLine(t), v) /\ ForkOf(t)' = ForkOf(t)
<1>1. /\ Live' = Live \ gone
      /\ Own(t)' = Own(t) \cup {v} /\ ver'[v].parent = Head(t)
      /\ \A w \in Own(t) : ver'[w].parent = ver[w].parent /\ ver'[w].number = ver[w].number
  BY DEF Mints, Own
<1>2. t \in Live'
  BY <1>1
<1>3. /\ OwnCount(t) \in Nat
      /\ ver'[v].number = OwnCount(t) + 1
      /\ OwnCount(t)' = OwnCount(t) + 1
  BY MintNumber
<1>4. /\ OwnCount(t) = 0 <=> Own(t) = {}
      /\ OwnLine(t) \in [1..OwnCount(t) -> Own(t)]
      /\ \A k \in 1..OwnCount(t) : ver[OwnLine(t)[k]].number = k
  BY LineFacts
<1> DEFINE n == OwnCount(t)
           g == Sq!Append(OwnLine(t), v)
<1>5. /\ g \in [1..(n + 1) -> Own(t) \cup {v}]
      /\ \A k \in 1..n : g[k] = OwnLine(t)[k]
      /\ g[n + 1] = v
  <2> DEFINE old == OwnLine(t)
             T == Own(t) \cup {v}
  <2>1. n \in Nat /\ old \in [1..n -> T] /\ v \in T
    BY <1>3, <1>4
  <2> HIDE DEF n, old, T
  <2>2. old \in Sq!Seq(T) /\ Sq!Len(old) = n
    BY <2>1
  <2>3. /\ Sq!Append(old, v) \in Sq!Seq(T)
        /\ Sq!Len(Sq!Append(old, v)) = n + 1
        /\ \A k \in 1..n : Sq!Append(old, v)[k] = old[k]
        /\ Sq!Append(old, v)[n + 1] = v
    BY <2>1, <2>2
  <2>4. Sq!Append(old, v) \in [1..(n + 1) -> T]
    BY <2>3, Sq!LenProperties
  <2> QED BY <2>3, <2>4 DEF old, T
<1> HIDE DEF g
<1>6. NumbersFixLine'
  BY LineIs, PTL
<1>7. g \in [1..OwnCount(t)' -> Own(t)']
  BY <1>1, <1>3, <1>5
<1>8. \A k \in 1..OwnCount(t)' : ver'[g[k]].number = k
  <2> SUFFICES ASSUME NEW k \in 1..(n + 1)
               PROVE  ver'[g[k]].number = k
    BY <1>3
  <2>1. CASE k = n + 1
    BY <1>3, <1>5, <2>1
  <2>2. CASE k \in 1..n
    <3>1. g[k] = OwnLine(t)[k] /\ OwnLine(t)[k] \in Own(t)
      BY <1>4, <1>5, <2>2
    <3> QED BY <1>1, <1>4, <2>2, <3>1
  <2> QED BY <1>3, <2>1, <2>2
<1>9. OwnLine(t)' = g
  BY <1>2, <1>6, <1>7, <1>8 DEF NumbersFixLine
<1>10. /\ Own(t) = {} => ForkOf(t) = Head(t)
       /\ \A w \in Own(t) : ver[w].number = 1 => ForkOf(t) = ver[w].parent
  BY ForkIs DEF NumbersFixFork
<1>11. NumbersFixFork'
  BY ForkIs, PTL
<1>12. ForkOf(t)' = ForkOf(t)
  <2>1. CASE Own(t) = {}
    <3>1. ver'[v].number = 1 /\ v \in Own(t)'
      BY <1>1, <1>3, <1>4, <2>1
    <3>2. ForkOf(t)' = ver'[v].parent
      BY <1>2, <1>11, <3>1 DEF NumbersFixFork
    <3> QED BY <1>1, <1>10, <2>1, <3>2
  <2>2. CASE Own(t) # {}
    <3>1. PICK w \in Own(t) : ver[w].number = 1
      BY <1>3, <1>4, <2>2 DEF LInv, Counted, OwnCount
    <3>2. w \in Own(t)' /\ ver'[w].number = 1 /\ ver'[w].parent = ver[w].parent
      BY <1>1, <3>1
    <3> QED BY <1>2, <1>10, <1>11, <3>1, <3>2 DEF NumbersFixFork
  <2> QED BY <2>1, <2>2
<1> QED BY <1>9, <1>12 DEF g
-----------------------------------------------------------------------------
(* The refinement: each step of the store is a step of the lines.          *)

LEMMA LatestIsNext ==
  ASSUME LInv'
  PROVE  latest' = Lines!LatestOf([b \in Live |-> ForkOf(b)]', [b \in Live |-> OwnLine(b)]')
<1>1. LatestOnLines'
  BY LatestIs, PTL
<1> QED BY <1>1 DEF LatestOnLines

\* A new version is on no line and was forked from by none.
LEMMA NewOnNoLine ==
  ASSUME LInv, NEW v \in VersionId \ Minted
  PROVE  ~Lines!OnLines(v)
<1>1. \A b \in Live : /\ OwnLine(b) \in [1..OwnCount(b) -> Own(b)]
                      /\ ForkOf(b) \in Minted \cup {None}
  BY LineFacts, ForkIs DEF NumbersFixFork
<1>2. \A b \in Live : v \notin Own(b) /\ v # ForkOf(b)
  BY <1>1, VersionAssumption DEF Own
<1>3. \A b \in Live : v \notin Range(OwnLine(b))
  BY <1>1, <1>2 DEF Range
<1> QED BY <1>2, <1>3 DEF Lines!OnLines, Lines!Live, Lines!Range, Range

LEMMA MintsRefine ==
  ASSUME LInv, LInv', MintsSome
  PROVE  Lines!Next
<1>1. PICK t \in Live, v \in VersionId \ Minted : \E gone \in SUBSET (Live \ {t}) : Mints(t, v, gone)
  BY DEF MintsSome
<1>2. PICK gone \in SUBSET (Live \ {t}) : Mints(t, v, gone)
  BY <1>1
<1>3. /\ t \notin gone /\ Live' = Live \ gone
      /\ \A b \in Live' \ {t} : Own(b)' = Own(b) /\ Head(b)' = Head(b)
      /\ \A w \in Minted : ver'[w].parent = ver[w].parent /\ ver'[w].number = ver[w].number
  BY <1>2 DEF Mints
<1>4. OwnLine(t)' = Sq!Append(OwnLine(t), v) /\ ForkOf(t)' = ForkOf(t)
  BY <1>2, <1>3, GrownLine
<1>5. \A b \in Live' \ {t} : OwnLine(b)' = OwnLine(b) /\ ForkOf(b)' = ForkOf(b)
  BY <1>3, SameLine
<1>6. \A b \in Live' :
        /\ ForkOf(b)' = ForkOf(b)
        /\ OwnLine(b)' = IF b = t THEN Sq!Append(OwnLine(t), v) ELSE OwnLine(b)
  BY <1>4, <1>5
<1>7. [b \in Live |-> OwnLine(b)]' =
        [b \in Live \ gone |-> [[c \in Live |-> OwnLine(c)] EXCEPT ![t] = Sq!Append(@, v)][b]]
  BY <1>3, <1>6
<1>8. [b \in Live |-> ForkOf(b)]' = [b \in Live \ gone |-> [c \in Live |-> ForkOf(c)][b]]
  BY <1>3, <1>6
<1>9. Lines!Live = Live
  BY DEF Lines!Live
<1>10. Lines!Grow(t, v, gone)
  BY <1>3, <1>7, <1>8, <1>9, LatestIsNext, NewOnNoLine DEF Lines!Grow, Lines!Restrict
<1> QED BY <1>9, <1>10 DEF Lines!Next

LEMMA LosesRefine ==
  ASSUME LInv, LInv', LosesOne
  PROVE  Lines!Next
<1>1. PICK d \in Live : Live' = Live \ {d}
  BY DEF LosesOne
<1>2. \A b \in Live' : OwnLine(b)' = OwnLine(b) /\ ForkOf(b)' = ForkOf(b)
  BY <1>1, SameLine DEF LosesOne, Keeps
<1>3. /\ [b \in Live |-> OwnLine(b)]' = [b \in Live \ {d} |-> [c \in Live |-> OwnLine(c)][b]]
      /\ [b \in Live |-> ForkOf(b)]' = [b \in Live \ {d} |-> [c \in Live |-> ForkOf(c)][b]]
  BY <1>1, <1>2
<1>4. Lines!Live = Live
  BY DEF Lines!Live
<1>5. Lines!Drop(d)
  BY <1>3, <1>4, LatestIsNext DEF Lines!Drop, Lines!Restrict
<1> QED BY <1>4, <1>5 DEF Lines!Next

LEMMA ForksRefine ==
  ASSUME LInv, LInv', ForksOne
  PROVE  Lines!Next
<1>1. PICK d \in BranchId \ Live, from \in Minted \cup {None} :
        Live' = Live \cup {d} /\ Own(d)' = {} /\ Head(d)' = from
  BY DEF ForksOne
<1>2. \A b \in Live : OwnLine(b)' = OwnLine(b) /\ ForkOf(b)' = ForkOf(b)
  BY <1>1, SameLine DEF ForksOne, Keeps
<1>3. ForkOf(d)' = from
  BY <1>1 DEF ForkOf
<1>4. OwnLine(d)' = <<>>
  <2>1. Cardinality(Own(d)') = 0
    BY <1>1, FS_EmptySet
  <2> QED BY <2>1 DEF OwnLine
<1>5. /\ [b \in Live |-> OwnLine(b)]' =
           [b \in Live \cup {d} |-> IF b = d THEN <<>> ELSE [c \in Live |-> OwnLine(c)][b]]
      /\ [b \in Live |-> ForkOf(b)]' =
           [b \in Live \cup {d} |-> IF b = d THEN from ELSE [c \in Live |-> ForkOf(c)][b]]
  BY <1>1, <1>2, <1>3, <1>4
<1>6. Lines!Live = Live
  BY DEF Lines!Live
<1>7. Lines!Fork(d, from)
  BY <1>1, <1>5, <1>6, LatestIsNext DEF Lines!Fork
<1>8. from \in VersionId \cup {None}
  BY DEF LInv, IInv, TypeOK
<1> QED BY <1>7, <1>8 DEF Lines!Next

LEMMA KeepsRefine ==
  ASSUME LInv, LInv', KeepsAll
  PROVE  UNCHANGED Lines!vars
<1>1. Live' = Live /\ \A b \in Live : OwnLine(b)' = OwnLine(b) /\ ForkOf(b)' = ForkOf(b)
  BY SameLine DEF KeepsAll, Keeps
<1>2. /\ [b \in Live |-> OwnLine(b)]' = [b \in Live |-> OwnLine(b)]
      /\ [b \in Live |-> ForkOf(b)]' = [b \in Live |-> ForkOf(b)]
  BY <1>1
<1>3. latest' = latest
  BY <1>2, LatestIs, LatestIsNext DEF LatestOnLines
<1> QED BY <1>2, <1>3 DEF Lines!vars

LEMMA InitRefines == Init => Lines!Init
<1> SUFFICES ASSUME Init PROVE Lines!Init
  OBVIOUS
<1>1. LInv
  BY InitIInv, InitCounted DEF LInv
<1>2. Live = {Main}
  BY DEF Init, InitialBranch, Live
<1>3. PICK first \in {<<>>} \cup {<<v>> : v \in VersionId} :
        OwnLine(Main) = first /\ ForkOf(Main) = None
  <2>1. CASE ver = [v \in {} |-> None] /\ branches = InitialBranch(None)
    <3>1. Own(Main) = {} /\ Head(Main) = None
      BY <2>1 DEF Own, Minted, Head, InitialBranch
    <3>2. ForkOf(Main) = None
      BY <3>1 DEF ForkOf
    <3>3. OwnLine(Main) = <<>>
      BY <3>1, FS_EmptySet DEF OwnLine
    <3> QED BY <3>2, <3>3
  <2>2. ASSUME NEW doc \in Doc, NEW v \in VersionId,
               ver = [w \in {v} |-> [branch |-> Main, number |-> 1, doc |-> doc, parent |-> None,
                                     mergeParent |-> None, restored |-> None]]
        PROVE  \E first \in {<<>>} \cup {<<w>> : w \in VersionId} :
                 OwnLine(Main) = first /\ ForkOf(Main) = None
    <3>1. Own(Main) = {v} /\ ver[v].number = 1 /\ ver[v].parent = None
      BY <2>2 DEF Own, Minted
    <3>2. ForkOf(Main) = None
      BY <1>1, <1>2, <3>1, ForkIs DEF NumbersFixFork
    <3>3. OwnCount(Main) = 1
      BY <3>1, FS_Singleton DEF OwnCount
    <3>4. OwnLine(Main) = <<v>>
      BY <1>1, <1>2, <3>1, <3>3, LineFacts
    <3> QED BY <3>2, <3>4
  <2> QED BY <2>1, <2>2 DEF Init
<1>4. latest = Lines!LatestOf([b \in Live |-> ForkOf(b)], [b \in Live |-> OwnLine(b)])
  BY <1>1, LatestIs DEF LatestOnLines
<1>5. [b \in Live |-> ForkOf(b)] = [b \in {Main} |-> None]
  BY <1>2, <1>3
<1>6. [b \in Live |-> OwnLine(b)] = [b \in {Main} |-> first]
  BY <1>2, <1>3
<1> QED BY <1>4, <1>5, <1>6, BranchAssumption DEF Lines!Init

(* Whatever is committed, merged, rolled back, forked or deleted, each     *)
(* live branch is a line that starts where it was forked and only ever     *)
(* grows at its end, and `latest` stands at that end.                      *)
THEOREM StoreRefinesLines == Spec => ImplementsLines
<1>1. Init => Lines!Init
  BY InitRefines
<1>2. LInv /\ LInv' /\ [Next]_vars => [Lines!Next]_(Lines!vars)
  BY StepShape, MintsRefine, LosesRefine, ForksRefine, KeepsRefine DEF LInv
<1> QED BY <1>1, <1>2, LInvHolds, PTL DEF Spec, ImplementsLines, Lines!Spec
=============================================================================
