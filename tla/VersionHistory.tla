--------------------------- MODULE VersionHistory ---------------------------
(***************************************************************************)
(* The version store of ONE workflow: its versions, its branches, the      *)
(* `latest` tag of each branch, and every operation that writes them       *)
(* (versions-write.service.ts, branch.service.ts,                          *)
(* merge-orchestration.service.ts).                                        *)
(*                                                                         *)
(* Each operation runs in one transaction that locks the branches it       *)
(* writes FOR UPDATE before it reads them, so it is one action here.  The  *)
(* exception is a rollback, which reads the version to bring back before   *)
(* its transaction begins: that read is an action of its own, and          *)
(* anything may happen between it and the write.                           *)
(*                                                                         *)
(* A document is a function from fields to values.  A field stands for     *)
(* one thing computeDiff compares (a parameter, a node's credentials, a    *)
(* setting); Position is the canvas layout, the one field that is also     *)
(* rewritten in place.                                                     *)
(***************************************************************************)
EXTENDS Naturals, FiniteSetsExt, Functions, FiniteSets

CONSTANTS
  VersionId,   \* ids of versions; a fresh version takes the least unused one
  BranchId,    \* ids of branches, never used twice
  Main,        \* the id of the default branch
  BranchName,  \* names of branches
  MainName,    \* the default branch's name
  Field,       \* the fields of a document
  Position,    \* the field holding the layout
  Value,       \* what a field can hold
  Session,     \* rollback requests that may be in flight at once
  None         \* SQL null

ASSUME VersionAssumption == VersionId \subseteq Nat /\ None \notin VersionId
ASSUME BranchAssumption ==
  /\ Main \in BranchId
  /\ MainName \in BranchName
  /\ None \notin BranchId

VARIABLES
  ver,        \* the minted versions: a function from their ids to rows
  branches,   \* the live branches: a function from their ids to rows
  latest,     \* the `latest` tag rows: branch id -> version id
  used,       \* every branch id ever given out
  restoring   \* per session, the version a rollback has read and not yet written

vars == <<ver, branches, latest, used, restoring>>

Doc == [Field -> Value]

(* `restored` is the version a rollback brought back, null on any other    *)
(* version: the code keeps it only in the commit message.                  *)
VersionRow ==
  [branch: BranchId \cup {None}, number: Nat, doc: Doc,
   parent: VersionId \cup {None}, mergeParent: VersionId \cup {None},
   restored: VersionId \cup {None}]
BranchRow == [name: BranchName, head: VersionId \cup {None}, isProtected: BOOLEAN]
Restore == [target: VersionId, branch: BranchId \cup {None}, doc: Doc]

Minted == DOMAIN ver
Live == DOMAIN branches
Head(b) == branches[b].head
Own(b) == {v \in Minted : ver[v].branch = b}
Names == {branches[b].name : b \in Live}

-----------------------------------------------------------------------------
(* Walking history.  A closed set of versions holds the parents of its     *)
(* members; what a version's history contains is what every closed set     *)
(* around it does: the rows of the recursive query.                        *)

Parents(v) == {ver[v].parent, ver[v].mergeParent} \ {None}
HistoryClosed(S) == \A v \in S : Parents(v) \subseteq S
LineClosed(S) == \A v \in S : ver[v].parent \in S \cup {None}

historyContains(h, v) ==
  \A S \in SUBSET Minted : h \in S /\ HistoryClosed(S) => v \in S

\* The first-parent line only: v was once the head h's branch stood at.
wasHeadOf(h, v) ==
  \A S \in SUBSET Minted : h \in S /\ LineClosed(S) => v \in S

Common(a, b) == {v \in Minted : historyContains(a, v) /\ historyContains(b, v)}

\* Mutant: the walk follows first parents only.
firstParentAncestor(a, b) ==
  LET shared == {v \in Minted : wasHeadOf(a, v) /\ wasHeadOf(b, v)}
  IN  {v \in shared : \A w \in shared \ {v} : ~wasHeadOf(w, v)}

(* The lowest common ancestors; of several, the code takes the one its     *)
(* breadth-first walk meets first, here any of them.                       *)
lowestCommonAncestor(a, b) ==
  {v \in Common(a, b) : \A w \in Common(a, b) \ {v} : ~historyContains(w, v)}

-----------------------------------------------------------------------------
(* The field-level diff and three-way merge of documents.                  *)

computeDiff(old, new) == {f \in Field : new[f] # old[f]}

ConflictFields(base, s, t) ==
  computeDiff(base, s) \cap computeDiff(base, t) \cap computeDiff(s, t)

threeWayMerge(base, s, t, chosen) ==
  [f \in Field |->
     IF f \in ConflictFields(base, s, t) THEN chosen[f]
     ELSE IF f \in computeDiff(base, s) THEN s[f]
     ELSE t[f]]

-----------------------------------------------------------------------------
(* Minting: every write that makes a version numbers it one past the       *)
(* branch's own highest, and moves the head and `latest` to it.            *)

IsFresh(v) ==
  /\ v \in VersionId \ Minted
  /\ \A w \in VersionId \ Minted : v <= w

NextNumber(b) == 1 + Max({0} \cup {ver[v].number : v \in Own(b)})

WithVersion(v, row) == [w \in Minted \cup {v} |-> IF w = v THEN row ELSE ver[w]]

MovedHead(b, v) == [branches EXCEPT ![b].head = v]

\* Mutant: the tag is created once and never moved.
keepLatestTag(b, v) == [c \in DOMAIN latest \cup {b} |-> IF c \in DOMAIN latest THEN latest[c] ELSE v]

moveLatestTag(b, v) == [c \in DOMAIN latest \cup {b} |-> IF c = b THEN v ELSE latest[c]]

\* Mutant: a rollback grows from the version it restores, not from the head.
insertOnTarget(v, b, doc, restored) ==
  /\ IsFresh(v)
  /\ ver' = WithVersion(v, [branch |-> b, number |-> NextNumber(b), doc |-> doc,
                            parent |-> IF restored = None THEN Head(b) ELSE restored,
                            mergeParent |-> None, restored |-> restored])
  /\ branches' = MovedHead(b, v)
  /\ latest' = moveLatestTag(b, v)

insertVersion(v, b, doc, restored) ==
  /\ IsFresh(v)
  /\ ver' = WithVersion(v, [branch |-> b, number |-> NextNumber(b), doc |-> doc,
                            parent |-> Head(b), mergeParent |-> None,
                            restored |-> restored])
  /\ branches' = MovedHead(b, v)
  /\ latest' = moveLatestTag(b, v)

SameAsHead(b, doc) == Head(b) # None /\ ver[Head(b)].doc = doc

-----------------------------------------------------------------------------
(* createDraft commits the workflow and its headless default branch before *)
(* v1; deployCreateOnSarati commits all three at once.                     *)

InitialBranch(head) == [b \in {Main} |-> [name |-> MainName, head |-> head, isProtected |-> FALSE]]

Init ==
  /\ used = {Main}
  /\ restoring = [s \in Session |-> None]
  /\ \/ /\ ver = [v \in {} |-> None]
        /\ branches = InitialBranch(None)
        /\ latest = [b \in {} |-> None]
     \/ \E doc \in Doc, v \in VersionId :
        /\ \A w \in VersionId : v <= w
        /\ ver = [w \in {v} |-> [branch |-> Main, number |-> 1, doc |-> doc, parent |-> None,
                                 mergeParent |-> None, restored |-> None]]
        /\ branches = InitialBranch(v)
        /\ latest = [b \in {Main} |-> v]

(* A save.  A base the caller sends must be the head; an API key must send *)
(* one; a protected branch takes no commit; a document equal to the head   *)
(* mints nothing.                                                          *)
commit(b, doc, base, principal) ==
  /\ ~branches[b].isProtected
  /\ Head(b) # None /\ principal = "api_key" => base # None
  /\ base # None => base = Head(b)
  /\ ~SameAsHead(b, doc)
  /\ \E v \in VersionId : insertVersion(v, b, doc, None)
  /\ UNCHANGED <<used, restoring>>

(* patchLayout rewrites, in place, the layout of the branch's own          *)
(* highest-numbered version.                                               *)
patchLayout(b, layout) ==
  \E v \in Own(b) :
    /\ \A w \in Own(b) : ver[w].number <= ver[v].number
    /\ ver' = [ver EXCEPT ![v].doc[Position] = layout]
    /\ UNCHANGED <<branches, latest, used, restoring>>

(* rollback, before its transaction: the target is found by its number on  *)
(* a named live branch, or by a number no other version has.               *)
Resolvable(v) ==
  \/ ver[v].branch \in Live
  \/ \A w \in Minted \ {v} : ver[w].number # ver[v].number

readRollbackTarget(s, v) ==
  /\ restoring[s] = None
  /\ Resolvable(v)
  /\ restoring' = [restoring EXCEPT ![s] =
                     [target |-> v, branch |-> ver[v].branch, doc |-> ver[v].doc]]
  /\ UNCHANGED <<ver, branches, latest, used>>

(* rollback's transaction: onto the target's own branch, or, when that is  *)
(* gone, onto the default branch if that once stood at the target.         *)
RestoreOnto(r) == IF r.branch \in Live THEN r.branch ELSE Main

\* Mutant: any version may be brought back onto a default branch with a head.
HeadlessOrphan(r) == r.branch \notin Live /\ Head(Main) = None

Orphaned(r) ==
  /\ r.branch \notin Live
  /\ ~(Head(Main) # None /\ wasHeadOf(Head(Main), r.target))

\* Mutant: a rollback moves the head back instead of minting.
moveHeadBack(s) ==
  LET r == restoring[s]
  IN  /\ r # None
      /\ ~Orphaned(r)
      /\ branches' = MovedHead(RestoreOnto(r), r.target)
      /\ latest' = moveLatestTag(RestoreOnto(r), r.target)
      /\ restoring' = [restoring EXCEPT ![s] = None]
      /\ UNCHANGED <<ver, used>>

rollback(s) ==
  LET r == restoring[s]
      b == RestoreOnto(r)
  IN  /\ r # None
      /\ restoring' = [restoring EXCEPT ![s] = None]
      /\ \/ /\ Orphaned(r) \/ SameAsHead(b, r.doc)
            /\ UNCHANGED <<ver, branches, latest>>
         \/ /\ ~Orphaned(r)
            /\ ~SameAsHead(b, r.doc)
            /\ \E v \in VersionId : insertVersion(v, b, r.doc, r.target)
      /\ UNCHANGED used

(* createBranch forks from any version of the workflow, or from the        *)
(* default branch's head, which may be null.                               *)
createBranch(b, name, from) ==
  /\ b \in BranchId \ used
  /\ name \in BranchName \ Names
  /\ from \in Minted \cup {Head(Main)}
  /\ used' = used \cup {b}
  /\ branches' = [c \in Live \cup {b} |->
                    IF c = b THEN [name |-> name, head |-> from, isProtected |-> FALSE]
                    ELSE branches[c]]
  /\ latest' = IF from = None THEN latest ELSE moveLatestTag(b, from)
  /\ UNCHANGED <<ver, restoring>>

setProtection(b, isProtected) ==
  /\ branches' = [branches EXCEPT ![b].isProtected = isProtected]
  /\ UNCHANGED <<ver, latest, used, restoring>>

Deletable(b) == b # Main /\ ~branches[b].isProtected

\* ON DELETE SET NULL on workflow_versions.branch_id.
Branchless(versions, b) ==
  [v \in DOMAIN versions |->
     IF versions[v].branch = b THEN [versions[v] EXCEPT !.branch = None] ELSE versions[v]]

deleteBranch(b) ==
  /\ Deletable(b)
  /\ ver' = Branchless(ver, b)
  /\ branches' = Restrict(branches, Live \ {b})
  /\ latest' = Restrict(latest, DOMAIN latest \ {b})
  /\ UNCHANGED <<used, restoring>>

-----------------------------------------------------------------------------
(* mergeBranchIn, when it mints: both branches have a head, the target's   *)
(* history lacks the source's head, and a protected target takes no        *)
(* conflict.  The base is a lowest common ancestor or, when the histories  *)
(* share nothing, the target itself.                                       *)

MergeBases(s, t) ==
  LET shared == lowestCommonAncestor(Head(s), Head(t))
  IN  IF shared = {} THEN {Head(t)} ELSE shared

\* Mutant: a merge grows from the source alone.
SquashedVersion(s, t, doc) ==
  [branch |-> t, number |-> NextNumber(t), doc |-> doc, parent |-> Head(s),
   mergeParent |-> None, restored |-> None]

MergedVersion(s, t, doc) ==
  [branch |-> t, number |-> NextNumber(t), doc |-> doc, parent |-> Head(t),
   mergeParent |-> Head(s), restored |-> None]

\* Mutant: what the target already holds is looked for among its first parents only.
MergeAllowedByLine(s, t) ==
  /\ Head(s) # None
  /\ Head(t) # None
  /\ ~wasHeadOf(Head(t), Head(s))

MergeAllowed(s, t) ==
  /\ Head(s) # None
  /\ Head(t) # None
  /\ ~historyContains(Head(t), Head(s))

MergedDocs(s, t) ==
  LET S == ver[Head(s)].doc
      T == ver[Head(t)].doc
  IN  UNION { {threeWayMerge(ver[base].doc, S, T, chosen) :
                 chosen \in [ConflictFields(ver[base].doc, S, T) -> Value]} :
              base \in {x \in MergeBases(s, t) :
                          branches[t].isProtected => ConflictFields(ver[x].doc, S, T) = {}} }

mergeBranchIn(s, t) ==
  /\ MergeAllowed(s, t)
  /\ \E v \in VersionId, doc \in MergedDocs(s, t) :
       /\ IsFresh(v)
       /\ ver' = WithVersion(v, MergedVersion(s, t, doc))
       /\ branches' = MovedHead(t, v)
       /\ latest' = moveLatestTag(t, v)
  /\ UNCHANGED <<used, restoring>>

(* mergeAndCleanup without an open review of the pair deletes the source   *)
(* in the same transaction.                                                *)
mergeAndCleanup(s, t) ==
  /\ Deletable(s)
  /\ MergeAllowed(s, t)
  /\ \E v \in VersionId, doc \in MergedDocs(s, t) :
       /\ IsFresh(v)
       /\ ver' = Branchless(WithVersion(v, MergedVersion(s, t, doc)), s)
       /\ branches' = Restrict(MovedHead(t, v), Live \ {s})
       /\ latest' = Restrict(moveLatestTag(t, v), (DOMAIN latest \cup {t}) \ {s})
  /\ UNCHANGED <<used, restoring>>

-----------------------------------------------------------------------------
Next ==
  \/ \E b \in Live, doc \in Doc, base \in Minted \cup {None}, principal \in {"user", "api_key"} :
       commit(b, doc, base, principal)
  \/ \E b \in Live, layout \in Value : patchLayout(b, layout)
  \/ \E s \in Session, v \in Minted : readRollbackTarget(s, v)
  \/ \E s \in Session : rollback(s)
  \/ \E b \in BranchId, name \in BranchName, from \in Minted \cup {None} : createBranch(b, name, from)
  \/ \E b \in Live, isProtected \in BOOLEAN : setProtection(b, isProtected)
  \/ \E b \in Live : deleteBranch(b)
  \/ \E s, t \in Live : mergeBranchIn(s, t)
  \/ \E s, t \in Live : mergeAndCleanup(s, t)

Spec == Init /\ [][Next]_vars

-----------------------------------------------------------------------------
(* Properties.                                                             *)

(* Types, and the foreign keys of the tables: a row names a version that   *)
(* exists, and only a live branch owns versions or a `latest` tag.         *)
TypeOK ==
  /\ ver \in [Minted -> VersionRow]
  /\ Minted \subseteq VersionId
  /\ \A v \in Minted :
       /\ {ver[v].parent, ver[v].mergeParent, ver[v].restored} \subseteq Minted \cup {None}
       /\ ver[v].branch \in Live \cup {None}
  /\ branches \in [Live -> BranchRow]
  /\ Main \in Live /\ Live \subseteq used /\ used \subseteq BranchId
  /\ \A b \in Live : Head(b) \in Minted \cup {None}
  /\ latest \in [DOMAIN latest -> Minted]
  /\ DOMAIN latest \subseteq Live
  /\ restoring \in [Session -> Restore \cup {None}]
  /\ \A s \in Session : restoring[s] # None =>
       restoring[s].target \in Minted /\ restoring[s].branch \in used \cup {None}

(* A branch that minted anything stands at its own highest version, so the *)
(* next number is one past the head's.                                     *)
HeadIsHighest ==
  \A b \in Live : \A v \in Own(b) :
    Head(b) \in Own(b) /\ ver[v].number <= ver[Head(b)].number

(* A rollback in flight still knows which branch its target is on.         *)
RestoringKnowsBranch ==
  \A s \in Session : restoring[s] # None /\ restoring[s].branch \in Live =>
    ver[restoring[s].target].branch = restoring[s].branch

(* A branch's own versions are numbered 1, 2, 3, ... without a gap or a    *)
(* repeat, each the child of the one before (domain invariant 1).          *)
NumberedLine ==
  \A b \in Live : \A v \in Own(b) :
    /\ ver[v].number >= 1
    /\ \A w \in Own(b) \ {v} : ver[w].number # ver[v].number
    /\ ver[v].number > 1 =>
         /\ ver[v].parent \in Own(b)
         /\ ver[ver[v].parent].number = ver[v].number - 1
    /\ ver[v].number = 1 => ver[v].parent \notin Own(b)

(* Nothing a branch minted is ever lost: its own versions all lie on the   *)
(* first-parent line of its head, whatever commits, merges and rollbacks   *)
(* came between.                                                           *)
NothingLost ==
  \A b \in Live : \A v \in Own(b) : Head(b) # None /\ wasHeadOf(Head(b), v)

(* `latest` is on every branch that has a head, at that head, the merge    *)
(* commit included (domain invariant 6).                                   *)
LatestFloats ==
  /\ DOMAIN latest = {b \in Live : Head(b) # None}
  /\ \A b \in DOMAIN latest : latest[b] = Head(b)

(* A rollback brings back only a version its branch once stood at, never   *)
(* the unmerged work of a deleted branch, even when the branch is deleted, *)
(* merged or recreated between the read and the write (version_orphaned).  *)
RollbackStaysOnLine ==
  \A v \in Minted : ver[v].restored # None => wasHeadOf(v, ver[v].restored)

(* A merge mints a version only for a source head its target's history did *)
(* not hold, through either parent (domain invariant 3).                   *)
MergesBringNews ==
  \A v \in Minted : ver[v].mergeParent # None =>
    /\ ver[v].parent # None
    /\ ~historyContains(ver[v].parent, ver[v].mergeParent)

(* A head only moves forward: the version a live branch stood at is in the *)
(* history of the one it stands at next.                                   *)
HeadOnlyAdvances ==
  [][\A b \in Live \cap Live' : \A v \in Minted :
       Head(b) = v => Head(b)' # None /\ historyContains(Head(b), v)']_vars

(* A branch brought up to date with its target (updateFrom) lands exactly  *)
(* its own head's document when it merges: nothing a reviewer or a test    *)
(* did not see, and no conflict resolved a second time.                    *)
UpToDateMergeTakesSource ==
  [][\A v \in Minted' \ Minted :
       LET row == ver'[v]
       IN  /\ row.mergeParent # None
           /\ historyContains(row.mergeParent, row.parent)
           => row.doc = ver[row.mergeParent].doc]_vars

(* The refinement: a branch's line is its own versions in the order of     *)
(* their numbers, and it was forked from the parent of the first.          *)
OwnLine(b) ==
  [n \in 1..Cardinality(Own(b)) |-> CHOOSE v \in Own(b) : ver[v].number = n]

ForkOf(b) ==
  IF Own(b) = {} THEN Head(b)
  ELSE ver[CHOOSE v \in Own(b) : ver[v].number = 1].parent

Lines == INSTANCE BranchLines WITH
           fork <- [b \in Live |-> ForkOf(b)],
           line <- [b \in Live |-> OwnLine(b)]

(* Every behaviour of the version store is one of append-only lines: no    *)
(* operation rewrites, reorders or drops part of a branch's line.          *)
ImplementsLines == Lines!Spec
=============================================================================
