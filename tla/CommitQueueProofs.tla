------------------------- MODULE CommitQueueProofs -------------------------
(* Theorems about CommitQueue, for any repositories, workers and bounds. *)
EXTENDS CommitQueue, FiniteSetTheorems, SequenceTheorems, TLAPS

----------------------------------------------------------------------------
(* Type correctness *)

\* A row not yet inserted is typed; it needs some repository to exist.
LEMMA AbsentIsRow == Absent \in Row
<1>1. \E r \in Repos : TRUE
  BY QueueAssumption
<1>2. (CHOOSE r \in Repos : TRUE) \in Repos
  BY <1>1
<1>3. QED
  BY <1>2 DEF Absent, Row, Status, NoSha

\* The queue's database and repositories start out well typed.
LEMMA TypeInit == Init => TypeOK
<1> SUFFICES ASSUME Init PROVE TypeOK
  OBVIOUS
<1>1. rows \in [Ids -> Row]
  BY AbsentIsRow DEF Init
<1>2. lastId \in 0..MaxEntries /\ faults \in 0..MaxFaults /\ outside \in 0..MaxOutside
  BY QueueAssumption DEF Init
<1>3. log \in [Repos -> Seq(Commit)]
  BY DEF Init
<1>4. pc \in [Workers -> Pc]
  BY DEF Init, Pc
<1>5. QED
  BY <1>1, <1>2, <1>3, <1>4 DEF Init, TypeOK, NoSha

\* What others do with git is their own affair: the queue, its workers and the
\* gate chains stay as they are.
LEMMA OutsideLeaves ==
  ASSUME NEW r \in Repos, OutsideGit(r)
  PROVE  UNCHANGED <<rows, lastId, tokens, chain, pc, cur, head, stop, faults>>
BY DEF OutsideGit, OutsideLock, OutsideStage, OutsideCommit, dbVars, workerVars

\* A worker inside process_entry() has an entry to work on.
LEMMA OwnerHasEntry ==
  ASSUME TypeOK, ClaimExclusive, NEW w \in Workers, pc[w] \in Busy
  PROVE  cur[w] \in Ids
BY DEF TypeOK, ClaimExclusive

\* Writing a status into a row leaves the table well typed and the others alone.
LEMMA StatusIsRow ==
  ASSUME NEW R \in [Ids -> Row], NEW e \in Ids, NEW st \in Status, NEW R2,
         R2 = [R EXCEPT ![e].status = st]
  PROVE  /\ R2 \in [Ids -> Row] /\ R2[e].status = st
         /\ \A e2 \in Ids : e2 # e => R2[e2] = R[e2]
BY DEF Row

\* Writing a verdict and a SHA into a row leaves the table well typed...
LEMMA SettledIsRow ==
  ASSUME NEW R \in [Ids -> Row], NEW e \in Ids, NEW st \in Status, NEW sha \in Nat
  PROVE  [R EXCEPT ![e].status = st, ![e].sha = sha] \in [Ids -> Row]
<1> DEFINE R1 == [R EXCEPT ![e].status = st]
<1>1. R1 \in [Ids -> Row]
  BY DEF Row
<1>2. [R1 EXCEPT ![e].sha = sha] \in [Ids -> Row]
  <2> HIDE DEF R1
  <2>1. QED
    BY <1>1 DEF Row
<1>3. QED
  BY <1>2

\* ... and changes that row's status and SHA only.
LEMMA SettledRow ==
  ASSUME NEW R \in [Ids -> Row], NEW e \in Ids, NEW st \in Status, NEW sha \in Nat, NEW R2,
         R2 = [R EXCEPT ![e].status = st, ![e].sha = sha]
  PROVE  /\ R2[e].status = st /\ R2[e].sha = sha
         /\ R2[e].repo = R[e].repo /\ R2[e].files = R[e].files
         /\ \A e2 \in Ids : e2 # e => R2[e2] = R[e2]
<1> DEFINE R1 == [R EXCEPT ![e].status = st]
<1>1. /\ R1 \in [Ids -> Row] /\ R1[e].status = st
      /\ R1[e].repo = R[e].repo /\ R1[e].files = R[e].files
      /\ \A e2 \in Ids : e2 # e => R1[e2] = R[e2]
  BY DEF Row
<1>2. R2 = [R1 EXCEPT ![e].sha = sha]
  OBVIOUS
<1> HIDE DEF R1
<1>3. QED
  BY <1>1, <1>2 DEF Row

\* Every step keeps the types; the claim says that a busy worker's entry exists.
LEMMA TypeStep == TypeOK /\ ClaimExclusive /\ [Next]_vars => TypeOK'
<1> SUFFICES ASSUME TypeOK, ClaimExclusive, [Next]_vars PROVE TypeOK'
  OBVIOUS
<1> USE DEF TypeOK, vars, dbVars, gitVars, workerVars, Goto, Release
<1>1. ASSUME NEW r \in Repos, NEW f \in Files, Edit(r, f) PROVE TypeOK'
  BY <1>1 DEF Edit
<1>2. ASSUME NEW r \in Repos, NEW F \in SUBSET Files, Enqueue(r, F) PROVE TypeOK'
  <2>1. lastId + 1 \in Ids
    BY <1>2, QueueAssumption DEF Enqueue, Ids
  <2>2. [repo |-> r, files |-> F, status |-> "pending", sha |-> NoSha] \in Row
    BY DEF Row, Status, NoSha
  <2>3. rows' \in [Ids -> Row] /\ lastId' \in 0..MaxEntries
    BY <1>2, <2>1, <2>2, QueueAssumption DEF Enqueue, Ids
  <2>4. QED
    BY <1>2, <2>3 DEF Enqueue
<1>3. ASSUME NEW r \in Repos, OutsideGit(r) PROVE TypeOK'
  <2>1. CASE OutsideLock(r)
    BY <2>1 DEF OutsideLock
  <2>2. ASSUME NEW f \in Files, OutsideStage(r, f) PROVE TypeOK'
    BY <2>2 DEF OutsideStage
  <2>3. ASSUME NEW F \in SUBSET Files, OutsideCommit(r, F) PROVE TypeOK'
    <3> DEFINE c == [by |-> Nobody, changed |-> F, theirs |-> F]
    <3>1. c \in Commit
      BY DEF Commit
    <3>2. Append(log[r], c) \in Seq(Commit)
      BY <3>1
    <3>3. log' = [log EXCEPT ![r] = Append(log[r], c)]
      BY <2>3 DEF OutsideCommit
    <3>4. log' \in [Repos -> Seq(Commit)]
      BY <3>2, <3>3
    <3>5. outside' \in 0..MaxOutside
      BY <2>3, QueueAssumption DEF OutsideCommit
    <3>6. QED
      BY <2>3, <3>4, <3>5 DEF OutsideCommit
  <2>4. QED
    BY <1>3, <2>1, <2>2, <2>3 DEF OutsideGit
<1>4. ASSUME NEW e \in Ids, ChainEnds(e) PROVE TypeOK'
  BY <1>4 DEF ChainEnds
<1>5. ASSUME NEW w \in Workers, Start(w) PROVE TypeOK'
  BY <1>5 DEF Start, Pc
<1>6. ASSUME NEW w \in Workers, Signal(w) PROVE TypeOK'
  BY <1>6 DEF Signal
<1>7. ASSUME NEW w \in Workers, LoopTop(w) PROVE TypeOK'
  BY <1>7 DEF LoopTop, Pc
<1>8. ASSUME NEW w \in Workers, NEW e \in Ids, Claim(w, e) PROVE TypeOK'
  <2>1. rows' \in [Ids -> Row]
    <3>1. rows' = [rows EXCEPT ![e].status = "processing"] /\ "processing" \in Status
      BY <1>8 DEF Claim, Status
    <3>2. QED
      BY <3>1, StatusIsRow
  <2>2. QED
    BY <1>8, <2>1 DEF Claim, Pc, Busy
<1>9. ASSUME NEW w \in Workers, ClaimNothing(w) PROVE TypeOK'
  BY <1>9 DEF ClaimNothing, Pc
<1>10. ASSUME NEW w \in Workers, ClaimContended(w) PROVE TypeOK'
  BY <1>10, QueueAssumption DEF ClaimContended, Pc
<1>11. ASSUME NEW w \in Workers, WaitForIndexLock(w) PROVE TypeOK'
  BY <1>11 DEF WaitForIndexLock, Pc, Busy
<1>12. ASSUME NEW w \in Workers, Add(w) PROVE TypeOK'
  <2>1. RepoOf(w) \in Repos
    BY QueueAssumption DEF RepoOf
  <2>2. index' \in [Repos -> SUBSET Files] /\ worktree' \in [Repos -> SUBSET Files]
    BY <1>12, <2>1 DEF Add
  <2>3. QED
    BY <1>12, <2>2 DEF Add, Pc, Busy
<1>13. ASSUME NEW w \in Workers, AddFails(w) PROVE TypeOK'
  BY <1>13 DEF AddFails, Pc, Busy
<1>14. ASSUME NEW w \in Workers, GitCommit(w) PROVE TypeOK'
  <2>1. RepoOf(w) \in Repos /\ cur[w] \in Ids
    BY <1>14, QueueAssumption, OwnerHasEntry DEF RepoOf, GitCommit, Busy
  <2> DEFINE c == [by |-> cur[w], changed |-> index[RepoOf(w)], theirs |-> theirs[RepoOf(w)]]
  <2>2. c \in Commit
    BY <2>1 DEF Commit
  <2>3. Append(log[RepoOf(w)], c) \in Seq(Commit)
    BY <2>1, <2>2
  <2>4. log' = [log EXCEPT ![RepoOf(w)] = Append(log[RepoOf(w)], c)]
    BY <1>14 DEF GitCommit
  <2>5. log' \in [Repos -> Seq(Commit)]
    BY <2>3, <2>4
  <2>6. index' \in [Repos -> SUBSET Files] /\ theirs' \in [Repos -> SUBSET Files]
    BY <1>14, <2>1 DEF GitCommit
  <2>7. QED
    BY <1>14, <2>5, <2>6 DEF GitCommit, Pc, Busy
<1>15. ASSUME NEW w \in Workers, GitCommitFails(w) PROVE TypeOK'
  BY <1>15 DEF GitCommitFails, Pc, Busy
<1>16. ASSUME NEW w \in Workers, RevParse(w) \/ RevParseFails(w) PROVE TypeOK'
  <2>1. log[RepoOf(w)] \in Seq(Commit)
    BY QueueAssumption DEF RepoOf
  <2>2. Len(log[RepoOf(w)]) \in Nat
    BY <2>1
  <2>3. CASE RevParse(w)
    BY <2>2, <2>3 DEF RevParse, Pc, Busy
  <2>4. CASE RevParseFails(w)
    BY <2>4, QueueAssumption DEF RevParseFails, Pc, Busy, NoSha
  <2>5. QED
    BY <1>16, <2>3, <2>4
<1>17. ASSUME NEW w \in Workers, Post(w) PROVE TypeOK'
  BY <1>17 DEF Post, Pc, Busy
<1>18. ASSUME NEW w \in Workers, PostFails(w) PROVE TypeOK'
  BY <1>18 DEF PostFails, Pc, Busy
<1>19. ASSUME NEW w \in Workers, Answer(w) PROVE TypeOK'
  BY <1>19 DEF Answer, Pc, Busy
<1>20. ASSUME NEW w \in Workers, SaveToken(w) PROVE TypeOK'
  <2>1. cur[w] \in Ids
    BY <1>20, OwnerHasEntry DEF SaveToken, Busy
  <2>2. QED
    BY <1>20, <2>1 DEF SaveToken, Pc, Busy
<1>21. ASSUME NEW w \in Workers, MarkDone(w) PROVE TypeOK'
  <2>1. cur[w] \in Ids
    BY <1>21, OwnerHasEntry DEF MarkDone, Busy
  <2>2. rows' \in [Ids -> Row]
    BY <1>21, <2>1, SettledIsRow DEF MarkDone, Status
  <2>3. QED
    BY <1>21, <2>2 DEF MarkDone, Pc, NoSha
<1>22. ASSUME NEW w \in Workers, MarkFailed(w) PROVE TypeOK'
  <2>1. cur[w] \in Ids
    BY <1>22, OwnerHasEntry DEF MarkFailed, Busy
  <2>2. rows' \in [Ids -> Row]
    BY <1>22, <2>1, SettledIsRow DEF MarkFailed, Status, NoSha
  <2>3. QED
    BY <1>22, <2>2 DEF MarkFailed, Pc, NoSha
<1>23. ASSUME NEW w \in Workers, Raise(w) PROVE TypeOK'
  BY <1>23, QueueAssumption DEF Raise, Pc, Busy
<1>24. ASSUME NEW w \in Workers, Die(w) PROVE TypeOK'
  BY <1>24, QueueAssumption DEF Die, Pc, NoSha
<1>25. CASE UNCHANGED vars
  BY <1>25
<1>26. QED
  BY <1>1, <1>2, <1>3, <1>4, <1>5, <1>6, <1>7, <1>8, <1>9, <1>10, <1>11, <1>12, <1>13,
     <1>14, <1>15, <1>16, <1>17, <1>18, <1>19, <1>20, <1>21, <1>22, <1>23, <1>24, <1>25
  DEF Next, WorkerStep, ProcessEntry

----------------------------------------------------------------------------
(* The claim *)

\* Ids not yet inserted are exactly those beyond the counter, so that an
\* INSERT touches no row a worker holds.
Fresh == \A e \in Ids : rows[e].status = "absent" <=> e > lastId

\* The counter and the inserted rows move together.
LEMMA FreshStep == TypeOK /\ ClaimExclusive /\ Fresh /\ [Next]_vars => Fresh'
<1> SUFFICES ASSUME TypeOK, ClaimExclusive, Fresh, [Next]_vars PROVE Fresh'
  OBVIOUS
<1>1. CASE UNCHANGED <<rows, lastId>>
  BY <1>1 DEF Fresh
<1>2. ASSUME NEW r \in Repos, NEW F \in SUBSET Files, Enqueue(r, F) PROVE Fresh'
  BY <1>2, QueueAssumption DEF Fresh, Enqueue, TypeOK, Ids
<1>3. ASSUME NEW w \in Workers, NEW e \in Ids, Claim(w, e) PROVE Fresh'
  BY <1>3 DEF Fresh, Claim, Pending, TypeOK, Row
<1>4. ASSUME NEW w \in Workers, MarkDone(w) \/ MarkFailed(w) PROVE Fresh'
  <2>1. cur[w] \in Ids /\ rows[cur[w]].status = "processing"
    BY <1>4, OwnerHasEntry DEF ClaimExclusive, MarkDone, MarkFailed, Busy, TypeOK
  <2>2. PICK st \in {"done", "failed"}, sha \in Nat :
          rows' = [rows EXCEPT ![cur[w]].status = st, ![cur[w]].sha = sha]
    <3>1. CASE MarkDone(w)
      BY <3>1 DEF MarkDone, TypeOK
    <3>2. CASE MarkFailed(w)
      BY <3>2 DEF MarkFailed, TypeOK, NoSha
    <3>3. QED
      BY <1>4, <3>1, <3>2
  <2>3. rows'[cur[w]].status = st /\ \A e \in Ids : e # cur[w] => rows'[e] = rows[e]
    BY <2>1, <2>2, SettledRow DEF TypeOK, Status
  <2>4. lastId' = lastId
    BY <1>4 DEF MarkDone, MarkFailed
  <2>5. QED
    BY <2>1, <2>2, <2>3, <2>4 DEF Fresh
<1>5. QED
  BY <1>1, <1>2, <1>3, <1>4, OutsideLeaves
  DEF Next, WorkerStep, ProcessEntry, vars, dbVars, Edit, ChainEnds, Start, Signal,
      LoopTop, ClaimNothing, ClaimContended, WaitForIndexLock, Add, AddFails, GitCommit,
      GitCommitFails, RevParse, RevParseFails, Post, PostFails, Answer, SaveToken, Raise, Die

\* No worker owns anything at first.
LEMMA ClaimInit == Init => ClaimExclusive /\ Fresh
<1>1. Init => ClaimExclusive
  BY DEF Init, ClaimExclusive, Busy
<1>2. Init => Fresh
  BY DEF Init, Fresh, Ids, Absent
<1>3. QED
  BY <1>1, <1>2

\* Every step keeps the claim exclusive: only Claim makes an owner, and it
\* takes a pending row, which nobody owns.
LEMMA ClaimStep == TypeOK /\ ClaimExclusive /\ Fresh /\ [Next]_vars => ClaimExclusive'
<1> SUFFICES ASSUME TypeOK, ClaimExclusive, Fresh, [Next]_vars PROVE ClaimExclusive'
  OBVIOUS
<1>1. CASE UNCHANGED <<rows, pc, cur>>
  BY <1>1 DEF ClaimExclusive
<1>2. ASSUME NEW r \in Repos, NEW F \in SUBSET Files, Enqueue(r, F) PROVE ClaimExclusive'
  <2>1. lastId + 1 \in Ids /\ rows[lastId + 1].status = "absent"
    BY <1>2, QueueAssumption DEF Enqueue, Ids, Fresh, TypeOK
  <2>2. \A w \in Workers : cur[w] # 0 => cur[w] # lastId + 1
    BY <2>1 DEF ClaimExclusive
  <2>3. \A w \in Workers : cur[w] # 0 => cur[w] \in Ids /\ rows'[cur[w]] = rows[cur[w]]
    BY <1>2, <2>1, <2>2 DEF Enqueue, TypeOK
  <2>4. QED
    BY <1>2, <2>3 DEF Enqueue, workerVars, ClaimExclusive
\* A worker that moves between two places of process_entry keeps its entry.
<1>3. ASSUME NEW w \in Workers, UNCHANGED <<rows, cur>>, NEW to \in Pc, Goto(w, to),
             pc[w] \in Busy <=> to \in Busy
      PROVE  ClaimExclusive'
  BY <1>3 DEF ClaimExclusive, Goto, TypeOK
<1>4. ASSUME NEW w \in Workers, NEW e \in Ids, Claim(w, e) PROVE ClaimExclusive'
  <2>1. \A w2 \in Workers : cur[w2] # e
    BY <1>4 DEF Claim, Pending, ClaimExclusive, Ids
  <2>2. rows' = [rows EXCEPT ![e].status = "processing"] /\ rows'[e].repo = RepoOf(w)
    BY <1>4 DEF Claim, TypeOK, Row
  <2>3. \A e2 \in Ids : e2 # e => rows'[e2] = rows[e2]
    BY <2>2 DEF TypeOK
  <2>4. rows'[e].status = "processing"
    BY <2>2 DEF TypeOK, Row
  <2>5. cur' = [cur EXCEPT ![w] = e] /\ pc' = [pc EXCEPT ![w] = "lock"] /\ e # 0
    BY <1>4 DEF Claim, Goto, Ids
  <2>6. \A w2 \in Workers : pc'[w2] \in Busy <=> cur'[w2] # 0
    BY <2>5 DEF TypeOK, ClaimExclusive, Busy
  <2>7. \A w2 \in Workers : cur'[w2] # 0 => cur'[w2] \in Ids
    BY <2>5 DEF TypeOK
  <2>8. QED
    BY <2>1, <2>2, <2>3, <2>4, <2>5, <2>6, <2>7 DEF ClaimExclusive, TypeOK
\* A worker that gives its entry up touches no other worker's.
<1>5. ASSUME NEW w \in Workers, Release(w), NEW to \in Pc \ Busy, Goto(w, to),
             \A e \in Ids : e # cur[w] => rows'[e] = rows[e]
      PROVE  ClaimExclusive'
  <2>1. \A w2 \in Workers \ {w} : cur'[w2] = cur[w2] /\ pc'[w2] = pc[w2]
    BY <1>5 DEF Release, Goto, TypeOK
  <2>2. cur'[w] = 0 /\ pc'[w] \notin Busy
    BY <1>5 DEF Release, Goto, TypeOK
  <2>3. \A w2 \in Workers \ {w} : cur[w2] # 0 => rows'[cur[w2]] = rows[cur[w2]]
    BY <1>5 DEF ClaimExclusive, TypeOK
  <2>4. QED
    BY <2>1, <2>2, <2>3 DEF ClaimExclusive
<1>6. ASSUME NEW w \in Workers, MarkDone(w) \/ MarkFailed(w) \/ Die(w) PROVE ClaimExclusive'
  <2>1. \A e \in Ids : e # cur[w] => rows'[e] = rows[e]
    BY <1>6 DEF MarkDone, MarkFailed, Die, dbVars, TypeOK
  <2>2. QED
    BY <1>5, <1>6, <2>1 DEF MarkDone, MarkFailed, Die, Pc, Busy
<1>7. QED
  <2>1. CASE \E w \in Workers : \/ Start(w) \/ LoopTop(w) \/ ClaimNothing(w) \/ ClaimContended(w)
    BY <1>3, <2>1 DEF Start, LoopTop, ClaimNothing, ClaimContended, dbVars, Pc, Busy
  <2>2. CASE \E w \in Workers : \/ WaitForIndexLock(w) \/ Add(w) \/ AddFails(w) \/ GitCommit(w)
                              \/ GitCommitFails(w) \/ RevParse(w) \/ RevParseFails(w) \/ Post(w)
    BY <1>3, <2>2
    DEF WaitForIndexLock, Add, AddFails, GitCommit, GitCommitFails, RevParse, RevParseFails,
        Post, dbVars, Pc, Busy
  <2>3. CASE \E w \in Workers : PostFails(w) \/ Answer(w) \/ SaveToken(w) \/ Raise(w)
    BY <1>3, <2>3 DEF PostFails, Answer, SaveToken, Raise, dbVars, Pc, Busy
  <2>4. CASE \/ \E r \in Repos, f \in Files : Edit(r, f)
             \/ \E r \in Repos : OutsideGit(r)
             \/ \E e \in Ids : ChainEnds(e)
             \/ \E w \in Workers : Signal(w)
             \/ UNCHANGED vars
    BY <1>1, <2>4, OutsideLeaves DEF Edit, ChainEnds, Signal, vars, dbVars, workerVars
  <2>5. QED
    BY <1>2, <1>4, <1>6, <2>1, <2>2, <2>3, <2>4 DEF Next, WorkerStep, ProcessEntry

----------------------------------------------------------------------------
\* The inductive invariant of the claim.
ClaimInv == TypeOK /\ ClaimExclusive /\ Fresh

\* It holds in every reachable state.
LEMMA ClaimInvariant == Spec => []ClaimInv
<1>1. Init => ClaimInv
  BY TypeInit, ClaimInit DEF ClaimInv
<1>2. ClaimInv /\ [Next]_vars => ClaimInv'
  BY TypeStep, ClaimStep, FreshStep DEF ClaimInv
<1>3. QED
  BY <1>1, <1>2, PTL DEF Spec

\* Every reachable state is well typed.  Not inductive without the claim: a
\* commit is typed because the worker making it owns an entry.
THEOREM TypeCorrect == Spec => []TypeOK
BY ClaimInvariant, PTL DEF ClaimInv

\* _claim_next(), any number of workers: an entry in "processing" has at most
\* one owner, and only the owner's steps change its row.
THEOREM ClaimIsExclusive == Spec => []ClaimExclusive
BY ClaimInvariant, PTL DEF ClaimInv

----------------------------------------------------------------------------
(* What a step may do to a row and to a history *)

\* A row changes when it is inserted, when it is claimed, and when its owner
\* settles it; its repository is fixed by the INSERT.
LEMMA RowChange ==
  ASSUME ClaimInv, [Next]_vars, NEW e \in Ids, rows'[e] # rows[e]
  PROVE  \/ rows[e].status = "absent" /\ rows'[e].status = "pending"
         \/ /\ rows[e].status = "pending" /\ rows'[e].status = "processing"
            /\ rows'[e].repo = rows[e].repo
         \/ /\ rows[e].status = "processing" /\ rows'[e].status \in {"done", "failed"}
            /\ rows'[e].repo = rows[e].repo
<1> USE DEF ClaimInv
<1>1. ASSUME NEW r \in Repos, NEW F \in SUBSET Files, Enqueue(r, F)
      PROVE  rows[e].status = "absent" /\ rows'[e].status = "pending"
  <2>1. lastId + 1 \in Ids /\ rows[lastId + 1].status = "absent"
    BY <1>1, QueueAssumption DEF Enqueue, Ids, Fresh, TypeOK
  <2>2. QED
    BY <1>1, <2>1 DEF Enqueue, TypeOK
<1>2. ASSUME NEW w \in Workers, NEW e2 \in Ids, Claim(w, e2)
      PROVE  /\ rows[e].status = "pending" /\ rows'[e].status = "processing"
             /\ rows'[e].repo = rows[e].repo
  BY <1>2 DEF Claim, Pending, TypeOK, Row
<1>3. ASSUME NEW w \in Workers, MarkDone(w) \/ MarkFailed(w)
      PROVE  /\ rows[e].status = "processing" /\ rows'[e].status \in {"done", "failed"}
             /\ rows'[e].repo = rows[e].repo
  <2>1. cur[w] \in Ids /\ rows[cur[w]].status = "processing"
    BY <1>3, OwnerHasEntry DEF ClaimExclusive, MarkDone, MarkFailed, Busy
  <2>2. e = cur[w]
    BY <1>3, <2>1 DEF MarkDone, MarkFailed, TypeOK
  <2>3. rows'[e].repo = rows[e].repo /\ rows'[e].status \in {"done", "failed"}
    BY <1>3, <2>1, <2>2 DEF MarkDone, MarkFailed, TypeOK, Row
  <2>4. QED
    BY <2>1, <2>2, <2>3
<1>4. CASE UNCHANGED rows
  BY <1>4
<1>5. QED
  BY <1>1, <1>2, <1>3, <1>4, OutsideLeaves
  DEF Next, WorkerStep, ProcessEntry, vars, dbVars, Edit, ChainEnds, Start, Signal,
      LoopTop, ClaimNothing, ClaimContended, WaitForIndexLock, Add, AddFails, GitCommit,
      GitCommitFails, RevParse, RevParseFails, Post, PostFails, Answer, SaveToken, Raise, Die

\* Only `git commit` moves a history, a worker's or somebody else's.
LEMMA LogChange ==
  ASSUME ClaimInv, [Next]_vars, log' # log
  PROVE  \/ \E w \in Workers : GitCommit(w)
         \/ \E r \in Repos, F \in SUBSET Files : OutsideCommit(r, F)
<1>1. ASSUME NEW r \in Repos, OutsideGit(r) PROVE \E F \in SUBSET Files : OutsideCommit(r, F)
  BY <1>1 DEF OutsideGit, OutsideLock, OutsideStage, gitVars
<1>2. CASE \E w \in Workers : GitCommit(w)
  BY <1>2
<1>3. CASE ~ \E w \in Workers : GitCommit(w)
  BY <1>1, <1>3 DEF Next, WorkerStep, ProcessEntry, vars, gitVars, Edit, Enqueue, ChainEnds, Start,
     Signal, LoopTop, Claim, ClaimNothing, ClaimContended, WaitForIndexLock, Add, AddFails,
     GitCommitFails, RevParse, RevParseFails, Post, PostFails, Answer, SaveToken, MarkDone,
     MarkFailed, Raise, Die
<1>4. QED
  BY <1>2, <1>3

\* Appending to one repository's history.
LEMMA HistoryAppends ==
  ASSUME TypeOK, NEW r \in Repos, NEW c \in Commit, log' = [log EXCEPT ![r] = Append(@, c)]
  PROVE  /\ Len(log[r]) \in Nat /\ Len(log'[r]) = Len(log[r]) + 1
         /\ log'[r][Len(log[r]) + 1] = c
         /\ \A i \in 1..Len(log[r]) : log'[r][i] = log[r][i]
         /\ \A r2 \in Repos : r2 # r => log'[r2] = log[r2]
<1> DEFINE s == log[r]
<1>1. s \in Seq(Commit)
  BY DEF TypeOK
<1>2. log'[r] = Append(s, c) /\ \A r2 \in Repos : r2 # r => log'[r2] = log[r2]
  BY DEF TypeOK
<1>3. /\ Len(s) \in Nat /\ Len(Append(s, c)) = Len(s) + 1
      /\ Append(s, c)[Len(s) + 1] = c
      /\ \A i \in 1..Len(s) : Append(s, c)[i] = s[i]
  BY <1>1
<1>4. QED
  BY <1>2, <1>3

\* `git commit` appends one commit, the worker's entry's, to its own history,
\* and takes the whole index, whoever staged it.
LEMMA CommitAppends ==
  ASSUME ClaimInv, NEW w \in Workers, GitCommit(w)
  PROVE  /\ RepoOf(w) \in Repos /\ cur[w] \in Ids
         /\ Len(log[RepoOf(w)]) \in Nat
         /\ Len(log'[RepoOf(w)]) = Len(log[RepoOf(w)]) + 1
         /\ log'[RepoOf(w)][Len(log[RepoOf(w)]) + 1].by = cur[w]
         /\ log'[RepoOf(w)][Len(log[RepoOf(w)]) + 1].changed = index[RepoOf(w)]
         /\ log'[RepoOf(w)][Len(log[RepoOf(w)]) + 1].theirs = theirs[RepoOf(w)]
         /\ \A i \in 1..Len(log[RepoOf(w)]) : log'[RepoOf(w)][i] = log[RepoOf(w)][i]
         /\ \A r \in Repos : r # RepoOf(w) => log'[r] = log[r]
<1>1. RepoOf(w) \in Repos /\ cur[w] \in Ids
  BY QueueAssumption, OwnerHasEntry DEF RepoOf, GitCommit, Busy, ClaimInv
<1>2. PICK c : c = [by |-> cur[w], changed |-> index[RepoOf(w)], theirs |-> theirs[RepoOf(w)]]
  OBVIOUS
<1>3. /\ c \in Commit
      /\ c.by = cur[w] /\ c.changed = index[RepoOf(w)] /\ c.theirs = theirs[RepoOf(w)]
  BY <1>1, <1>2 DEF ClaimInv, TypeOK, Commit
<1>4. log' = [log EXCEPT ![RepoOf(w)] = Append(@, c)]
  BY <1>2 DEF GitCommit
<1>5. QED
  BY <1>1, <1>3, <1>4, HistoryAppends DEF ClaimInv

\* Somebody else's `git commit` appends one that is no entry's.
LEMMA OthersAppend ==
  ASSUME ClaimInv, NEW r \in Repos, NEW F \in SUBSET Files, OutsideCommit(r, F)
  PROVE  /\ Len(log[r]) \in Nat /\ Len(log'[r]) = Len(log[r]) + 1
         /\ log'[r][Len(log[r]) + 1].by = Nobody
         /\ \A i \in 1..Len(log[r]) : log'[r][i] = log[r][i]
         /\ \A r2 \in Repos : r2 # r => log'[r2] = log[r2]
<1>1. PICK c : c = [by |-> Nobody, changed |-> F, theirs |-> F]
  OBVIOUS
<1>2. c \in Commit /\ c.by = Nobody
  BY <1>1 DEF Commit
<1>3. log' = [log EXCEPT ![r] = Append(@, c)]
  BY <1>1 DEF OutsideCommit
<1>4. QED
  BY <1>2, <1>3, HistoryAppends DEF ClaimInv

\* So a history that moves gains one commit, of the entry that its worker is
\* committing or of nobody.
LEMMA HistoryGrows ==
  ASSUME ClaimInv, [Next]_vars, NEW r \in Repos, log'[r] # log[r]
  PROVE  /\ Len(log[r]) \in Nat /\ Len(log'[r]) = Len(log[r]) + 1
         /\ \A i \in 1..Len(log[r]) : log'[r][i] = log[r][i]
         /\ \/ \E w \in Workers : /\ GitCommit(w) /\ RepoOf(w) = r /\ cur[w] \in Ids
                                  /\ log'[r][Len(log[r]) + 1].by = cur[w]
            \/ /\ \E F \in SUBSET Files : OutsideCommit(r, F)
               /\ log'[r][Len(log[r]) + 1].by = Nobody
<1>1. ASSUME NEW w \in Workers, GitCommit(w) PROVE RepoOf(w) = r
  BY <1>1, CommitAppends
<1>2. ASSUME NEW r2 \in Repos, NEW F \in SUBSET Files, OutsideCommit(r2, F) PROVE r2 = r
  BY <1>2, OthersAppend
<1>3. QED
  BY <1>1, <1>2, LogChange, CommitAppends, OthersAppend

----------------------------------------------------------------------------
(* Verdicts are final; no entry is committed twice *)

\* No step of any worker, exception or kill changes a settled row.
THEOREM VerdictIsFinal == Spec => VerdictFinal
<1>1. ClaimInv /\ [Next]_vars => [\A e \in Ids : Settled(e) => rows'[e] = rows[e]]_rows
  BY RowChange DEF Settled
<1>2. QED
  BY <1>1, ClaimInvariant, PTL DEF Spec, VerdictFinal

\* An entry still to be committed is in no history.
Uncommitted(e) ==
  \/ rows[e].status \in {"absent", "pending"}
  \/ \E w \in Workers : cur[w] = e /\ pc[w] \in {"lock", "add", "commit"}

NotYetLanded ==
  \A e \in Ids : Uncommitted(e) =>
    \A r \in Repos : \A i \in 1..Len(log[r]) : log[r][i].by # e

\* What is still to be committed was so a step ago, and was not committed by
\* that step.
LEMMA UncommittedBefore ==
  ASSUME ClaimInv, [Next]_vars, NEW e \in Ids, Uncommitted(e)'
  PROVE  Uncommitted(e) /\ \A w \in Workers : GitCommit(w) => cur[w] # e
<1> USE DEF ClaimInv
<1>1. CASE rows'[e].status \in {"absent", "pending"}
  <2>1. rows[e].status \in {"absent", "pending"}
    BY <1>1, RowChange
  <2>2. \A w \in Workers : cur[w] # e
    BY <2>1 DEF ClaimExclusive, Ids
  <2>3. QED
    BY <2>1, <2>2 DEF Uncommitted
<1>2. ASSUME NEW w \in Workers, cur'[w] = e, pc'[w] \in {"lock", "add", "commit"}
      PROVE  Uncommitted(e) /\ \A w2 \in Workers : GitCommit(w2) => cur[w2] # e
  <2>1. CASE Claim(w, e)
    BY <2>1 DEF Claim, Pending, Uncommitted, GitCommit, ClaimExclusive, Ids, Goto, TypeOK
  <2>2. CASE ~Claim(w, e)
    <3>1. cur[w] = e /\ pc[w] \in {"lock", "add", "commit"}
      <4>1. ASSUME NEW w2 \in Workers, w2 # w,
                   \/ Start(w2) \/ Signal(w2) \/ WorkerStep(w2)
                   \/ ClaimContended(w2) \/ Raise(w2) \/ Die(w2)
            PROVE  cur'[w] = cur[w] /\ pc'[w] = pc[w]
        BY <4>1
        DEF WorkerStep, ProcessEntry, Start, Signal, LoopTop, Claim, ClaimNothing,
            ClaimContended, WaitForIndexLock, Add, AddFails, GitCommit, GitCommitFails,
            RevParse, RevParseFails, Post, PostFails, Answer, SaveToken, MarkDone, MarkFailed,
            Raise, Die, Goto, Release, workerVars, TypeOK
      <4>2. CASE \/ Start(w) \/ LoopTop(w) \/ ClaimNothing(w) \/ ClaimContended(w)
                 \/ AddFails(w) \/ GitCommit(w) \/ GitCommitFails(w) \/ RevParse(w)
                 \/ RevParseFails(w) \/ Post(w) \/ PostFails(w) \/ Answer(w) \/ SaveToken(w) \/ MarkDone(w) \/ MarkFailed(w)
                 \/ Raise(w) \/ Die(w)
        BY <1>2, <4>2
        DEF Start, LoopTop, ClaimNothing, ClaimContended, AddFails, GitCommit, GitCommitFails,
            RevParse, RevParseFails, Post, PostFails, Answer, SaveToken, MarkDone, MarkFailed,
            Raise, Die, Goto, TypeOK
      <4>3. CASE Signal(w) \/ WaitForIndexLock(w) \/ Add(w)
        BY <1>2, <4>3 DEF Signal, WaitForIndexLock, Add, Goto, TypeOK
      <4>4. ASSUME NEW e2 \in Ids, Claim(w, e2) PROVE FALSE
        BY <1>2, <2>2, <4>4 DEF Claim, TypeOK
      <4>5. CASE UNCHANGED workerVars
        BY <1>2, <4>5 DEF workerVars
      <4>6. QED
        BY <1>2, <4>1, <4>2, <4>3, <4>4, <4>5, OutsideLeaves
        DEF Next, WorkerStep, ProcessEntry, vars, Edit, Enqueue, ChainEnds
    <3>2. ASSUME NEW w2 \in Workers, GitCommit(w2), cur[w2] = e PROVE FALSE
      <4>1. w2 = w
        BY <3>1, <3>2 DEF ClaimExclusive, Ids
      <4>2. QED
        BY <1>2, <3>2, <4>1 DEF GitCommit, Goto, TypeOK
    <3>3. QED
      BY <3>1, <3>2 DEF Uncommitted
  <2>3. QED
    BY <2>1, <2>2
<1>3. QED
  BY <1>1, <1>2 DEF Uncommitted

\* Hence an entry still to be committed stays out of every history.
LEMMA NotYetLandedStep == ClaimInv /\ NotYetLanded /\ [Next]_vars => NotYetLanded'
<1> SUFFICES ASSUME ClaimInv, NotYetLanded, [Next]_vars,
                    NEW e \in Ids, Uncommitted(e)', NEW r \in Repos,
                    NEW i \in 1..Len(log'[r])
             PROVE  log'[r][i].by # e
  BY DEF NotYetLanded
<1>1. Uncommitted(e) /\ \A w \in Workers : GitCommit(w) => cur[w] # e
  BY UncommittedBefore
<1>2. CASE log'[r] = log[r]
  BY <1>1, <1>2 DEF NotYetLanded
<1>3. CASE log'[r] # log[r]
  <2>1. i \in 1..Len(log[r]) \/ i = Len(log[r]) + 1
    BY <1>3, HistoryGrows
  <2>2. CASE i \in 1..Len(log[r])
    BY <1>1, <1>3, <2>2, HistoryGrows DEF NotYetLanded
  <2>3. CASE i = Len(log[r]) + 1
    BY <1>1, <1>3, <2>3, HistoryGrows DEF Nobody, Ids
  <2>4. QED
    BY <2>1, <2>2, <2>3
<1>4. QED
  BY <1>2, <1>3

\* The only commit a step adds is of an entry that was still to be committed.
LEMMA CommittedOnceStep ==
  ClaimInv /\ NotYetLanded /\ CommittedOnce /\ [Next]_vars => CommittedOnce'
<1> SUFFICES ASSUME ClaimInv, NotYetLanded, CommittedOnce, [Next]_vars,
                    NEW r \in Repos, NEW i \in 1..Len(log'[r]), NEW j \in 1..Len(log'[r]),
                    log'[r][i].by = log'[r][j].by, log'[r][i].by # Nobody
             PROVE  i = j
  BY DEF CommittedOnce
<1>1. CASE log'[r] = log[r]
  BY <1>1 DEF CommittedOnce
<1>2. CASE log'[r] # log[r]
  <2> DEFINE n == Len(log[r])
  <2>1. /\ n \in Nat /\ Len(log'[r]) = n + 1
        /\ \A k \in 1..n : log'[r][k] = log[r][k]
    BY <1>2, HistoryGrows
  <2>2. CASE log'[r][n + 1].by = Nobody
    <3> HIDE DEF n
    <3>1. i \in 1..n /\ j \in 1..n
      BY <2>1, <2>2
    <3>2. QED
      BY <2>1, <3>1 DEF CommittedOnce, n
  <2>3. ASSUME NEW w \in Workers, GitCommit(w), RepoOf(w) = r, log'[r][n + 1].by = cur[w]
        PROVE  i = j
    <3>1. \A k \in 1..n : log[r][k].by # cur[w]
      <4>1. Uncommitted(cur[w])
        BY <2>3 DEF Uncommitted, GitCommit
      <4>2. QED
        BY <2>3, <4>1, CommitAppends DEF NotYetLanded
    <3> HIDE DEF n
    <3>2. \A k \in 1..n : log'[r][k].by # log'[r][n + 1].by
      BY <2>1, <2>3, <3>1
    <3>3. CASE i \in 1..n /\ j \in 1..n
      BY <2>1, <3>3 DEF CommittedOnce, n
    <3>4. CASE i = n + 1 \/ j = n + 1
      BY <2>1, <3>2, <3>4
    <3>5. QED
      BY <2>1, <3>3, <3>4
  <2>4. QED
    BY <1>2, <2>2, <2>3, HistoryGrows
<1>3. QED
  BY <1>1, <1>2

\* However many workers serve a repository, an entry is committed at most once.
THEOREM NothingCommittedTwice == Spec => []CommittedOnce
<1>1. Init => NotYetLanded /\ CommittedOnce
  BY DEF Init, NotYetLanded, CommittedOnce
<1>2. ClaimInv /\ NotYetLanded /\ CommittedOnce /\ [Next]_vars
        => (NotYetLanded /\ CommittedOnce)'
  BY NotYetLandedStep, CommittedOnceStep
<1>3. QED
  BY <1>1, <1>2, ClaimInvariant, PTL DEF Spec

----------------------------------------------------------------------------
(* With one worker for a repository, a queue token proves what it should *)

\* What a token vouches for: its entry landed, and nothing the queue made is
\* newer in the history that its SHA names, if it names one.
Vouched(e, sha) == Landed(e) /\ (sha # NoSha => NewestOfQueue(e, sha))

\* Any step but w's own leaves w where it stands.
LEMMA OwnSteps ==
  ASSUME ClaimInv, [Next]_vars, NEW w \in Workers
  PROVE  \/ pc'[w] = pc[w] /\ cur'[w] = cur[w] /\ head'[w] = head[w]
         \/ Start(w) \/ LoopTop(w) \/ ClaimNothing(w) \/ ClaimContended(w)
         \/ \E e \in Ids : Claim(w, e)
         \/ ProcessEntry(w) \/ Raise(w) \/ Die(w)
<1>1. ASSUME NEW w2 \in Workers, w2 # w,
             \/ Start(w2) \/ Signal(w2) \/ WorkerStep(w2)
             \/ ClaimContended(w2) \/ Raise(w2) \/ Die(w2)
      PROVE  pc'[w] = pc[w] /\ cur'[w] = cur[w] /\ head'[w] = head[w]
  BY <1>1
  DEF ClaimInv, TypeOK, WorkerStep, ProcessEntry, Start, Signal, LoopTop, Claim, ClaimNothing,
      ClaimContended, WaitForIndexLock, Add, AddFails, GitCommit, GitCommitFails, RevParse,
      RevParseFails, Post, PostFails, Answer, SaveToken, MarkDone, MarkFailed, Raise, Die, Goto,
      Release, workerVars
<1>2. CASE Signal(w) \/ UNCHANGED workerVars
  BY <1>2 DEF Signal, workerVars
<1>3. QED
  BY <1>1, <1>2, OutsideLeaves DEF Next, WorkerStep, vars, Edit, Enqueue, ChainEnds

\* A history is append-only and a row keeps its repository, so a commit once
\* an entry's own stays so...
LEMMA OwnCommitStays ==
  ASSUME ClaimInv, [Next]_vars, NEW e \in Ids, NEW sha,
         rows[e].status # "absent", OwnCommit(e, sha)
  PROVE  OwnCommit(e, sha)'
<1>1. rows'[e].repo = rows[e].repo /\ rows[e].repo \in Repos
  BY RowChange DEF ClaimInv, TypeOK, Row
<1>2. CASE log'[rows[e].repo] = log[rows[e].repo]
  BY <1>1, <1>2 DEF OwnCommit
<1>3. CASE log'[rows[e].repo] # log[rows[e].repo]
  BY <1>1, <1>3, HistoryGrows DEF OwnCommit
<1>4. QED
  BY <1>2, <1>3

\* ... and so does what is the queue's newest commit up to some point.
LEMMA NewestStays ==
  ASSUME ClaimInv, [Next]_vars, NEW e \in Ids, NEW sha,
         rows[e].status # "absent", NewestOfQueue(e, sha)
  PROVE  NewestOfQueue(e, sha)'
<1>1. rows'[e].repo = rows[e].repo /\ rows[e].repo \in Repos
  BY RowChange DEF ClaimInv, TypeOK, Row
<1>2. CASE log'[rows[e].repo] = log[rows[e].repo]
  BY <1>1, <1>2 DEF NewestOfQueue
<1>3. CASE log'[rows[e].repo] # log[rows[e].repo]
  <2> DEFINE s == log[rows[e].repo]
             t == log'[rows[e].repo]
  <2>1. Len(s) \in Nat /\ Len(t) = Len(s) + 1 /\ \A i \in 1..Len(s) : t[i] = s[i]
    BY <1>1, <1>3, HistoryGrows
  <2>2. PICK i \in 1..sha : /\ sha \in 1..Len(s) /\ s[i].by = e
                            /\ \A j \in 1..sha : i < j => s[j].by = Nobody
    BY DEF NewestOfQueue
  <2> HIDE DEF s, t
  <2>3. /\ sha \in 1..Len(t) /\ t[i].by = e
        /\ \A j \in 1..sha : i < j => t[j].by = Nobody
    BY <2>1, <2>2
  <2>4. QED
    BY <1>1, <2>2, <2>3 DEF NewestOfQueue, t
<1>4. QED
  BY <1>2, <1>3

\* An entry that landed stays so.
LEMMA LandedStays ==
  ASSUME ClaimInv, [Next]_vars, NEW e \in Ids, rows[e].status # "absent", Landed(e)
  PROVE  Landed(e)'
<1>1. rows'[e].repo = rows[e].repo
  BY RowChange DEF ClaimInv, TypeOK, Row
<1>2. PICK sha : OwnCommit(e, sha)
  BY DEF Landed, OwnCommit
<1>3. OwnCommit(e, sha)'
  BY <1>2, OwnCommitStays
<1>4. QED
  BY <1>3 DEF Landed, OwnCommit

\* So what a token vouches for stays true.
LEMMA VouchedStays ==
  ASSUME ClaimInv, [Next]_vars, NEW e \in Ids, NEW sha,
         rows[e].status # "absent", Vouched(e, sha)
  PROVE  Vouched(e, sha)'
<1>1. Landed(e)'
  BY LandedStays DEF Vouched
<1>2. sha # NoSha => NewestOfQueue(e, sha)'
  BY NewestStays DEF Vouched
<1>3. QED
  BY <1>1, <1>2 DEF Vouched

\* A chain that has passed is undone only by posting the same entry again.
LEMMA ChainStays ==
  ASSUME ClaimInv, [Next]_vars, NEW e \in Ids, chain[e] = "passed", chain'[e] # "passed"
  PROVE  \E w \in Workers : cur[w] = e /\ pc[w] = "post"
<1>1. ASSUME NEW w \in Workers, Post(w) PROVE cur[w] = e /\ pc[w] = "post"
  <2>1. cur[w] \in Ids
    BY <1>1, OwnerHasEntry DEF ClaimInv, Post, Busy
  <2>2. QED
    BY <1>1, <2>1 DEF Post, ClaimInv, TypeOK
<1>2. ASSUME NEW e2 \in Ids, ChainEnds(e2) PROVE FALSE
  BY <1>2 DEF ChainEnds, ClaimInv, TypeOK
<1>3. QED
  BY <1>1, <1>2, OutsideLeaves
  DEF Next, WorkerStep, ProcessEntry, vars, Edit, Enqueue, Start, Signal, LoopTop, Claim,
      ClaimNothing, ClaimContended, WaitForIndexLock, Add, AddFails, GitCommit, GitCommitFails,
      RevParse, RevParseFails, PostFails, Answer, SaveToken, MarkDone, MarkFailed, Raise, Die

\* Only _save_queue_token() adds a token.
LEMMA TokensChange ==
  ASSUME ClaimInv, [Next]_vars
  PROVE  \/ tokens' = tokens
         \/ \E w \in Workers :
              SaveToken(w) /\ tokens' = tokens \cup {[entry |-> cur[w], sha |-> head[w]]}
<1>1. CASE \E w \in Workers : SaveToken(w)
  BY <1>1 DEF SaveToken
<1>2. CASE ~ \E w \in Workers : SaveToken(w)
  BY <1>2, OutsideLeaves
  DEF Next, WorkerStep, ProcessEntry, vars, dbVars, Edit, Enqueue, ChainEnds, Start, Signal,
      LoopTop, Claim, ClaimNothing, ClaimContended, WaitForIndexLock, Add, AddFails, GitCommit,
      GitCommitFails, RevParse, RevParseFails, Post, PostFails, Answer, MarkDone, MarkFailed,
      Raise, Die
<1>3. QED
  BY <1>1, <1>2

\* The strengthening: what a worker knows at each place of process_entry.
HeadVouches ==
  \A w \in Workers :
    /\ pc[w] = "revparse" => NewestOfQueue(cur[w], Len(log[RepoOf(w)]))
    /\ pc[w] \in {"post", "answer", "save", "mark"} => Vouched(cur[w], head[w])

PassedIsKnown ==
  \A w \in Workers : pc[w] \in {"save", "mark"} => chain[cur[w]] = "passed"

TokenKept ==
  /\ \A w \in Workers : pc[w] = "mark" => [entry |-> cur[w], sha |-> head[w]] \in tokens
  /\ \A t \in tokens :
       /\ rows[t.entry].status \in {"processing", "done", "failed"}
       /\ \A w \in Workers : cur[w] = t.entry => pc[w] \in {"mark", "fail", "raised"}

TokenInv == HeadVouches /\ PassedIsKnown /\ TokenKept /\ TokenProvesSerial

\* Between `git commit` and `rev-parse` only others than the queue commit:
\* there is no other worker on the repository.
LEMMA NewestAtHead ==
  ASSUME OneWorkerPerRepo, ClaimInv, [Next]_vars, NEW w \in Workers, pc[w] = "revparse",
         NEW e \in Ids, e = cur[w], NEW n, n = Len(log[RepoOf(w)]), NewestOfQueue(e, n),
         NEW n2, n2 = Len(log'[RepoOf(w)])
  PROVE  NewestOfQueue(e, n2)'
<1> DEFINE r == RepoOf(w)
           s == log[r]
           t == log'[r]
<1>1. rows[e].status = "processing" /\ rows[e].repo = r /\ r \in Repos
  BY QueueAssumption DEF ClaimInv, ClaimExclusive, Ids, RepoOf
<1>2. rows'[e].repo = r
  BY <1>1, RowChange
<1>3. CASE t = s
  <2>1. NewestOfQueue(e, n)'
    BY <1>1, NewestStays
  <2>2. n2 = n
    BY <1>3
  <2>3. QED
    BY <2>1, <2>2
<1>4. CASE t # s
  <2>1. ASSUME NEW w2 \in Workers, GitCommit(w2), RepoOf(w2) = r PROVE FALSE
    BY <2>1 DEF OneWorkerPerRepo, GitCommit
  <2>2. /\ Len(s) \in Nat /\ Len(t) = Len(s) + 1 /\ t[Len(s) + 1].by = Nobody
        /\ \A i \in 1..Len(s) : t[i] = s[i]
    BY <1>1, <1>4, <2>1, HistoryGrows
  <2>3. PICK i \in 1..Len(s) : /\ s[i].by = e
                               /\ \A j \in 1..Len(s) : i < j => s[j].by = Nobody
    BY <1>1 DEF NewestOfQueue
  <2> HIDE DEF s, t, r
  <2>4. PICK m \in Nat : m = Len(s)
    BY <2>2
  <2>5. /\ Len(t) \in 1..Len(t) /\ i \in 1..Len(t) /\ t[i].by = e
        /\ \A j \in 1..Len(t) : i < j => t[j].by = Nobody
    <3>1. Len(t) = m + 1 /\ i \in 1..m
      BY <2>2, <2>3, <2>4
    <3>2. t[i].by = e
      BY <2>2, <2>3, <2>4
    <3>3. ASSUME NEW j \in 1..(m + 1), i < j PROVE t[j].by = Nobody
      <4>1. CASE j = m + 1
        BY <2>2, <2>4, <4>1
      <4>2. CASE j \in 1..m
        BY <2>2, <2>3, <2>4, <3>3, <4>2
      <4>3. QED
        BY <4>1, <4>2
    <3>4. QED
      BY <3>1, <3>2, <3>3
  <2>6. n2 = Len(t) /\ t = log'[rows'[e].repo]
    BY <1>2 DEF t, r
  <2>7. QED
    BY <2>5, <2>6 DEF NewestOfQueue
<1>5. QED
  BY <1>3, <1>4

\* The newest commit of the queue is its own entry's for the worker that made it.
LEMMA CommitIsNewest ==
  ASSUME ClaimInv, NEW w \in Workers, GitCommit(w)
  PROVE  NewestOfQueue(cur[w], Len(log[RepoOf(w)]))'
<1>1. cur[w] \in Ids /\ rows[cur[w]].repo = RepoOf(w)
  BY OwnerHasEntry DEF ClaimInv, ClaimExclusive, GitCommit, Busy
<1>2. rows' = rows /\ cur' = cur
  BY DEF GitCommit, dbVars
<1> DEFINE n == Len(log[RepoOf(w)])
           t == log'[RepoOf(w)]
<1>3. n \in Nat /\ Len(t) = n + 1 /\ t[n + 1].by = cur[w]
  BY CommitAppends
<1> HIDE DEF n, t
<1>4. /\ n + 1 \in 1..Len(t) /\ t[n + 1].by = cur[w]
      /\ \A j \in 1..(n + 1) : n + 1 < j => t[j].by = Nobody
  BY <1>3
<1>5. QED
  BY <1>1, <1>2, <1>3, <1>4 DEF NewestOfQueue, t, RepoOf

\* What a worker knows of its commit's SHA after each step.
LEMMA HeadStep ==
  ASSUME OneWorkerPerRepo, ClaimInv, TokenInv, [Next]_vars
  PROVE  HeadVouches'
<1> SUFFICES ASSUME NEW w \in Workers
             PROVE  /\ pc'[w] = "revparse" => NewestOfQueue(cur[w], Len(log[RepoOf(w)]))'
                    /\ pc'[w] \in {"post", "answer", "save", "mark"} => Vouched(cur[w], head[w])'
  BY DEF HeadVouches
<1> USE DEF ClaimInv
<1>0. pc[w] \in Busy => cur[w] \in Ids /\ rows[cur[w]].status = "processing"
  BY OwnerHasEntry DEF ClaimExclusive, Busy
<1>1. ASSUME pc'[w] = pc[w], cur'[w] = cur[w], pc[w] = "revparse"
      PROVE  NewestOfQueue(cur[w], Len(log[RepoOf(w)]))'
  <2>1. PICK e \in Ids, n \in {Len(log[RepoOf(w)])}, n2 \in {Len(log'[RepoOf(w)])} : e = cur[w]
    BY <1>0, <1>1 DEF Busy
  <2>2. NewestOfQueue(e, n)
    BY <1>1, <2>1 DEF TokenInv, HeadVouches
  <2>3. NewestOfQueue(e, n2)'
    BY <1>1, <2>1, <2>2, NewestAtHead
  <2>4. QED
    BY <1>1, <2>1, <2>3 DEF NewestOfQueue, RepoOf
\* Where the worker has looked at HEAD, what it saw stays true.
<1>2. ASSUME cur'[w] = cur[w], head'[w] = head[w], pc[w] \in {"post", "answer", "save", "mark"}
      PROVE  Vouched(cur[w], head[w])'
  <2>1. PICK e \in Ids, sha \in {head[w]} : e = cur[w] /\ rows[e].status = "processing"
    BY <1>0, <1>2 DEF Busy
  <2>2. Vouched(e, sha)
    BY <1>2, <2>1 DEF TokenInv, HeadVouches
  <2>3. Vouched(e, sha)'
    BY <2>1, <2>2, VouchedStays
  <2>4. QED
    BY <1>2, <2>1, <2>3 DEF Vouched, Landed, NewestOfQueue
<1>3. CASE GitCommit(w)
  <2>1. pc'[w] = "revparse"
    BY <1>3 DEF GitCommit, Goto, TypeOK
  <2>2. QED
    BY <1>3, <2>1, CommitIsNewest
<1>4. CASE RevParse(w) \/ RevParseFails(w)
  <2>1. PICK e \in Ids, n \in {Len(log[RepoOf(w)])} : e = cur[w] /\ rows[e].repo = RepoOf(w)
    BY <1>0, <1>4 DEF RevParse, RevParseFails, Busy, ClaimExclusive
  <2>2. NewestOfQueue(e, n)
    BY <1>4, <2>1 DEF RevParse, RevParseFails, TokenInv, HeadVouches
  <2>3. Landed(e)
    BY <2>2 DEF NewestOfQueue, Landed
  <2>4. /\ rows' = rows /\ log' = log /\ cur' = cur /\ pc'[w] = "post"
        /\ head'[w] \in {n, NoSha}
    BY <1>4, <2>1 DEF RevParse, RevParseFails, Goto, TypeOK, dbVars, gitVars
  <2>5. QED
    BY <2>1, <2>2, <2>3, <2>4 DEF Vouched, Landed, NewestOfQueue
<1>5. CASE Post(w) \/ Answer(w) \/ SaveToken(w)
  <2>1. /\ cur'[w] = cur[w] /\ head'[w] = head[w] /\ pc'[w] # "revparse"
        /\ pc[w] \in {"post", "answer", "save", "mark"}
    BY <1>5 DEF Post, Answer, SaveToken, Goto, TypeOK
  <2>2. QED
    BY <1>2, <2>1
<1>6. CASE \/ Start(w) \/ LoopTop(w) \/ ClaimNothing(w) \/ ClaimContended(w)
           \/ \E e \in Ids : Claim(w, e)
           \/ WaitForIndexLock(w) \/ Add(w) \/ AddFails(w) \/ GitCommitFails(w) \/ PostFails(w)
           \/ MarkDone(w) \/ MarkFailed(w) \/ Raise(w) \/ Die(w)
  BY <1>6 DEF Start, LoopTop, ClaimNothing, ClaimContended, Claim, WaitForIndexLock, Add, AddFails,
     GitCommitFails, PostFails, MarkDone, MarkFailed, Raise, Die, Goto, TypeOK
<1>7. QED
  BY <1>1, <1>2, <1>3, <1>4, <1>5, <1>6, OwnSteps DEF ProcessEntry

\* A worker saves a token only once it has read that the chain passed.
LEMMA PassedStep ==
  ASSUME ClaimInv, TokenInv, [Next]_vars
  PROVE  PassedIsKnown'
<1> SUFFICES ASSUME NEW w \in Workers, pc'[w] \in {"save", "mark"}
             PROVE  chain'[cur'[w]] = "passed"
  BY DEF PassedIsKnown
<1>1. /\ pc[w] \in {"answer", "save", "mark"} /\ cur'[w] = cur[w]
      /\ chain[cur[w]] = "passed"
  BY OwnSteps
  DEF ProcessEntry, TokenInv, PassedIsKnown, Start, LoopTop, ClaimNothing, ClaimContended,
      Claim, WaitForIndexLock, Add, AddFails, GitCommit, GitCommitFails, RevParse,
      RevParseFails, Post, PostFails, Answer, SaveToken, MarkDone, MarkFailed, Raise, Die, Goto,
      ClaimInv, TypeOK
<1>2. cur[w] \in Ids
  BY <1>1, OwnerHasEntry DEF ClaimInv, Busy
<1>3. QED
  BY <1>1, <1>2, ChainStays DEF ClaimInv, ClaimExclusive, Ids

\* A token once saved is there when its row is marked, and its entry is never
\* posted again.
LEMMA TokenStep ==
  ASSUME ClaimInv, TokenInv, [Next]_vars
  PROVE  TokenKept'
<1> USE DEF ClaimInv
<1>1. ASSUME NEW w \in Workers, pc'[w] = "mark"
      PROVE  [entry |-> cur'[w], sha |-> head'[w]] \in tokens'
  <2>1. CASE SaveToken(w)
    BY <2>1 DEF SaveToken
  <2>2. CASE pc[w] = "mark" /\ cur'[w] = cur[w] /\ head'[w] = head[w]
    BY <2>2, TokensChange DEF TokenInv, TokenKept
  <2>3. QED
    BY <1>1, <2>1, <2>2, OwnSteps
    DEF ProcessEntry, Start, LoopTop, ClaimNothing, ClaimContended, Claim, WaitForIndexLock,
        Add, AddFails, GitCommit, GitCommitFails, RevParse, RevParseFails, Post, PostFails,
        Answer, MarkDone, MarkFailed, Raise, Die, Goto, TypeOK
\* A row once beyond "pending" stays there.
<1>2. ASSUME NEW e \in Ids, rows[e].status \in {"processing", "done", "failed"}
      PROVE  rows'[e].status \in {"processing", "done", "failed"}
  BY <1>2, RowChange
<1>3. ASSUME NEW t \in tokens'
      PROVE  /\ t.entry \in Ids
             /\ rows[t.entry].status \in {"processing", "done", "failed"}
             /\ \A w \in Workers : cur'[w] = t.entry => pc'[w] \in {"mark", "fail", "raised"}
  <2>1. CASE t \in tokens
    <3>1. /\ t.entry \in Ids /\ rows[t.entry].status \in {"processing", "done", "failed"}
          /\ \A w \in Workers : cur[w] = t.entry => pc[w] \in {"mark", "fail", "raised"}
      BY <2>1 DEF TokenInv, TokenKept, TypeOK
    <3>2. ASSUME NEW w \in Workers, cur'[w] = t.entry
          PROVE  pc'[w] \in {"mark", "fail", "raised"}
      <4>1. ~ \E e \in Ids : Claim(w, e)
        BY <3>1, <3>2 DEF Claim, Pending, TypeOK
      <4>2. ~ (MarkDone(w) \/ MarkFailed(w) \/ Die(w))
        BY <3>1, <3>2 DEF MarkDone, MarkFailed, Die, Release, TypeOK, Ids
      <4>3. cur[w] = t.entry
        BY <3>2, <4>1, <4>2, OwnSteps
        DEF ProcessEntry, Start, LoopTop, ClaimNothing, ClaimContended, WaitForIndexLock, Add,
            AddFails, GitCommit, GitCommitFails, RevParse, RevParseFails, Post, PostFails,
            Answer, SaveToken, Raise, dbVars
      <4>4. pc[w] \in {"mark", "fail", "raised"}
        BY <3>1, <4>3
      <4>5. CASE pc'[w] = pc[w] \/ Raise(w)
        BY <4>4, <4>5 DEF Raise, Goto, TypeOK
      <4>6. QED
        BY <4>1, <4>2, <4>4, <4>5, OwnSteps
        DEF ProcessEntry, Start, LoopTop, ClaimNothing, ClaimContended, WaitForIndexLock, Add,
            AddFails, GitCommit, GitCommitFails, RevParse, RevParseFails, Post, PostFails,
            Answer, SaveToken
    <3>3. QED
      BY <3>1, <3>2
  <2>2. ASSUME NEW w \in Workers, SaveToken(w), t = [entry |-> cur[w], sha |-> head[w]]
        PROVE  /\ t.entry \in Ids
               /\ rows[t.entry].status \in {"processing", "done", "failed"}
               /\ \A w2 \in Workers : cur'[w2] = t.entry => pc'[w2] \in {"mark", "fail", "raised"}
    <3>1. cur[w] \in Ids /\ t.entry = cur[w] /\ rows[cur[w]].status = "processing"
      BY <2>2, OwnerHasEntry DEF SaveToken, Busy, ClaimExclusive
    <3>2. \A w2 \in Workers : cur'[w2] = cur[w] => w2 = w
      BY <2>2, <3>1 DEF SaveToken, ClaimExclusive, Ids
    <3>3. pc'[w] = "mark"
      BY <2>2 DEF SaveToken, Goto, TypeOK
    <3>4. QED
      BY <3>1, <3>2, <3>3
  <2>3. QED
    BY <2>1, <2>2, TokensChange
<1>4. QED
  BY <1>1, <1>2, <1>3 DEF TokenKept

\* What the property says of one token.
LEMMA TokenVouches ==
  ASSUME TokenProvesSerial, NEW t \in tokens
  PROVE  Vouched(t.entry, t.sha) /\ chain[t.entry] = "passed"
BY DEF TokenProvesSerial, Vouched

\* The property itself: old tokens stay true and new ones are true.
LEMMA SerialStep ==
  ASSUME ClaimInv, TokenInv, [Next]_vars
  PROVE  TokenProvesSerial'
<1> USE DEF ClaimInv
<1>1. ASSUME NEW t \in tokens'
      PROVE  Vouched(t.entry, t.sha)' /\ chain'[t.entry] = "passed"
  <2>1. /\ t.entry \in Ids /\ rows[t.entry].status # "absent"
        /\ Vouched(t.entry, t.sha) /\ chain[t.entry] = "passed"
        /\ \A w \in Workers : cur[w] = t.entry => pc[w] # "post"
    <3>1. CASE t \in tokens
      <4>1. t.entry \in Ids /\ rows[t.entry].status # "absent"
        BY <3>1 DEF TokenInv, TokenKept, TypeOK
      <4>2. Vouched(t.entry, t.sha) /\ chain[t.entry] = "passed"
        BY <3>1, TokenVouches DEF TokenInv
      <4>3. \A w \in Workers : cur[w] = t.entry => pc[w] # "post"
        BY <3>1 DEF TokenInv, TokenKept
      <4>4. QED
        BY <4>1, <4>2, <4>3
    <3>2. ASSUME NEW w \in Workers, SaveToken(w), t = [entry |-> cur[w], sha |-> head[w]]
          PROVE  /\ t.entry \in Ids /\ rows[t.entry].status # "absent"
                 /\ Vouched(t.entry, t.sha) /\ chain[t.entry] = "passed"
                 /\ \A w2 \in Workers : cur[w2] = t.entry => pc[w2] # "post"
      <4>1. cur[w] \in Ids /\ rows[cur[w]].status = "processing" /\ pc[w] = "save"
        BY <3>2, OwnerHasEntry DEF SaveToken, Busy, ClaimExclusive
      <4>2. Vouched(cur[w], head[w]) /\ chain[cur[w]] = "passed"
        BY <4>1 DEF TokenInv, HeadVouches, PassedIsKnown
      <4>3. \A w2 \in Workers : cur[w2] = cur[w] => pc[w2] # "post"
        BY <4>1 DEF ClaimExclusive, Ids
      <4>4. QED
        BY <3>2, <4>1, <4>2, <4>3
    <3>3. QED
      BY <3>1, <3>2, TokensChange
  <2>2. PICK e \in Ids, sha \in {t.sha} : e = t.entry
    BY <2>1
  <2>3. Vouched(e, sha)' /\ chain'[e] = "passed"
    BY <2>1, <2>2, VouchedStays, ChainStays
  <2>4. QED
    BY <2>2, <2>3 DEF Vouched, Landed, NewestOfQueue
<1>2. ASSUME NEW e \in Ids, rows'[e].status = "done"
      PROVE  [entry |-> e, sha |-> rows'[e].sha] \in tokens'
  <2>1. CASE rows[e].status = "done"
    BY <1>2, <2>1, RowChange, TokensChange DEF TokenInv, TokenProvesSerial
  <2>2. CASE rows[e].status # "done"
    <3>1. ASSUME NEW w \in Workers, MarkDone(w) PROVE cur[w] \in Ids
      BY <3>1, OwnerHasEntry DEF MarkDone, Busy
    <3>2. PICK w \in Workers : MarkDone(w)
      <4>1. \A w \in Workers : MarkFailed(w) => cur[w] \in Ids
        BY OwnerHasEntry DEF MarkFailed, Busy
      <4>2. rows[e].status = "processing"
        BY <1>2, <2>2, RowChange
      <4>3. ASSUME NEW w \in Workers, NEW e2 \in Ids, Claim(w, e2) PROVE FALSE
        <5>1. rows'[e] = rows[e]
          BY <4>2, <4>3 DEF Claim, Pending, TypeOK
        <5>2. QED
          BY <1>2, <2>2, <5>1
      <4>4. ASSUME NEW r \in Repos, NEW F \in SUBSET Files, Enqueue(r, F) PROVE FALSE
        <5>1. lastId + 1 \in Ids /\ rows[lastId + 1].status = "absent"
          BY <4>4, QueueAssumption DEF Enqueue, Ids, Fresh, TypeOK
        <5>2. rows'[e] = rows[e]
          BY <4>2, <4>4, <5>1 DEF Enqueue, TypeOK
        <5>3. QED
          BY <1>2, <2>2, <5>2
      <4>5. ASSUME NEW w \in Workers, MarkFailed(w) PROVE FALSE
        <5>1. PICK sha \in Nat :
                rows' = [rows EXCEPT ![cur[w]].status = "failed", ![cur[w]].sha = sha]
          BY <4>5 DEF MarkFailed, NoSha, TypeOK
        <5>2. cur[w] \in Ids /\ "failed" \in Status /\ rows \in [Ids -> Row]
          BY <4>1, <4>5 DEF Status, TypeOK
        <5>3. /\ rows'[cur[w]].status = "failed"
              /\ \A e2 \in Ids : e2 # cur[w] => rows'[e2] = rows[e2]
          BY <5>1, <5>2, SettledRow
        <5>4. QED
          BY <1>2, <2>2, <5>3
      <4>6. rows' # rows
        BY <1>2, <2>2
      <4>7. QED
        BY <1>2, <4>3, <4>4, <4>5, <4>6, OutsideLeaves
        DEF Next, WorkerStep, ProcessEntry, vars, dbVars, Edit, ChainEnds, Start, Signal,
            LoopTop, ClaimNothing, ClaimContended, WaitForIndexLock, Add, AddFails, GitCommit,
            GitCommitFails, RevParse, RevParseFails, Post, PostFails, Answer, SaveToken, Raise,
            Die
    <3>3. e = cur[w] /\ rows'[e].sha = head[w]
      BY <1>2, <2>2, <3>1, <3>2 DEF MarkDone, TypeOK, Row
    <3>4. QED
      BY <3>2, <3>3 DEF MarkDone, TokenInv, TokenKept
  <2>3. QED
    BY <2>1, <2>2
<1>3. QED
  BY <1>1, <1>2 DEF TokenProvesSerial, Vouched

\* With one worker for each repository, whatever the number of repositories,
\* entries, faults and commits of others: an entry with a queue token landed
\* and passed the gate chain, and in the history that its SHA names, if
\* rev-parse gave one, no entry landed after it.
THEOREM TokensProveSerial ==
  ASSUME OneWorkerPerRepo
  PROVE  Spec => []TokenProvesSerial
<1>1. Init => TokenInv
  BY DEF Init, TokenInv, HeadVouches, PassedIsKnown, TokenKept, TokenProvesSerial, Absent
<1>2. ClaimInv /\ TokenInv /\ [Next]_vars => TokenInv'
  BY OneWorkerPerRepo, HeadStep, PassedStep, TokenStep, SerialStep DEF TokenInv
<1>3. TokenInv => TokenProvesSerial
  BY DEF TokenInv
<1>4. QED
  BY <1>1, <1>2, <1>3, ClaimInvariant, PTL DEF Spec

----------------------------------------------------------------------------
(* Who moves a row, a history and an index                                *)

\* _mark_done() and _mark_failed() write the verdict and the SHA of the
\* owner's row, nothing else.
LEMMA SettledByOwner ==
  ASSUME ClaimInv, NEW w \in Workers, MarkDone(w) \/ MarkFailed(w)
  PROVE  /\ cur[w] \in Ids /\ rows[cur[w]].status = "processing"
         /\ rows'[cur[w]].status = IF pc[w] = "mark" THEN "done" ELSE "failed"
         /\ rows'[cur[w]].sha = IF pc[w] = "raised" THEN NoSha ELSE head[w]
         /\ rows'[cur[w]].repo = rows[cur[w]].repo /\ rows'[cur[w]].files = rows[cur[w]].files
         /\ \A e \in Ids : e # cur[w] => rows'[e] = rows[e]
<1> DEFINE st  == IF pc[w] = "mark" THEN "done" ELSE "failed"
           sha == IF pc[w] = "raised" THEN NoSha ELSE head[w]
<1>1. cur[w] \in Ids /\ rows[cur[w]].status = "processing"
  BY OwnerHasEntry DEF ClaimInv, ClaimExclusive, MarkDone, MarkFailed, Busy
<1>2. rows \in [Ids -> Row] /\ st \in Status /\ sha \in Nat
  BY DEF ClaimInv, TypeOK, Status, NoSha
<1>3. rows' = [rows EXCEPT ![cur[w]].status = st, ![cur[w]].sha = sha]
  BY DEF MarkDone, MarkFailed
<1> HIDE DEF st, sha
<1>4. /\ rows'[cur[w]].status = st /\ rows'[cur[w]].sha = sha
      /\ rows'[cur[w]].repo = rows[cur[w]].repo /\ rows'[cur[w]].files = rows[cur[w]].files
      /\ \A e \in Ids : e # cur[w] => rows'[e] = rows[e]
  BY <1>1, <1>2, <1>3, SettledRow
<1>5. QED
  BY <1>1, <1>4 DEF st, sha

\* What an entry asks for is fixed by its INSERT.
LEMMA RowKeeps ==
  ASSUME ClaimInv, [Next]_vars, NEW e \in Ids, rows[e].status # "absent"
  PROVE  rows'[e].repo = rows[e].repo /\ rows'[e].files = rows[e].files
<1> USE DEF ClaimInv
<1>1. ASSUME NEW r \in Repos, NEW F \in SUBSET Files, Enqueue(r, F) PROVE rows'[e] = rows[e]
  <2>1. lastId + 1 \in Ids /\ rows[lastId + 1].status = "absent"
    BY <1>1, QueueAssumption DEF Enqueue, Ids, Fresh, TypeOK
  <2>2. QED
    BY <1>1, <2>1 DEF Enqueue, TypeOK
<1>2. ASSUME NEW w \in Workers, NEW e2 \in Ids, Claim(w, e2)
      PROVE  rows'[e].repo = rows[e].repo /\ rows'[e].files = rows[e].files
  BY <1>2 DEF Claim, TypeOK, Row
<1>3. ASSUME NEW w \in Workers, MarkDone(w) \/ MarkFailed(w)
      PROVE  rows'[e].repo = rows[e].repo /\ rows'[e].files = rows[e].files
  BY <1>3, SettledByOwner
<1>4. CASE UNCHANGED rows
  BY <1>4
<1>5. QED
  BY <1>1, <1>2, <1>3, <1>4, OutsideLeaves
  DEF Next, WorkerStep, ProcessEntry, vars, dbVars, Edit, ChainEnds, Start, Signal,
      LoopTop, ClaimNothing, ClaimContended, WaitForIndexLock, Add, AddFails, GitCommit,
      GitCommitFails, RevParse, RevParseFails, Post, PostFails, Answer, SaveToken, Raise, Die

\* A waiting row leaves "pending" by being claimed.
LEMMA ClaimedBy ==
  ASSUME ClaimInv, [Next]_vars, NEW e \in Ids, rows[e].status = "pending",
         rows'[e].status # "pending"
  PROVE  \E w \in Workers : Claim(w, e)
<1> USE DEF ClaimInv
<1>1. ASSUME NEW r \in Repos, NEW F \in SUBSET Files, Enqueue(r, F) PROVE FALSE
  BY <1>1, QueueAssumption DEF Enqueue, Ids, Fresh, TypeOK
<1>2. ASSUME NEW w \in Workers, NEW e2 \in Ids, Claim(w, e2) PROVE e2 = e
  BY <1>2 DEF Claim, TypeOK
<1>3. ASSUME NEW w \in Workers, MarkDone(w) \/ MarkFailed(w) PROVE FALSE
  BY <1>3, SettledByOwner
<1>4. CASE UNCHANGED rows
  BY <1>4
<1>5. QED
  BY <1>1, <1>2, <1>3, <1>4, OutsideLeaves
  DEF Next, WorkerStep, ProcessEntry, vars, dbVars, Edit, ChainEnds, Start, Signal,
      LoopTop, ClaimNothing, ClaimContended, WaitForIndexLock, Add, AddFails, GitCommit,
      GitCommitFails, RevParse, RevParseFails, Post, PostFails, Answer, SaveToken, Raise, Die

\* A worker gets its entry from Claim alone.
LEMMA OwnerKept ==
  ASSUME ClaimInv, [Next]_vars, NEW w \in Workers, cur'[w] # 0
  PROVE  cur'[w] = cur[w] \/ Claim(w, cur'[w])
<1>1. ASSUME NEW e \in Ids, Claim(w, e) PROVE Claim(w, cur'[w])
  <2>1. cur'[w] = e
    BY <1>1 DEF Claim, ClaimInv, TypeOK
  <2>2. QED
    BY <1>1, <2>1
<1>2. CASE MarkDone(w) \/ MarkFailed(w) \/ Die(w)
  BY <1>2 DEF MarkDone, MarkFailed, Die, Release, ClaimInv, TypeOK
<1>3. CASE ~ (MarkDone(w) \/ MarkFailed(w) \/ Die(w)) /\ ~ \E e \in Ids : Claim(w, e)
  BY <1>3, OwnSteps
  DEF ProcessEntry, Start, LoopTop, ClaimNothing, ClaimContended, WaitForIndexLock, Add,
      AddFails, GitCommit, GitCommitFails, RevParse, RevParseFails, Post, PostFails, Answer,
      SaveToken, Raise
<1>4. QED
  BY <1>1, <1>2, <1>3

\* A claimed row leaves "processing" by its owner's verdict.
LEMMA SettledBy ==
  ASSUME ClaimInv, [Next]_vars, NEW e \in Ids, rows[e].status = "processing",
         rows'[e].status # "processing"
  PROVE  \E w \in Workers : (MarkDone(w) \/ MarkFailed(w)) /\ cur[w] = e
<1> USE DEF ClaimInv
<1>1. ASSUME NEW r \in Repos, NEW F \in SUBSET Files, Enqueue(r, F) PROVE FALSE
  BY <1>1, QueueAssumption DEF Enqueue, Ids, Fresh, TypeOK
<1>2. ASSUME NEW w \in Workers, NEW e2 \in Ids, Claim(w, e2) PROVE FALSE
  BY <1>2 DEF Claim, Pending, TypeOK
<1>3. ASSUME NEW w \in Workers, MarkDone(w) \/ MarkFailed(w) PROVE cur[w] = e
  BY <1>3, SettledByOwner
<1>4. CASE UNCHANGED rows
  BY <1>4
<1>5. QED
  BY <1>1, <1>2, <1>3, <1>4, OutsideLeaves
  DEF Next, WorkerStep, ProcessEntry, vars, dbVars, Edit, ChainEnds, Start, Signal,
      LoopTop, ClaimNothing, ClaimContended, WaitForIndexLock, Add, AddFails, GitCommit,
      GitCommitFails, RevParse, RevParseFails, Post, PostFails, Answer, SaveToken, Raise, Die

\* An entry lands by its owner's `git commit`, and never leaves the history.
LEMMA LandedChange ==
  ASSUME ClaimInv, [Next]_vars, NEW e \in Ids, rows[e].status # "absent"
  PROVE  /\ Landed(e) => Landed(e)'
         /\ Landed(e)' => Landed(e) \/ \E w \in Workers : GitCommit(w) /\ cur[w] = e
<1>1. rows'[e].repo = rows[e].repo /\ rows[e].repo \in Repos
  BY RowKeeps DEF ClaimInv, TypeOK, Row
<1>2. CASE log'[rows[e].repo] = log[rows[e].repo]
  BY <1>1, <1>2 DEF Landed
<1>3. CASE log'[rows[e].repo] # log[rows[e].repo]
  <2> DEFINE s == log[rows[e].repo]
             t == log'[rows[e].repo]
             n == Len(s)
  <2>1. /\ n \in Nat /\ Len(t) = n + 1 /\ \A i \in 1..n : t[i] = s[i]
        /\ \/ \E w \in Workers : GitCommit(w) /\ t[n + 1].by = cur[w]
           \/ t[n + 1].by = Nobody
    BY <1>1, <1>3, HistoryGrows
  <2>2. /\ Landed(e) <=> \E i \in 1..n : s[i].by = e
        /\ Landed(e)' <=> \E i \in 1..Len(t) : t[i].by = e
    BY <1>1 DEF Landed
  <2> HIDE DEF s, t, n
  <2>3. ASSUME Landed(e) PROVE Landed(e)'
    BY <2>1, <2>2, <2>3
  <2>4. ASSUME Landed(e)', ~Landed(e) PROVE \E w \in Workers : GitCommit(w) /\ cur[w] = e
    <3>1. PICK i \in 1..(n + 1) : t[i].by = e
      BY <2>1, <2>2, <2>4
    <3>2. i = n + 1
      BY <2>1, <2>2, <2>4, <3>1
    <3>3. e # Nobody
      BY DEF Nobody, Ids
    <3>4. QED
      BY <2>1, <3>1, <3>2, <3>3
  <2>5. QED
    BY <2>3, <2>4
<1>4. QED
  BY <1>2, <1>3

----------------------------------------------------------------------------
(* With one worker for a repository, a commit holds its own entry's files  *)

\* The strengthening.  Of a repository's rows, the oldest is claimed first...
OldestFirst ==
  \A e1, e2 \in Ids :
    rows[e1].status = "pending" /\ e1 < e2 /\ rows[e2].repo = rows[e1].repo
      => rows[e2].status \in {"pending", "absent"}

\* ... so the entry in hand is the newest one claimed...
InHandIsNewest ==
  \A w \in Workers, e \in Ids :
    cur[w] # 0 /\ cur[w] < e /\ rows[e].repo = RepoOf(w)
      => rows[e].status \in {"pending", "absent"}

\* ... and no entry older than one in the history is still to be committed.
PassedOver ==
  \A r \in Repos : \A i \in 1..Len(log[r]) : \A e \in Ids :
    e < log[r][i].by /\ rows[e].repo = r => ~Uncommitted(e)

\* What the queue has staged was staged by claimed entries that have not landed.
StagedByClaimed ==
  \A r \in Repos : \A f \in index[r] \ theirs[r] : \E e \in Ids :
    /\ rows[e].repo = r /\ rows[e].status \notin {"absent", "pending"}
    /\ ~Landed(e)
    /\ f \in rows[e].files

\* File f of a repository's i-th commit, made by the queue, is its entry's own,
\* was staged by others, or was left staged by an earlier entry that did not
\* land.
Explained(r, i, f) ==
  \/ f \in log[r][i].theirs
  \/ f \in rows[log[r][i].by].files
  \/ \E e \in Ids : /\ e < log[r][i].by /\ rows[e].repo = r /\ ~Landed(e)
                    /\ f \in rows[e].files

AllExplained ==
  \A r \in Repos : \A i \in 1..Len(log[r]) :
    log[r][i].by # Nobody => \A f \in log[r][i].changed : Explained(r, i, f)

OwnFilesInv == OldestFirst /\ InHandIsNewest /\ PassedOver /\ StagedByClaimed /\ AllExplained

\* Rows of a repository are claimed in the order of their ids.
LEMMA OldestStep == ClaimInv /\ OldestFirst /\ [Next]_vars => OldestFirst'
<1> SUFFICES ASSUME ClaimInv, OldestFirst, [Next]_vars, NEW e1 \in Ids, NEW e2 \in Ids,
                    rows'[e1].status = "pending", e1 < e2, rows'[e2].repo = rows'[e1].repo
             PROVE  rows'[e2].status \in {"pending", "absent"}
  BY DEF OldestFirst
<1>1. CASE rows[e2].status = "absent"
  BY <1>1, RowChange
<1>2. CASE rows[e2].status # "absent"
  <2>1. rows[e1].status # "absent"
    BY <1>2 DEF ClaimInv, Fresh, TypeOK, Ids
  <2>2. rows[e1].status = "pending"
    BY <2>1, RowChange
  <2>3. rows[e2].repo = rows[e1].repo
    BY <1>2, <2>1, RowKeeps
  <2>4. rows[e2].status = "pending"
    BY <1>2, <2>2, <2>3 DEF OldestFirst
  <2>5. \A w \in Workers : ~Claim(w, e2)
    BY <2>2, <2>3 DEF Claim, Pending, Ids
  <2>6. QED
    BY <2>4, <2>5, ClaimedBy
<1>3. QED
  BY <1>1, <1>2

\* The entry in hand is the newest one claimed: the only worker that could
\* have claimed a newer one is busy with it.
LEMMA NewestStep ==
  ASSUME OneWorkerPerRepo, ClaimInv, OldestFirst, InHandIsNewest, [Next]_vars
  PROVE  InHandIsNewest'
<1> SUFFICES ASSUME NEW w \in Workers, NEW e \in Ids,
                    cur'[w] # 0, cur'[w] < e, rows'[e].repo = RepoOf(w)
             PROVE  rows'[e].status \in {"pending", "absent"}
  BY DEF InHandIsNewest, RepoOf
<1>1. CASE rows[e].status = "absent"
  BY <1>1, RowChange
<1>2. CASE rows[e].status # "absent" /\ Claim(w, cur'[w])
  <2>1. cur'[w] \in Ids /\ rows[cur'[w]].repo = RepoOf(w) /\ rows[cur'[w]].status = "pending"
    <3>1. cur'[w] \in Ids
      BY TypeStep DEF ClaimInv, TypeOK
    <3>2. QED
      BY <1>2, <3>1 DEF Claim, Pending
  <2>2. rows'[e] = rows[e]
    BY <1>2, <2>1 DEF Claim, ClaimInv, TypeOK, Ids
  <2>3. QED
    BY <2>1, <2>2 DEF OldestFirst
<1>3. CASE rows[e].status # "absent" /\ cur'[w] = cur[w]
  <2>1. rows[e].repo = RepoOf(w)
    BY <1>3, RowKeeps
  <2>2. rows[e].status = "pending"
    BY <1>3, <2>1 DEF InHandIsNewest
  <2>3. ASSUME NEW w2 \in Workers, Claim(w2, e) PROVE FALSE
    <3>1. w2 = w
      BY <2>1, <2>3 DEF Claim, OneWorkerPerRepo
    <3>2. cur[w] = 0
      BY <2>3, <3>1 DEF Claim, ClaimInv, ClaimExclusive, Busy
    <3>3. QED
      BY <1>3, <3>2
  <2>4. QED
    BY <2>2, <2>3, ClaimedBy
<1>4. QED
  BY <1>1, <1>2, <1>3, OwnerKept

\* What is in a history was inserted, and waits for nothing.
LEMMA LandedIsPast ==
  ASSUME ClaimInv, NotYetLanded, NEW r \in Repos, NEW i \in 1..Len(log[r]),
         log[r][i].by # Nobody
  PROVE  log[r][i].by \in Ids /\ log[r][i].by <= lastId /\ ~Uncommitted(log[r][i].by)
<1>1. log[r][i].by \in Ids
  <2>1. log[r] \in Seq(Commit)
    BY DEF ClaimInv, TypeOK
  <2>2. log[r][i] \in Commit
    BY <2>1, ElementOfSeq
  <2>3. QED
    BY <2>2 DEF Commit
<1>2. ~Uncommitted(log[r][i].by)
  BY <1>1 DEF NotYetLanded
<1>3. QED
  BY <1>1, <1>2 DEF Uncommitted, ClaimInv, Fresh, TypeOK, Ids

\* A repository's entries land in the order they were queued: those passed
\* over are settled or stranded, and never land.
LEMMA PassedOverStep ==
  ASSUME OneWorkerPerRepo, ClaimInv, NotYetLanded, OldestFirst, PassedOver, [Next]_vars
  PROVE  PassedOver'
<1> SUFFICES ASSUME NEW r \in Repos, NEW i \in 1..Len(log'[r]), NEW e \in Ids,
                    e < log'[r][i].by, rows'[e].repo = r, Uncommitted(e)'
             PROVE  FALSE
  BY DEF PassedOver
<1>1. Uncommitted(e)
  BY UncommittedBefore
<1>2. ASSUME i \in 1..Len(log[r]), log'[r][i] = log[r][i] PROVE FALSE
  <2>1. rows[e].status # "absent"
    <3>0. log[r][i].by # Nobody
      BY <1>2 DEF Nobody, Ids
    <3>1. log[r][i].by \in Ids /\ log[r][i].by <= lastId /\ e < log[r][i].by
      BY <1>2, <3>0, LandedIsPast
    <3>2. lastId \in Nat /\ (rows[e].status = "absent" <=> e > lastId)
      BY QueueAssumption DEF ClaimInv, Fresh, TypeOK
    <3>3. QED
      BY <3>1, <3>2, QueueAssumption DEF Ids
  <2>2. QED
    BY <1>1, <1>2, <2>1, RowKeeps DEF PassedOver
<1>3. ASSUME NEW w \in Workers, GitCommit(w), r = RepoOf(w), log'[r][i].by = cur[w] PROVE FALSE
  <2>1. cur[w] \in Ids /\ rows[cur[w]].status = "processing" /\ rows[cur[w]].repo = r
    BY <1>3, OwnerHasEntry DEF GitCommit, Busy, ClaimInv, ClaimExclusive
  <2>2. rows[e].status # "absent"
    <3>1. e < cur[w]
      BY <1>3
    <3>2. /\ lastId \in Nat /\ e \in Nat /\ cur[w] \in Nat
          /\ \A e2 \in Ids : rows[e2].status = "absent" <=> e2 > lastId
      BY <2>1, QueueAssumption DEF ClaimInv, Fresh, TypeOK, Ids
    <3>3. QED
      BY <2>1, <3>1, <3>2
  <2>3. rows[e].repo = r
    BY <2>2, RowKeeps
  <2>4. rows[e].status # "pending"
    BY <1>3, <2>1, <2>3 DEF OldestFirst
  <2>5. PICK w2 \in Workers : cur[w2] = e
    BY <1>1, <2>2, <2>4 DEF Uncommitted
  <2>6. RepoOf(w2) = r
    BY <2>3, <2>5 DEF ClaimInv, ClaimExclusive, Ids
  <2>7. w2 = w
    BY <1>3, <2>6 DEF OneWorkerPerRepo
  <2>8. QED
    BY <1>3, <2>1, <2>5, <2>7 DEF Ids
<1>4. CASE log'[r] = log[r]
  BY <1>2, <1>4
<1>5. CASE log'[r] # log[r]
  <2>1. i \in 1..Len(log[r]) \/ i = Len(log[r]) + 1
    BY <1>5, HistoryGrows
  <2>2. log'[r][i].by # Nobody
    BY DEF Nobody, Ids
  <2>3. QED
    BY <1>2, <1>3, <1>5, <2>1, <2>2, HistoryGrows
<1>6. QED
  BY <1>4, <1>5

\* What the queue has staged grows by its worker's `git add` alone, and a
\* commit empties it.
LEMMA IndexChange ==
  ASSUME ClaimInv, [Next]_vars, NEW r \in Repos, NEW f \in index'[r] \ theirs'[r]
  PROVE  \/ f \in index[r] \ theirs[r] /\ \A w \in Workers : GitCommit(w) => RepoOf(w) # r
         \/ \E w \in Workers : Add(w) /\ RepoOf(w) = r /\ f \in rows[cur[w]].files
<1>1. ASSUME NEW w \in Workers, Add(w)
      PROVE  f \in index[r] \ theirs[r] \/ (RepoOf(w) = r /\ f \in rows[cur[w]].files)
  BY <1>1 DEF Add, ClaimInv, TypeOK
<1>2. ASSUME NEW w \in Workers, GitCommit(w)
      PROVE  f \in index[r] \ theirs[r] /\ RepoOf(w) # r
  BY <1>2 DEF GitCommit, ClaimInv, TypeOK
<1>3. ASSUME NEW r2 \in Repos, OutsideGit(r2) PROVE f \in index[r] \ theirs[r]
  <2>1. CASE OutsideLock(r2)
    BY <2>1 DEF OutsideLock, gitVars
  <2>2. ASSUME NEW g \in Files, OutsideStage(r2, g) PROVE f \in index[r] \ theirs[r]
    BY <2>2 DEF OutsideStage, ClaimInv, TypeOK
  <2>3. ASSUME NEW F \in SUBSET Files, OutsideCommit(r2, F) PROVE f \in index[r] \ theirs[r]
    BY <2>3 DEF OutsideCommit, ClaimInv, TypeOK
  <2>4. QED
    BY <1>3, <2>1, <2>2, <2>3 DEF OutsideGit
<1>4. \/ \E w \in Workers : Add(w) \/ GitCommit(w)
      \/ \E r2 \in Repos : OutsideGit(r2)
      \/ index' = index /\ theirs' = theirs
  BY DEF Next, WorkerStep, ProcessEntry, vars, gitVars, Edit, Enqueue, ChainEnds, Start, Signal,
     LoopTop, Claim, ClaimNothing, ClaimContended, WaitForIndexLock, AddFails, GitCommitFails,
     RevParse, RevParseFails, Post, PostFails, Answer, SaveToken, MarkDone, MarkFailed, Raise, Die
<1>5. QED
  BY <1>1, <1>2, <1>3, <1>4

\* What the queue staged was staged by entries that were claimed and have not
\* landed.
LEMMA StagedStep ==
  ASSUME ClaimInv, NotYetLanded, StagedByClaimed, [Next]_vars
  PROVE  StagedByClaimed'
<1> SUFFICES ASSUME NEW r \in Repos, NEW f \in index'[r] \ theirs'[r]
             PROVE  \E e \in Ids : /\ rows'[e].repo = r
                                   /\ rows'[e].status \notin {"absent", "pending"}
                                   /\ ~Landed(e)' /\ f \in rows'[e].files
  BY DEF StagedByClaimed
<1>1. ASSUME NEW e \in Ids, rows[e].repo = r, rows[e].status \notin {"absent", "pending"},
             ~Landed(e), f \in rows[e].files,
             \A w \in Workers : GitCommit(w) => cur[w] # e
      PROVE  /\ rows'[e].repo = r /\ rows'[e].status \notin {"absent", "pending"}
             /\ ~Landed(e)' /\ f \in rows'[e].files
  <2>1. rows'[e].repo = r /\ f \in rows'[e].files
    BY <1>1, RowKeeps
  <2>2. rows'[e].status \notin {"absent", "pending"}
    BY <1>1, RowChange
  <2>3. ~Landed(e)'
    BY <1>1, LandedChange
  <2>4. QED
    BY <2>1, <2>2, <2>3
<1>2. CASE f \in index[r] \ theirs[r] /\ \A w \in Workers : GitCommit(w) => RepoOf(w) # r
  <2>1. PICK e \in Ids : /\ rows[e].repo = r /\ rows[e].status \notin {"absent", "pending"}
                         /\ ~Landed(e) /\ f \in rows[e].files
    BY <1>2 DEF StagedByClaimed
  <2>2. \A w \in Workers : GitCommit(w) => cur[w] # e
    BY <1>2, <2>1 DEF ClaimInv, ClaimExclusive, Ids
  <2>3. QED
    BY <1>1, <2>1, <2>2
<1>3. ASSUME NEW w \in Workers, Add(w), RepoOf(w) = r, f \in rows[cur[w]].files
      PROVE  \E e \in Ids : /\ rows'[e].repo = r /\ rows'[e].status \notin {"absent", "pending"}
                            /\ ~Landed(e)' /\ f \in rows'[e].files
  <2>1. cur[w] \in Ids /\ rows[cur[w]].status = "processing" /\ rows[cur[w]].repo = r
    BY <1>3, OwnerHasEntry DEF Add, Busy, ClaimInv, ClaimExclusive
  <2>2. ~Landed(cur[w])
    BY <1>3, <2>1 DEF NotYetLanded, Uncommitted, Landed, Add
  <2>3. \A w2 \in Workers : GitCommit(w2) => cur[w2] # cur[w]
    BY <1>3, <2>1 DEF ClaimInv, ClaimExclusive, Ids, GitCommit, Add
  <2>4. QED
    BY <1>1, <1>3, <2>1, <2>2, <2>3
<1>4. QED
  BY <1>2, <1>3, IndexChange

\* A commit takes the whole index: its own entry's files, those that others
\* staged, and those that earlier entries left staged, which no later step
\* lands.
LEMMA OwnFilesStep ==
  ASSUME OneWorkerPerRepo, ClaimInv, NotYetLanded, InHandIsNewest, PassedOver, StagedByClaimed,
         AllExplained, [Next]_vars
  PROVE  AllExplained'
<1>1. ASSUME NEW r \in Repos, NEW i \in 1..Len(log'[r]), log'[r][i].by # Nobody,
             NEW f \in log'[r][i].changed
      PROVE  Explained(r, i, f)'
  <2>1. CASE i \in 1..Len(log[r]) /\ log'[r][i] = log[r][i]
    <3> DEFINE by == log[r][i].by
    <3>0. CASE f \in log[r][i].theirs
      BY <2>1, <3>0 DEF Explained
    <3>1. Explained(r, i, f)
      BY <1>1, <2>1 DEF AllExplained
    <3>2. by \in Ids /\ \A e \in Ids : e <= by => rows[e].status # "absent"
      <4>1. by \in Ids /\ by <= lastId
        BY <1>1, <2>1, LandedIsPast
      <4>2. lastId \in Nat /\ \A e \in Ids : rows[e].status = "absent" <=> e > lastId
        BY QueueAssumption DEF ClaimInv, Fresh, TypeOK
      <4> HIDE DEF by
      <4>3. QED
        BY <4>1, <4>2, QueueAssumption DEF Ids
    <3>3. log'[r][i].by = by
      BY <2>1
    <3>4. CASE f \in rows[by].files
      <4>1. f \in rows'[by].files
        BY <3>2, <3>4, RowKeeps DEF Ids
      <4>2. QED
        BY <3>3, <4>1 DEF Explained
    <3>5. ASSUME NEW e \in Ids, e < by, rows[e].repo = r, ~Landed(e), f \in rows[e].files
          PROVE  Explained(r, i, f)'
      <4>0. rows[e].status # "absent"
        BY <3>2, <3>5 DEF Ids
      <4>1. rows'[e].repo = r /\ f \in rows'[e].files
        BY <3>5, <4>0, RowKeeps
      <4>2. \A w \in Workers : GitCommit(w) => cur[w] # e
        BY <2>1, <3>5 DEF PassedOver, Uncommitted, GitCommit
      <4>3. ~Landed(e)'
        BY <3>5, <4>0, <4>2, LandedChange
      <4>4. QED
        BY <3>3, <3>5, <4>1, <4>3 DEF Explained
    <3>6. QED
      BY <3>0, <3>1, <3>4, <3>5 DEF Explained
  <2>2. ASSUME NEW w \in Workers, GitCommit(w), r = RepoOf(w), i = Len(log[r]) + 1
        PROVE  Explained(r, i, f)'
    <3>1. cur[w] \in Ids /\ log'[r][i].by = cur[w] /\ rows' = rows
      BY <2>2, CommitAppends DEF GitCommit, dbVars
    <3>0. /\ rows[cur[w]].repo = r /\ f \in index[r] /\ log'[r][i].theirs = theirs[r]
      BY <1>1, <2>2, <3>1, CommitAppends DEF ClaimInv, ClaimExclusive, Ids
    <3>2. CASE f \in theirs[r]
      BY <3>0, <3>2 DEF Explained
    <3>3. CASE f \notin theirs[r]
      <4>1. PICK e \in Ids : /\ rows[e].repo = r
                             /\ rows[e].status \notin {"absent", "pending"}
                             /\ ~Landed(e) /\ f \in rows[e].files
        BY <3>0, <3>3 DEF StagedByClaimed
      <4>2. e <= cur[w]
        BY <2>2, <3>1, <4>1 DEF InHandIsNewest, Ids
      <4>3. CASE e = cur[w]
        BY <3>1, <4>1, <4>3 DEF Explained
      <4>4. CASE e < cur[w]
        <5>1. ASSUME NEW w2 \in Workers, GitCommit(w2), cur[w2] = e PROVE FALSE
          <6>1. RepoOf(w2) = r
            BY <4>1, <5>1 DEF ClaimInv, ClaimExclusive, Ids
          <6>2. QED
            BY <2>2, <4>4, <5>1, <6>1 DEF OneWorkerPerRepo, Ids
        <5>2. ~Landed(e)'
          BY <4>1, <5>1, LandedChange
        <5>3. QED
          BY <3>1, <4>1, <4>4, <5>2 DEF Explained
      <4>5. QED
        BY <3>1, <4>2, <4>3, <4>4 DEF Ids
    <3>4. QED
      BY <3>2, <3>3
  <2>3. CASE log'[r] = log[r]
    BY <2>1, <2>3
  <2>4. CASE log'[r] # log[r]
    <3>1. i \in 1..Len(log[r]) \/ i = Len(log[r]) + 1
      BY <2>4, HistoryGrows
    <3>2. QED
      BY <1>1, <2>1, <2>2, <2>4, <3>1, HistoryGrows
  <2>5. QED
    BY <2>3, <2>4
<1>2. QED
  BY <1>1 DEF AllExplained

\* What the invariant says of each file is what the property says of the set.
LEMMA ExplainedIsOwned ==
  ASSUME ClaimInv, NotYetLanded, AllExplained
  PROVE  CommitOwnsItsFiles
<1> SUFFICES ASSUME NEW r \in Repos, NEW i \in 1..Len(log[r]), log[r][i].by # Nobody,
                    NEW f \in log[r][i].changed
             PROVE  LET e        == log[r][i].by
                        leftover == {e2 \in 1..(e - 1) : rows[e2].repo = r /\ ~Landed(e2)}
                    IN f \in rows[e].files \cup log[r][i].theirs
                               \cup UNION {rows[e2].files : e2 \in leftover}
  BY DEF CommitOwnsItsFiles
<1>1. log[r][i].by \in Ids
  BY LandedIsPast
<1>2. \A e2 : e2 \in 1..(log[r][i].by - 1) <=> e2 \in Ids /\ e2 < log[r][i].by
  BY <1>1, QueueAssumption DEF Ids
<1>3. Explained(r, i, f)
  BY DEF AllExplained
<1>4. CASE f \in log[r][i].theirs
  BY <1>4
<1>5. CASE f \in rows[log[r][i].by].files
  BY <1>5
<1>6. ASSUME NEW e \in Ids, e < log[r][i].by, rows[e].repo = r, ~Landed(e), f \in rows[e].files
      PROVE  f \in UNION {rows[e2].files : e2 \in {e3 \in 1..(log[r][i].by - 1) :
                                                     rows[e3].repo = r /\ ~Landed(e3)}}
  BY <1>2, <1>6
<1>7. QED
  BY <1>3, <1>4, <1>5, <1>6 DEF Explained

\* With one worker for each repository, whatever others stage and commit in
\* it: the files in a commit of the queue are its own entry's, leftovers of
\* earlier entries that failed, or files that others had staged; never those
\* of an entry that landed, waits or comes later.
THEOREM CommitsOwnTheirFiles ==
  ASSUME OneWorkerPerRepo
  PROVE  Spec => []CommitOwnsItsFiles
<1>1. Init => NotYetLanded /\ OwnFilesInv
  <2> SUFFICES ASSUME Init PROVE NotYetLanded /\ OwnFilesInv
    OBVIOUS
  <2>1. \A r \in Repos : index[r] = {} /\ log[r] = <<>>
    BY DEF Init
  <2>2. \A e \in Ids : rows[e].status = "absent"
    BY DEF Init, Absent
  <2>3. NotYetLanded /\ PassedOver /\ StagedByClaimed /\ AllExplained
    BY <2>1 DEF NotYetLanded, PassedOver, StagedByClaimed, AllExplained
  <2>4. OldestFirst /\ InHandIsNewest
    BY <2>2 DEF OldestFirst, InHandIsNewest
  <2>5. QED
    BY <2>3, <2>4 DEF OwnFilesInv
<1>2. ClaimInv /\ NotYetLanded /\ OwnFilesInv /\ [Next]_vars => (NotYetLanded /\ OwnFilesInv)'
  BY OneWorkerPerRepo, NotYetLandedStep, OldestStep, NewestStep, PassedOverStep, StagedStep,
     OwnFilesStep DEF OwnFilesInv
<1>3. ClaimInv /\ NotYetLanded /\ OwnFilesInv => CommitOwnsItsFiles
  BY ExplainedIsOwned DEF OwnFilesInv
<1>4. QED
  BY <1>1, <1>2, <1>3, ClaimInvariant, PTL DEF Spec

----------------------------------------------------------------------------
(* With one worker for a repository, what is lost is lost to a fault or to *)
(* somebody else's commit                                                  *)

\* The strengthening: the entry in hand already counts as lost when what its
\* worker knows of its commit is wrong and will be recorded.
Mistaken(e, w) ==
  /\ cur[w] = e
  /\ \/ pc[w] = "raised"
     \/ pc[w] = "revparse" /\ ~OwnCommit(e, Len(log[rows[e].repo]))
     \/ /\ pc[w] \in {"post", "answer", "save", "mark", "fail"}
        /\ Landed(e) /\ ~OwnCommit(e, head[w])

IsLost(e) ==
  \/ Settled(e) /\ Landed(e) /\ ~OwnCommit(e, rows[e].sha)
  \/ Stranded(e)
  \/ \E w \in Workers : Mistaken(e, w)

Lost == {e \in Ids : IsLost(e)}

LossInv == Cardinality(Lost) <= faults + outside

\* The two ways to lose the entry that worker w has in hand.
Fault(w)      == Raise(w) \/ Die(w) \/ RevParseFails(w)
Interposed(w) == pc[w] = "revparse" /\ \E F \in SUBSET Files : OutsideCommit(RepoOf(w), F)

\* A worker that was not mistaken becomes so by its own fault, or when somebody
\* else commits before it has looked at HEAD.
LEMMA MistakenBy ==
  ASSUME OneWorkerPerRepo, ClaimInv, NotYetLanded, [Next]_vars,
         NEW e \in Ids, NEW w \in Workers, Mistaken(e, w)', ~Mistaken(e, w)
  PROVE  cur[w] = e /\ (Fault(w) \/ Interposed(w))
<1> USE DEF ClaimInv
<1>1. cur'[w] = e /\ pc'[w] \in {"raised", "revparse", "post", "answer", "save", "mark", "fail"}
  BY DEF Mistaken
<1>2. /\ cur[w] = e
      /\ \/ pc'[w] = pc[w] /\ head'[w] = head[w]
         \/ pc'[w] = "fail" /\ pc[w] \in {"lock", "add", "commit"} /\ ~GitCommit(w)
         \/ GitCommit(w) \/ RevParse(w) \/ Fault(w)
         \/ /\ pc[w] \in {"post", "answer", "save"} /\ head'[w] = head[w]
            /\ pc'[w] \in {"post", "answer", "save", "mark", "fail"}
  <2>1. ASSUME NEW e2 \in Ids, Claim(w, e2) PROVE FALSE
    BY <1>1, <2>1 DEF Claim, Goto, TypeOK
  <2>2. CASE Start(w) \/ LoopTop(w) \/ ClaimNothing(w) \/ ClaimContended(w)
    BY <1>1, <2>2 DEF Start, LoopTop, ClaimNothing, ClaimContended, Goto, TypeOK
  <2>3. CASE WaitForIndexLock(w) \/ Add(w) \/ AddFails(w) \/ GitCommitFails(w)
    BY <1>1, <2>3 DEF WaitForIndexLock, Add, AddFails, GitCommitFails, GitCommit, Goto, TypeOK
  <2>4. CASE Post(w) \/ PostFails(w) \/ Answer(w) \/ SaveToken(w)
    BY <1>1, <2>4 DEF Post, PostFails, Answer, SaveToken, Goto, TypeOK
  <2>5. CASE MarkDone(w) \/ MarkFailed(w)
    BY <1>1, <2>5 DEF MarkDone, MarkFailed, Goto, TypeOK
  <2>6. CASE GitCommit(w) \/ RevParse(w) \/ RevParseFails(w) \/ Raise(w)
    BY <1>1, <2>6 DEF GitCommit, RevParse, RevParseFails, Raise, Fault
  <2>7. CASE Die(w)
    BY <1>1, <2>7 DEF Die, Goto, TypeOK
  <2>8. QED
    BY <1>1, <2>1, <2>2, <2>3, <2>4, <2>5, <2>6, <2>7, OwnSteps DEF ProcessEntry
<1>3. rows[e].status = "processing" /\ rows[e].repo = RepoOf(w) /\ RepoOf(w) \in Repos
  BY <1>2, QueueAssumption DEF ClaimExclusive, Ids, RepoOf
<1>4. rows'[e].repo = rows[e].repo
  BY <1>3, RowKeeps
<1>5. ASSUME ~GitCommit(w) PROVE Landed(e)' => Landed(e)
  <2>1. \A w2 \in Workers : GitCommit(w2) => cur[w2] # e
    BY <1>2, <1>5 DEF ClaimExclusive, Ids
  <2>2. QED
    BY <1>3, <2>1, LandedChange
<1>6. ASSUME OwnCommit(e, head[w]) PROVE OwnCommit(e, head[w])'
         \/ head'[w] # head[w]
  BY <1>3, <1>6, OwnCommitStays DEF OwnCommit
<1>7. CASE pc'[w] = pc[w] /\ head'[w] = head[w]
  <2>1. pc[w] # "raised" /\ ~GitCommit(w)
    BY <1>2, <1>7 DEF Mistaken, GitCommit, Goto, TypeOK
  <2>2. CASE pc[w] \in {"post", "answer", "save", "mark", "fail"}
    BY <1>2, <1>5, <1>6, <1>7, <2>1, <2>2 DEF Mistaken
  <2>3. CASE pc[w] = "revparse"
    <3>1. OwnCommit(e, Len(log[rows[e].repo]))
      BY <1>2, <2>3 DEF Mistaken
    <3>2. log'[RepoOf(w)] # log[RepoOf(w)]
      BY <1>1, <1>3, <1>4, <1>7, <2>3, <3>1 DEF Mistaken, OwnCommit
    <3>3. ASSUME NEW w2 \in Workers, GitCommit(w2), RepoOf(w2) = RepoOf(w) PROVE FALSE
      BY <2>3, <3>3 DEF OneWorkerPerRepo, GitCommit
    <3>4. QED
      BY <1>2, <1>3, <2>3, <3>2, <3>3, HistoryGrows DEF Interposed
  <2>4. QED
    BY <1>1, <1>7, <2>1, <2>2, <2>3
<1>8. CASE pc'[w] = "fail" /\ pc[w] \in {"lock", "add", "commit"} /\ ~GitCommit(w)
  <2>1. ~Landed(e)
    BY <1>2, <1>3, <1>8 DEF NotYetLanded, Uncommitted, Landed
  <2>2. QED
    BY <1>5, <1>8, <2>1 DEF Mistaken
<1>9. CASE GitCommit(w)
  <2>1. pc'[w] = "revparse"
    BY <1>9 DEF GitCommit, Goto, TypeOK
  <2>2. OwnCommit(e, Len(log[rows[e].repo]))'
    BY <1>2, <1>3, <1>4, <1>9, CommitAppends DEF OwnCommit
  <2>3. QED
    BY <2>1, <2>2 DEF Mistaken
<1>10. CASE RevParse(w)
  <2>1. pc'[w] = "post" /\ head'[w] = Len(log[rows[e].repo]) /\ log' = log /\ pc[w] = "revparse"
    BY <1>3, <1>10 DEF RevParse, Goto, TypeOK, gitVars
  <2>2. OwnCommit(e, Len(log[rows[e].repo]))
    BY <1>2, <2>1 DEF Mistaken
  <2>3. OwnCommit(e, head[w])'
    BY <1>4, <2>1, <2>2 DEF OwnCommit
  <2>4. QED
    BY <2>1, <2>3 DEF Mistaken
<1>11. CASE /\ pc[w] \in {"post", "answer", "save"} /\ head'[w] = head[w]
            /\ pc'[w] \in {"post", "answer", "save", "mark", "fail"}
  <2>1. ~GitCommit(w)
    BY <1>11 DEF GitCommit
  <2>2. QED
    BY <1>2, <1>5, <1>6, <1>11, <2>1 DEF Mistaken
<1>12. QED
  BY <1>2, <1>7, <1>8, <1>9, <1>10, <1>11

\* Only a fault or somebody else's commit loses an entry: the one its worker
\* had in hand.
LEMMA LostBy ==
  ASSUME OneWorkerPerRepo, ClaimInv, NotYetLanded, [Next]_vars,
         NEW e \in Ids, IsLost(e)', ~IsLost(e)
  PROVE  \E w \in Workers : cur[w] = e /\ (Fault(w) \/ Interposed(w))
<1>1. CASE Settled(e)' /\ Landed(e)' /\ ~OwnCommit(e, rows[e].sha)'
  <2>1. rows[e].status # "absent"
    BY <1>1, RowChange DEF Settled
  <2>2. CASE Settled(e)
    <3>1. rows'[e] = rows[e]
      BY <2>2, RowChange DEF Settled
    <3>2. \A w \in Workers : GitCommit(w) => cur[w] # e
      BY <2>2 DEF Settled, ClaimInv, ClaimExclusive, Ids
    <3>3. Landed(e)
      BY <1>1, <2>1, <3>2, LandedChange
    <3>4. OwnCommit(e, rows[e].sha)
      BY <2>2, <3>3 DEF IsLost
    <3>5. OwnCommit(e, rows[e].sha)'
      BY <2>1, <3>1, <3>4, OwnCommitStays DEF OwnCommit
    <3>6. QED
      BY <1>1, <3>5
  <2>3. CASE ~Settled(e)
    <3>1. rows[e].status = "processing"
      BY <1>1, <2>3, RowChange DEF Settled
    <3>2. PICK w \in Workers : (MarkDone(w) \/ MarkFailed(w)) /\ cur[w] = e
      BY <1>1, <3>1, SettledBy DEF Settled
    <3>3. pc[w] \in {"mark", "fail"} /\ (Landed(e) => OwnCommit(e, head[w]))
      BY <3>2 DEF IsLost, Mistaken, MarkDone, MarkFailed
    <3>4. rows'[e].sha = head[w] /\ rows'[e].repo = rows[e].repo /\ log' = log
      BY <3>2, <3>3, SettledByOwner DEF MarkDone, MarkFailed, gitVars
    <3>5. Landed(e)
      BY <1>1, <3>4 DEF Landed
    <3>6. QED
      BY <1>1, <3>3, <3>4, <3>5 DEF OwnCommit
  <2>4. QED
    BY <2>2, <2>3
<1>2. CASE Stranded(e)'
  <2>1. rows'[e].status = "processing" /\ \A w \in Workers : cur'[w] # e
    BY <1>2 DEF Stranded
  <2>2. rows[e].status # "pending"
    <3>1. ASSUME NEW w \in Workers, Claim(w, e) PROVE FALSE
      BY <2>1, <3>1 DEF Claim, ClaimInv, TypeOK
    <3>2. QED
      BY <2>1, <3>1, ClaimedBy
  <2>3. rows[e].status = "processing"
    BY <2>1, <2>2, RowChange
  <2>4. PICK w \in Workers : cur[w] = e
    BY <2>3 DEF IsLost, Stranded
  <2>5. ~MarkDone(w) /\ ~MarkFailed(w)
    BY <2>1, <2>4, SettledByOwner
  <2>6. \A e2 \in Ids : ~Claim(w, e2)
    BY <2>4 DEF Claim, ClaimInv, ClaimExclusive, Busy, Ids
  <2>7. cur'[w] # cur[w]
    BY <2>1, <2>4
  <2>8. Die(w)
    BY <2>5, <2>6, <2>7, OwnSteps
    DEF ProcessEntry, Start, LoopTop, ClaimNothing, ClaimContended, WaitForIndexLock, Add,
        AddFails, GitCommit, GitCommitFails, RevParse, RevParseFails, Post, PostFails, Answer,
        SaveToken, Raise
  <2>9. QED
    BY <2>4, <2>8 DEF Fault
<1>3. ASSUME NEW w \in Workers, Mistaken(e, w)'
      PROVE  cur[w] = e /\ (Fault(w) \/ Interposed(w))
  BY <1>3, MistakenBy DEF IsLost
<1>4. QED
  BY <1>1, <1>2, <1>3 DEF IsLost

\* Each of them counts for one...
LEMMA LossCosts ==
  ASSUME ClaimInv, NEW w \in Workers, Fault(w) \/ Interposed(w)
  PROVE  faults' + outside' = faults + outside + 1
<1>1. faults \in Nat /\ outside \in Nat
  BY QueueAssumption DEF ClaimInv, TypeOK
<1>2. CASE Fault(w)
  BY <1>1, <1>2 DEF Fault, Raise, Die, RevParseFails, gitVars
<1>3. CASE Interposed(w)
  BY <1>1, <1>3 DEF Interposed, OutsideCommit
<1>4. QED
  BY <1>2, <1>3

\* ... and loses one entry at most: a fault is one worker's, and a repository
\* has one worker.
LEMMA OnlyOneLost ==
  ASSUME OneWorkerPerRepo, ClaimInv, NEW w1 \in Workers, NEW w2 \in Workers,
         Fault(w1) \/ Interposed(w1), Fault(w2) \/ Interposed(w2)
  PROVE  w1 = w2
<1> USE DEF ClaimInv
<1>1. ASSUME NEW w \in Workers, Fault(w)
      PROVE  /\ pc'[w] # pc[w] /\ \A w3 \in Workers : w3 # w => pc'[w3] = pc[w3]
             /\ faults' # faults
  BY <1>1, QueueAssumption DEF Fault, Raise, Die, RevParseFails, Goto, TypeOK
<1>2. ASSUME NEW w \in Workers, Interposed(w)
      PROVE  /\ RepoOf(w) \in Repos /\ log'[RepoOf(w)] # log[RepoOf(w)]
             /\ \A r \in Repos : r # RepoOf(w) => log'[r] = log[r]
             /\ faults' = faults
  <2>1. PICK r \in Repos, F \in SUBSET Files : r = RepoOf(w) /\ OutsideCommit(r, F)
    BY <1>2, QueueAssumption DEF Interposed, RepoOf
  <2>2. /\ Len(log[r]) \in Nat /\ Len(log'[r]) = Len(log[r]) + 1
        /\ \A r2 \in Repos : r2 # r => log'[r2] = log[r2]
    BY <2>1, OthersAppend
  <2>3. log'[r] # log[r]
    <3>1. Len(log'[r]) # Len(log[r])
      BY <2>2
    <3>2. QED
      BY <3>1
  <2>4. faults' = faults
    BY <2>1 DEF OutsideCommit
  <2>5. QED
    BY <2>1, <2>2, <2>3, <2>4
<1>3. CASE Fault(w1) /\ Fault(w2)
  BY <1>1, <1>3
<1>4. CASE Interposed(w1) /\ Interposed(w2)
  BY <1>2, <1>4 DEF OneWorkerPerRepo
<1>5. QED
  BY <1>1, <1>2, <1>3, <1>4

\* The counts only grow.
LEMMA CountsGrow ==
  ASSUME ClaimInv, [Next]_vars
  PROVE  faults' + outside' >= faults + outside
<1>1. faults \in Nat /\ outside \in Nat
  BY QueueAssumption DEF ClaimInv, TypeOK
<1>2. ASSUME NEW w \in Workers, ClaimContended(w) \/ Fault(w)
      PROVE  faults' + outside' >= faults + outside
  <2>1. faults' = faults + 1 /\ outside' = outside
    BY <1>2 DEF ClaimContended, Fault, Raise, Die, RevParseFails, gitVars
  <2>2. QED
    BY <1>1, <2>1
<1>3. ASSUME NEW r \in Repos, OutsideGit(r) PROVE faults' + outside' >= faults + outside
  <2>1. faults' = faults /\ (outside' = outside \/ outside' = outside + 1)
    BY <1>3 DEF OutsideGit, OutsideLock, OutsideStage, OutsideCommit, gitVars
  <2>2. QED
    BY <1>1, <2>1
<1>4. CASE /\ \A w \in Workers : ~ClaimContended(w) /\ ~Fault(w)
           /\ \A r \in Repos : ~OutsideGit(r)
  <2>1. faults' = faults /\ outside' = outside
    BY <1>4
    DEF Next, WorkerStep, ProcessEntry, vars, gitVars, Edit, Enqueue, ChainEnds, Start, Signal,
        LoopTop, Claim, ClaimNothing, WaitForIndexLock, Add, AddFails, GitCommit, GitCommitFails,
        RevParse, Post, PostFails, Answer, SaveToken, MarkDone, MarkFailed, Fault
  <2>2. QED
    BY <1>1, <2>1
<1>5. QED
  BY <1>2, <1>3, <1>4

\* There are finitely many entries.
LEMMA LostIsFinite ==
  /\ IsFiniteSet(Lost) /\ IsFiniteSet(Lost')
  /\ Cardinality(Lost) \in Nat /\ Cardinality(Lost') \in Nat
<1>1. IsFiniteSet(Ids)
  BY QueueAssumption, FS_Interval DEF Ids
<1>2. Lost \subseteq Ids /\ Lost' \subseteq Ids
  BY DEF Lost
<1>3. QED
  BY <1>1, <1>2, FS_Subset, FS_CardinalityType

\* One more entry is one more in number, at most.
LEMMA OneMoreLost ==
  ASSUME NEW e, Lost' \subseteq Lost \cup {e}
  PROVE  Cardinality(Lost') <= Cardinality(Lost) + 1
<1>1. /\ IsFiniteSet(Lost \cup {e})
      /\ Cardinality(Lost \cup {e}) <= Cardinality(Lost) + 1
      /\ Cardinality(Lost \cup {e}) \in Nat
  <2>1. /\ IsFiniteSet(Lost \cup {e})
        /\ Cardinality(Lost \cup {e}) = IF e \in Lost THEN Cardinality(Lost)
                                                      ELSE Cardinality(Lost) + 1
    BY LostIsFinite, FS_AddElement, Zenon
  <2>2. Cardinality(Lost \cup {e}) \in {Cardinality(Lost), Cardinality(Lost) + 1}
    BY <2>1, Zenon
  <2> DEFINE n == Cardinality(Lost)
             m == Cardinality(Lost \cup {e})
  <2>3. n \in Nat /\ m \in {n, n + 1}
    BY <2>2, LostIsFinite
  <2> HIDE DEF n, m
  <2>4. m \in Nat /\ m <= n + 1
    BY <2>3
  <2>5. QED
    BY <2>1, <2>4 DEF n, m
<1>2. Cardinality(Lost') <= Cardinality(Lost \cup {e})
  BY <1>1, FS_Subset
<1>3. QED
  BY <1>1, <1>2, LostIsFinite

\* Each fault, and each commit of others, loses one entry at most.
LEMMA LossStep ==
  ASSUME OneWorkerPerRepo, ClaimInv, NotYetLanded, LossInv, [Next]_vars
  PROVE  LossInv'
<1>1. /\ faults + outside \in Nat /\ (faults + outside)' \in Nat
      /\ Cardinality(Lost) <= faults + outside
  BY TypeStep, QueueAssumption DEF ClaimInv, TypeOK, LossInv
<1>2. Cardinality(Lost) \in Nat /\ Cardinality(Lost') \in Nat
  BY LostIsFinite
<1>3. CASE Lost' \subseteq Lost
  <2>1. Cardinality(Lost') <= Cardinality(Lost)
    BY <1>3, LostIsFinite, FS_Subset
  <2>2. QED
    BY <1>1, <1>2, <2>1, CountsGrow DEF LossInv
<1>4. ASSUME NEW e \in Lost', e \notin Lost PROVE LossInv'
  <2>1. PICK w \in Workers : cur[w] = e /\ (Fault(w) \/ Interposed(w))
    BY <1>4, LostBy DEF Lost
  <2>2. Lost' \subseteq Lost \cup {e}
    <3>1. ASSUME NEW e2 \in Lost', e2 \notin Lost PROVE e2 = e
      <4>1. PICK w2 \in Workers : cur[w2] = e2 /\ (Fault(w2) \/ Interposed(w2))
        BY <3>1, LostBy DEF Lost
      <4>2. QED
        BY <2>1, <4>1, OnlyOneLost
    <3>2. QED
      BY <3>1
  <2>3. Cardinality(Lost') <= Cardinality(Lost) + 1
    BY <2>2, OneMoreLost
  <2>4. QED
    BY <1>1, <1>2, <2>1, <2>3, LossCosts DEF LossInv
<1>5. QED
  BY <1>3, <1>4

\* With one worker for each repository: an entry is stranded, or left in the
\* history without its SHA on record, only by an exception, a kill, a failing
\* rev-parse or somebody else's commit, and each of those loses one entry at
\* most.
THEOREM LossesAreFaults ==
  ASSUME OneWorkerPerRepo
  PROVE  Spec => []LossesNeedFaults
<1>1. Init => NotYetLanded /\ LossInv
  <2> SUFFICES ASSUME Init PROVE NotYetLanded /\ LossInv
    OBVIOUS
  <2>1. NotYetLanded
    BY DEF Init, NotYetLanded
  <2>2. Lost = {}
    BY DEF Init, Lost, IsLost, Mistaken, Settled, Stranded, Absent
  <2>3. faults = 0 /\ outside = 0
    BY DEF Init
  <2>4. QED
    BY <2>1, <2>2, <2>3, FS_EmptySet DEF LossInv
<1>2. ClaimInv /\ NotYetLanded /\ LossInv /\ [Next]_vars => (NotYetLanded /\ LossInv)'
  BY OneWorkerPerRepo, NotYetLandedStep, LossStep
<1>3. ClaimInv /\ LossInv => LossesNeedFaults
  <2> SUFFICES ASSUME ClaimInv, LossInv PROVE LossesNeedFaults
    OBVIOUS
  <2> DEFINE untraced == {e \in Ids : Settled(e) /\ Landed(e) /\ ~OwnCommit(e, rows[e].sha)}
             stranded == {e \in Ids : Stranded(e)}
  <2>1. (untraced \cup stranded) \subseteq Lost
    BY DEF Lost, IsLost
  <2> HIDE DEF untraced, stranded
  <2>2. /\ Cardinality(untraced \cup stranded) <= Cardinality(Lost)
        /\ Cardinality(untraced \cup stranded) \in Nat
    BY <2>1, LostIsFinite, FS_Subset, FS_CardinalityType
  <2>3. faults + outside \in Nat /\ Cardinality(Lost) <= faults + outside
    BY QueueAssumption DEF ClaimInv, TypeOK, LossInv
  <2>4. Cardinality(untraced \cup stranded) <= faults + outside
    BY <2>2, <2>3, LostIsFinite
  <2>5. QED
    BY <2>4 DEF LossesNeedFaults, untraced, stranded
<1>4. QED
  BY <1>1, <1>2, <1>3, ClaimInvariant, PTL DEF Spec

----------------------------------------------------------------------------
(* With one worker for a repository, the queue is the serial queue         *)

\* The entries of a history, in its order...
LEMMA EntriesOf ==
  ASSUME NEW s \in Seq(Commit), NEW t, t = [i \in 1..Len(s) |-> s[i].by]
  PROVE  t \in Seq(Ids \cup {Nobody}) /\ Len(t) = Len(s) /\ \A i \in 1..Len(s) : t[i] = s[i].by
<1>1. Len(s) \in Nat /\ \A i \in 1..Len(s) : s[i] \in Commit
  BY ElementOfSeq, LenProperties
<1>2. t \in [1..Len(s) -> Ids \cup {Nobody}]
  BY <1>1 DEF Commit
<1>3. t \in Seq(Ids \cup {Nobody}) /\ Len(t) = Len(s)
  BY <1>1, <1>2
<1>4. QED
  BY <1>3

\* ... gain the entry whose commit is appended.
LEMMA EntriesAppend ==
  ASSUME NEW s \in Seq(Commit), NEW s2 \in Seq(Commit), Len(s2) = Len(s) + 1,
         \A i \in 1..Len(s) : s2[i] = s[i],
         NEW t, t = [i \in 1..Len(s) |-> s[i].by],
         NEW t2, t2 = [i \in 1..Len(s2) |-> s2[i].by],
         NEW e \in Ids \cup {Nobody}, s2[Len(s) + 1].by = e
  PROVE  t2 = Append(t, e)
<1>1. t \in Seq(Ids \cup {Nobody}) /\ Len(t) = Len(s) /\ \A i \in 1..Len(s) : t[i] = s[i].by
  BY EntriesOf
<1>2. t2 \in Seq(Ids \cup {Nobody}) /\ Len(t2) = Len(s2) /\ \A i \in 1..Len(s2) : t2[i] = s2[i].by
  BY EntriesOf
<1>3. /\ Append(t, e) \in Seq(Ids \cup {Nobody}) /\ Len(Append(t, e)) = Len(t) + 1
      /\ \A i \in 1..Len(t) : Append(t, e)[i] = t[i]
      /\ Append(t, e)[Len(t) + 1] = e
  BY <1>1, AppendProperties
<1>4. Len(s) \in Nat
  BY LenProperties
<1>5. \A i \in 1..Len(t2) : t2[i] = Append(t, e)[i]
  BY <1>1, <1>2, <1>3, <1>4
<1>6. QED
  BY <1>1, <1>2, <1>3, <1>5, SeqEqual

\* The abstract history of a repository.
LEMMA LandingsOf ==
  ASSUME TypeOK, NEW r \in Repos
  PROVE  Len(Landings[r]) = Len(log[r]) /\ \A i \in 1..Len(log[r]) : Landings[r][i] = log[r][i].by
<1>1. log[r] \in Seq(Commit)
  BY DEF TypeOK
<1>2. PICK t : t = [i \in 1..Len(log[r]) |-> log[r][i].by]
  OBVIOUS
<1>3. Landings[r] = t
  BY <1>2 DEF Landings
<1>4. QED
  BY <1>1, <1>2, <1>3, EntriesOf

\* Both specifications mean the same by an entry having landed.
LEMMA SameLanded ==
  ASSUME TypeOK, NEW e \in Ids
  PROVE  Serial!Landed(e) <=> Landed(e)
<1>1. rows[e].repo \in Repos /\ Home[e] = rows[e].repo
  BY DEF TypeOK, Row, Home
<1>2. QED
  BY <1>1, LandingsOf DEF Serial!Landed, Landed

\* A function changed at one argument.
LEMMA ChangedAt ==
  ASSUME NEW S, NEW f, NEW g, f = [x \in S |-> f[x]], g = [x \in S |-> g[x]],
         NEW a \in S, NEW v, g[a] = v, \A x \in S : x # a => g[x] = f[x]
  PROVE  g = [f EXCEPT ![a] = v]
OBVIOUS

\* Where an entry stands before and after a step.
LEMMA StandingOf ==
  ASSUME NEW e \in Ids
  PROVE  /\ rows[e].status = "absent" => Standing[e] = "unsubmitted"
         /\ rows[e].status = "pending" => Standing[e] = "waiting"
         /\ rows'[e].status = "pending" => Standing'[e] = "waiting"
         /\ rows'[e].status = "done" => Standing'[e] = "accepted"
         /\ rows'[e].status = "failed" => Standing'[e] = "rejected"
         /\ rows'[e].status = "processing" /\ Stranded(e)' => Standing'[e] = "abandoned"
<1>1. /\ rows[e].status = "absent" => Standing[e] = "unsubmitted"
      /\ rows[e].status = "pending" => Standing[e] = "waiting"
  BY DEF Standing, Stranded
<1>2. /\ rows'[e].status = "pending" => Standing'[e] = "waiting"
      /\ rows'[e].status = "done" => Standing'[e] = "accepted"
      /\ rows'[e].status = "failed" => Standing'[e] = "rejected"
      /\ rows'[e].status = "processing" /\ Stranded(e)' => Standing'[e] = "abandoned"
  BY DEF Standing, Stranded
<1>3. QED
  BY <1>1, <1>2

\* An entry whose row and owner stay stands where it stood...
LEMMA StandingStays ==
  ASSUME NEW e \in Ids, rows'[e].status = rows[e].status, Stranded(e)' <=> Stranded(e)
  PROVE  Standing'[e] = Standing[e]
BY DEF Standing

\* ... and so the serial queue takes a step when one entry moves.
LEMMA GivesStanding ==
  ASSUME NEW e \in Ids, NEW v, Standing'[e] = v,
         \A e2 \in Ids : e2 # e =>
           rows'[e2].status = rows[e2].status /\ (Stranded(e2)' <=> Stranded(e2))
  PROVE  Serial!Give(e, v)
<1>1. \A e2 \in Ids : e2 # e => Standing'[e2] = Standing[e2]
  BY StandingStays
<1>2. Standing = [e2 \in Ids |-> Standing[e2]] /\ Standing' = [e2 \in Ids |-> Standing'[e2]]
  BY DEF Standing
<1>3. Standing' = [Standing EXCEPT ![e] = v]
  BY <1>1, <1>2
<1>4. QED
  BY <1>3 DEF Serial!Give

\* A settling or claiming step leaves every entry where it was queued.
LEMMA HomeStays ==
  ASSUME \A e \in Ids : rows'[e].repo = rows[e].repo
  PROVE  Home' = Home
BY DEF Home

\* enqueue() submits the next entry.
LEMMA EnqueueSubmits ==
  ASSUME ClaimInv, NEW r \in Repos, NEW F \in SUBSET Files, Enqueue(r, F)
  PROVE  Serial!Next
<1> DEFINE e == lastId + 1
<1>1. /\ e \in Ids /\ lastId \in Nat /\ rows[e].status = "absent"
      /\ \A e2 \in Ids : e2 < e => rows[e2].status # "absent"
  BY QueueAssumption DEF Enqueue, Ids, ClaimInv, Fresh, TypeOK
<1>2. rows' = [rows EXCEPT ![e] = [repo |-> r, files |-> F, status |-> "pending", sha |-> NoSha]]
  BY DEF Enqueue
<1> HIDE DEF e
<1>3. /\ rows'[e].status = "pending" /\ rows'[e].repo = r
      /\ \A e2 \in Ids : e2 # e => rows'[e2] = rows[e2]
  BY <1>1, <1>2 DEF ClaimInv, TypeOK
<1>4. Standing[e] = "unsubmitted" /\ Standing'[e] = "waiting"
  BY <1>1, <1>3, StandingOf
<1>5. \A e2 \in Ids : e2 < e => Standing[e2] # "unsubmitted"
  BY <1>1 DEF Standing
<1>6. Serial!Give(e, "waiting")
  <2>1. \A e2 \in Ids : e2 # e =>
           rows'[e2].status = rows[e2].status /\ (Stranded(e2)' <=> Stranded(e2))
    BY <1>3 DEF Enqueue, workerVars, Stranded
  <2>2. QED
    BY <1>1, <1>4, <2>1, GivesStanding
<1>7. Home' = [Home EXCEPT ![e] = r]
  <2>1. Home'[e] = r /\ \A e2 \in Ids : e2 # e => Home'[e2] = Home[e2]
    BY <1>1, <1>3 DEF Home
  <2>2. Home = [e2 \in Ids |-> Home[e2]] /\ Home' = [e2 \in Ids |-> Home'[e2]]
    BY DEF Home
  <2>3. QED
    BY <1>1, <2>1, <2>2
<1>8. UNCHANGED Landings
  BY DEF Enqueue, gitVars, Landings
<1>9. e \in Serial!Ids /\ \A e2 \in Serial!Ids : e2 \in Ids
  BY <1>1 DEF Ids, Serial!Ids
<1>10. Serial!Submit(e, r)
  BY <1>4, <1>5, <1>6, <1>7, <1>8, <1>9 DEF Serial!Submit
<1>11. QED
  BY <1>9, <1>10 DEF Serial!Next

\* Claiming takes the oldest waiting entry in hand; the repository's only
\* worker has nothing else in hand.
LEMMA ClaimBegins ==
  ASSUME OneWorkerPerRepo, ClaimInv, NEW w \in Workers, NEW e \in Ids, Claim(w, e)
  PROVE  Serial!Next
<1>1. /\ rows[e].status = "pending" /\ rows[e].repo = RepoOf(w) /\ cur[w] = 0 /\ e # 0
      /\ \A w2 \in Workers : cur[w2] # e
  BY DEF Claim, Pending, ClaimInv, ClaimExclusive, Busy, Ids
<1>2. /\ rows'[e].status = "processing" /\ \A e2 \in Ids : e2 # e => rows'[e2] = rows[e2]
      /\ rows'[e].repo = rows[e].repo
  BY DEF Claim, ClaimInv, TypeOK, Row
<1>3. cur'[w] = e /\ \A w2 \in Workers : w2 # w => cur'[w2] = cur[w2]
  BY DEF Claim, ClaimInv, TypeOK
<1>4. Standing[e] = "waiting" /\ Standing'[e] = "inhand"
  BY <1>1, <1>2, <1>3 DEF Standing, Stranded
<1>5. Serial!Give(e, "inhand")
  <2>1. \A e2 \in Ids : e2 # e =>
           rows'[e2].status = rows[e2].status /\ (Stranded(e2)' <=> Stranded(e2))
    BY <1>1, <1>2, <1>3 DEF Stranded, Ids
  <2>2. QED
    BY <1>4, <2>1, GivesStanding
<1>6. UNCHANGED <<Home, Landings>>
  <2>1. \A e2 \in Ids : rows'[e2].repo = rows[e2].repo
    BY <1>2
  <2>2. QED
    BY <2>1, HomeStays DEF Claim, gitVars, Landings
<1>7. ASSUME NEW e2 \in Ids, Home[e2] = Home[e]
      PROVE  Standing[e2] # "inhand" /\ (Standing[e2] = "waiting" => e <= e2)
  <2>1. rows[e2].repo = RepoOf(w)
    BY <1>1, <1>7 DEF Home
  <2>2. Standing[e2] # "inhand"
    <3>1. ASSUME NEW w2 \in Workers, cur[w2] = e2 PROVE FALSE
      <4>1. RepoOf(w2) = RepoOf(w)
        BY <2>1, <3>1 DEF ClaimInv, ClaimExclusive, Ids
      <4>2. QED
        BY <1>1, <3>1, <4>1 DEF OneWorkerPerRepo, Ids
    <3>2. rows[e2].status \in Status
      BY DEF ClaimInv, TypeOK, Row
    <3>3. QED
      BY <3>1, <3>2 DEF Standing, Stranded, Status
  <2>3. ASSUME Standing[e2] = "waiting" PROVE rows[e2].status = "pending"
    BY <2>3 DEF Standing
  <2>4. QED
    BY <2>1, <2>2, <2>3 DEF Claim, Pending
<1>8. e \in Serial!Ids /\ \A e2 \in Serial!Ids : e2 \in Ids
  BY DEF Ids, Serial!Ids
<1>9. Serial!Begin(e)
  BY <1>4, <1>5, <1>6, <1>7, <1>8 DEF Serial!Begin
<1>10. QED
  BY <1>8, <1>9 DEF Serial!Next

\* The entry a worker is busy with is in hand.
LEMMA OwnedIsInHand ==
  ASSUME ClaimInv, NEW w \in Workers, pc[w] \in Busy
  PROVE  /\ cur[w] \in Ids /\ cur[w] \in Serial!Ids /\ rows[cur[w]].status = "processing"
         /\ rows[cur[w]].repo = RepoOf(w) /\ RepoOf(w) \in Repos
         /\ Standing[cur[w]] = "inhand"
<1>1. /\ cur[w] \in Ids /\ rows[cur[w]].status = "processing" /\ rows[cur[w]].repo = RepoOf(w)
      /\ RepoOf(w) \in Repos
  BY OwnerHasEntry, QueueAssumption DEF ClaimInv, ClaimExclusive, Busy, RepoOf
<1>2. ~Stranded(cur[w])
  BY DEF Stranded
<1>3. QED
  BY <1>1, <1>2 DEF Standing, Serial!Ids, Ids

\* `git commit` lands the entry in hand, which had not landed.
LEMMA CommitLands ==
  ASSUME ClaimInv, NotYetLanded, NEW w \in Workers, GitCommit(w)
  PROVE  Serial!Next
<1> DEFINE r == RepoOf(w)
<1>1. /\ cur[w] \in Ids /\ cur[w] \in Serial!Ids /\ Standing[cur[w]] = "inhand"
      /\ rows[cur[w]].repo = r /\ r \in Repos
  BY OwnedIsInHand DEF GitCommit, Busy
<1>2. UNCHANGED <<rows, cur>>
  BY DEF GitCommit, dbVars
<1>3. UNCHANGED <<Home, Standing>>
  BY <1>2 DEF Home, Standing, Stranded
<1>4. ~Serial!Landed(cur[w])
  <2>1. ~Landed(cur[w])
    BY <1>1 DEF NotYetLanded, Uncommitted, Landed, GitCommit
  <2>2. QED
    BY <1>1, <2>1, SameLanded DEF ClaimInv
<1>5. Landings' = [Landings EXCEPT ![r] = Append(Landings[r], cur[w])]
  <2>1. /\ Len(log'[r]) = Len(log[r]) + 1 /\ log'[r][Len(log[r]) + 1].by = cur[w]
        /\ \A i \in 1..Len(log[r]) : log'[r][i] = log[r][i]
        /\ \A r2 \in Repos : r2 # r => log'[r2] = log[r2]
    BY CommitAppends
  <2>2. log[r] \in Seq(Commit) /\ log'[r] \in Seq(Commit)
    <3>1. TypeOK'
      BY TypeStep DEF ClaimInv, Next, WorkerStep, ProcessEntry
    <3>2. QED
      BY <1>1, <3>1 DEF ClaimInv, TypeOK
  <2>3. Landings'[r] = Append(Landings[r], cur[w])
    <3>1. /\ Landings[r] = [i \in 1..Len(log[r]) |-> log[r][i].by]
          /\ Landings'[r] = [i \in 1..Len(log'[r]) |-> log'[r][i].by]
      BY <1>1 DEF Landings
    <3> HIDE DEF r
    <3>2. QED
      BY <1>1, <2>1, <2>2, <3>1, EntriesAppend
  <2>4. \A r2 \in Repos : r2 # r => Landings'[r2] = Landings[r2]
    BY <2>1 DEF Landings
  <2>5. /\ Landings = [r2 \in Repos |-> Landings[r2]]
        /\ Landings' = [r2 \in Repos |-> Landings'[r2]]
    BY DEF Landings
  <2> HIDE DEF r
  <2>6. QED
    BY <1>1, <2>3, <2>4, <2>5
<1>6. Home[cur[w]] = r
  BY <1>1 DEF Home
<1>7. Serial!Land(cur[w])
  BY <1>1, <1>3, <1>4, <1>5, <1>6 DEF Serial!Land
<1>8. QED
  BY <1>1, <1>7 DEF Serial!Next

\* So does the commit of somebody else, for nobody.
LEMMA OthersLand ==
  ASSUME ClaimInv, NEW r \in Shared, r \in Repos, NEW F \in SUBSET Files, OutsideCommit(r, F)
  PROVE  Serial!Next
<1>1. UNCHANGED <<rows, cur>>
  BY DEF OutsideCommit, dbVars, workerVars
<1>2. UNCHANGED <<Home, Standing>>
  BY <1>1 DEF Home, Standing, Stranded
<1>3. Landings' = [Landings EXCEPT ![r] = Append(Landings[r], Nobody)]
  <2>1. /\ Len(log'[r]) = Len(log[r]) + 1 /\ log'[r][Len(log[r]) + 1].by = Nobody
        /\ \A i \in 1..Len(log[r]) : log'[r][i] = log[r][i]
        /\ \A r2 \in Repos : r2 # r => log'[r2] = log[r2]
    BY OthersAppend
  <2>2. log[r] \in Seq(Commit) /\ log'[r] \in Seq(Commit)
    <3>1. OutsideGit(r)
      BY DEF OutsideGit, OutsideCommit
    <3>2. TypeOK'
      BY <3>1, TypeStep DEF ClaimInv, Next
    <3>3. QED
      BY <3>2 DEF ClaimInv, TypeOK
  <2>3. Landings'[r] = Append(Landings[r], Nobody)
    <3>1. /\ Landings[r] = [i \in 1..Len(log[r]) |-> log[r][i].by]
          /\ Landings'[r] = [i \in 1..Len(log'[r]) |-> log'[r][i].by]
      BY DEF Landings
    <3>2. QED
      BY <2>1, <2>2, <3>1, EntriesAppend
  <2>4. \A r2 \in Repos : r2 # r => Landings'[r2] = Landings[r2]
    BY <2>1 DEF Landings
  <2>5. /\ Landings = [r2 \in Repos |-> Landings[r2]]
        /\ Landings' = [r2 \in Repos |-> Landings'[r2]]
    BY DEF Landings
  <2>6. QED
    BY <2>3, <2>4, <2>5
<1>4. Serial!Others(r)
  BY <1>2, <1>3 DEF Serial!Others, Nobody
<1>5. QED
  BY <1>4 DEF Serial!Next

\* _mark_done() accepts an entry that landed; _mark_failed() rejects one.
LEMMA VerdictSettles ==
  ASSUME ClaimInv, TokenInv, NEW w \in Workers, MarkDone(w) \/ MarkFailed(w)
  PROVE  Serial!Next
<1>1. /\ cur[w] \in Ids /\ cur[w] \in Serial!Ids /\ Standing[cur[w]] = "inhand"
      /\ rows[cur[w]].status = "processing" /\ rows[cur[w]].repo = RepoOf(w)
  BY OwnedIsInHand DEF MarkDone, MarkFailed, Busy
<1>2. /\ rows'[cur[w]].status = IF pc[w] = "mark" THEN "done" ELSE "failed"
      /\ rows'[cur[w]].repo = rows[cur[w]].repo
      /\ \A e \in Ids : e # cur[w] => rows'[e] = rows[e]
  BY SettledByOwner
<1>3. cur'[w] = 0 /\ \A w2 \in Workers : w2 # w => cur'[w2] = cur[w2]
  BY DEF MarkDone, MarkFailed, Release, ClaimInv, TypeOK
<1>4. \A e \in Ids : e # cur[w] =>
        rows'[e].status = rows[e].status /\ (Stranded(e)' <=> Stranded(e))
  BY <1>2, <1>3 DEF Stranded, Ids
<1>5. UNCHANGED <<Home, Landings>>
  <2>1. \A e \in Ids : rows'[e].repo = rows[e].repo
    BY <1>2
  <2>2. QED
    BY <2>1, HomeStays DEF MarkDone, MarkFailed, gitVars, Landings
<1>6. CASE MarkDone(w)
  <2>1. pc[w] = "mark"
    BY <1>6 DEF MarkDone
  <2>2. Standing'[cur[w]] = "accepted"
    BY <1>1, <1>2, <2>1, StandingOf
  <2>3. Serial!Give(cur[w], "accepted")
    BY <1>1, <1>4, <2>2, GivesStanding
  <2>4. Serial!Landed(cur[w])
    BY <1>1, <2>1, SameLanded DEF TokenInv, HeadVouches, Vouched, ClaimInv
  <2>5. Serial!Accept(cur[w])
    BY <1>1, <1>5, <2>3, <2>4 DEF Serial!Accept
  <2>6. QED
    BY <1>1, <2>5 DEF Serial!Next
<1>7. CASE MarkFailed(w)
  <2>1. pc[w] # "mark"
    BY <1>7 DEF MarkFailed
  <2>2. Standing'[cur[w]] = "rejected"
    BY <1>1, <1>2, <2>1, StandingOf
  <2>3. Serial!Give(cur[w], "rejected")
    BY <1>1, <1>4, <2>2, GivesStanding
  <2>4. Serial!Reject(cur[w])
    BY <1>1, <1>5, <2>3 DEF Serial!Reject
  <2>5. QED
    BY <1>1, <2>4 DEF Serial!Next
<1>8. QED
  BY <1>6, <1>7

\* A worker that dies abandons the entry it had in hand, if any.
LEMMA DeathAbandons ==
  ASSUME ClaimInv, NEW w \in Workers, Die(w)
  PROVE  Serial!Next \/ UNCHANGED <<rows, cur, log>>
<1>1. UNCHANGED <<rows, log>> /\ cur'[w] = 0 /\ \A w2 \in Workers : w2 # w => cur'[w2] = cur[w2]
  BY DEF Die, dbVars, gitVars, Release, ClaimInv, TypeOK
<1>2. CASE cur[w] = 0
  BY <1>1, <1>2 DEF Die, Release, ClaimInv, TypeOK
<1>3. CASE cur[w] # 0
  <2>1. PICK e \in Ids : /\ cur[w] = e /\ e \in Serial!Ids /\ Standing[e] = "inhand"
                         /\ rows[e].status = "processing"
    BY <1>3, OwnedIsInHand DEF ClaimInv, ClaimExclusive
  <2>2. Stranded(e)'
    BY <1>1, <2>1 DEF Stranded, ClaimInv, ClaimExclusive, Ids
  <2>3. Standing'[e] = "abandoned"
    BY <1>1, <2>1, <2>2, StandingOf
  <2>4. \A e2 \in Ids : e2 # e =>
          rows'[e2].status = rows[e2].status /\ (Stranded(e2)' <=> Stranded(e2))
    BY <1>1, <2>1 DEF Stranded, Ids
  <2>5. Serial!Give(e, "abandoned")
    BY <2>3, <2>4, GivesStanding
  <2>6. UNCHANGED <<Home, Landings>>
    BY <1>1 DEF Home, Landings
  <2>7. Serial!Abandon(e)
    BY <2>1, <2>5, <2>6 DEF Serial!Abandon
  <2>8. QED
    BY <2>1, <2>7 DEF Serial!Next
<1>4. QED
  BY <1>2, <1>3

\* Every step of the queue is one of the serial queue or changes nothing in
\* its view.
LEMMA SerialOrStutter ==
  ASSUME OneWorkerPerRepo, ClaimInv, NotYetLanded, TokenInv, [Next]_vars
  PROVE  [Serial!Next]_(Serial!sVars)
<1>1. ASSUME UNCHANGED <<rows, cur, log>> PROVE UNCHANGED Serial!sVars
  BY <1>1 DEF Serial!sVars, Home, Standing, Landings, Stranded
<1>2. ASSUME NEW r \in Repos, NEW F \in SUBSET Files, Enqueue(r, F) PROVE Serial!Next
  BY <1>2, EnqueueSubmits
<1>3. ASSUME NEW w \in Workers, NEW e \in Ids, Claim(w, e) PROVE Serial!Next
  BY <1>3, ClaimBegins
<1>4. ASSUME NEW w \in Workers, GitCommit(w) PROVE Serial!Next
  BY <1>4, CommitLands
<1>5. ASSUME NEW w \in Workers, MarkDone(w) \/ MarkFailed(w) PROVE Serial!Next
  BY <1>5, VerdictSettles
<1>6. ASSUME NEW w \in Workers, Die(w) PROVE Serial!Next \/ UNCHANGED <<rows, cur, log>>
  BY <1>6, DeathAbandons
<1>7. CASE \/ \E r \in Repos, f \in Files : Edit(r, f)
           \/ \E e \in Ids : ChainEnds(e)
           \/ \E w \in Workers :
                \/ Start(w) \/ Signal(w) \/ LoopTop(w) \/ ClaimNothing(w) \/ ClaimContended(w)
                \/ WaitForIndexLock(w) \/ Add(w) \/ AddFails(w) \/ GitCommitFails(w)
                \/ RevParse(w) \/ RevParseFails(w) \/ Post(w) \/ PostFails(w) \/ Answer(w)
                \/ SaveToken(w) \/ Raise(w)
           \/ UNCHANGED vars
  <2>1. UNCHANGED <<rows, cur, log>>
    BY <1>7
    DEF Edit, ChainEnds, Start, Signal, LoopTop, ClaimNothing, ClaimContended, WaitForIndexLock,
        Add, AddFails, GitCommitFails, RevParse, RevParseFails, Post, PostFails, Answer,
        SaveToken, Raise, vars, dbVars, gitVars, workerVars
  <2>2. QED
    BY <1>1, <2>1
<1>8. ASSUME NEW r \in Repos, OutsideGit(r) PROVE Serial!Next \/ UNCHANGED <<rows, cur, log>>
  <2>1. CASE OutsideLock(r) \/ \E f \in Files : OutsideStage(r, f)
    BY <2>1 DEF OutsideLock, OutsideStage, dbVars, gitVars, workerVars
  <2>2. ASSUME NEW F \in SUBSET Files, OutsideCommit(r, F), r \in Shared PROVE Serial!Next
    BY <2>2, OthersLand
  <2>3. QED
    BY <1>8, <2>1, <2>2 DEF OutsideGit
<1>9. QED
  BY <1>1, <1>2, <1>3, <1>4, <1>5, <1>6, <1>7, <1>8 DEF Next, WorkerStep, ProcessEntry

\* The queue starts as the serial queue does.
LEMMA SerialInit == Init => Serial!Init
<1> SUFFICES ASSUME Init PROVE Serial!Init
  OBVIOUS
<1>1. Home \in [Ids -> Repos]
  BY TypeInit DEF TypeOK, Row, Home
<1>2. Standing = [e \in Ids |-> "unsubmitted"]
  <2>1. \A e \in Ids : Standing[e] = "unsubmitted"
    BY StandingOf DEF Init, Absent
  <2>2. Standing = [e \in Ids |-> Standing[e]]
    BY DEF Standing
  <2>3. QED
    BY <2>1, <2>2
<1>3. Landings = [r \in Repos |-> <<>>]
  <2>1. ASSUME NEW r \in Repos PROVE Landings[r] = <<>>
    <3>1. log[r] = <<>> /\ log[r] \in Seq(Commit)
      BY TypeInit DEF Init, TypeOK
    <3>2. PICK t : t = [i \in 1..Len(log[r]) |-> log[r][i].by]
      OBVIOUS
    <3>3. t \in Seq(Ids \cup {Nobody}) /\ Len(t) = 0
      BY <3>1, <3>2, EntriesOf
    <3>4. t = <<>>
      BY <3>3, EmptySeq
    <3>5. QED
      BY <3>2, <3>4 DEF Landings
  <2>2. Landings = [r \in Repos |-> Landings[r]]
    BY DEF Landings
  <2>3. QED
    BY <2>1, <2>2
<1>4. QED
  BY <1>1, <1>2, <1>3 DEF Serial!Init, Serial!Ids, Ids

\* With one worker for each repository, whatever the entries, files, repositories
\* and faults, the queue implements the serial queue it is meant to be: one
\* entry of a repository in hand at a time, oldest first, each landing at most
\* once, accepted only after landing.
THEOREM QueueIsSerial ==
  ASSUME OneWorkerPerRepo
  PROVE  Spec => ImplementsSerial
<1>1. Init => NotYetLanded /\ TokenInv
  BY DEF Init, TokenInv, HeadVouches, PassedIsKnown, TokenKept, TokenProvesSerial, Absent,
     NotYetLanded
<1>2. ClaimInv /\ NotYetLanded /\ TokenInv /\ [Next]_vars => (NotYetLanded /\ TokenInv)'
  BY OneWorkerPerRepo, NotYetLandedStep, HeadStep, PassedStep, TokenStep, SerialStep DEF TokenInv
<1>3. ClaimInv /\ NotYetLanded /\ TokenInv /\ [Next]_vars => [Serial!Next]_(Serial!sVars)
  BY OneWorkerPerRepo, SerialOrStutter
<1>4. QED
  BY <1>1, <1>2, <1>3, SerialInit, ClaimInvariant, PTL DEF Spec, ImplementsSerial, Serial!Spec

=============================================================================
