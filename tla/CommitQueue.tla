---------------------------- MODULE CommitQueue ----------------------------
(***************************************************************************)
(* The multi-agent commit queue, queue/commit_queue.py.                     *)
(*                                                                         *)
(* Agents insert rows into a SQLite table; worker processes, each bound to *)
(* one repository, claim the oldest pending row, run `git add` and         *)
(* `git commit` in the repository, post the new HEAD to the orchestrator   *)
(* and record the verdict.  Every database transaction, git command and    *)
(* HTTP exchange is a step of its own, so that workers, agents, other git  *)
(* processes and the orchestrator interleave between them, and a worker    *)
(* can raise an exception or be killed between any two.                    *)
(*                                                                         *)
(* Abstracted: a repository's content is, per file, whether the working    *)
(* tree differs from the index and the index from HEAD; a commit's SHA is  *)
(* its position in the repository's history, which only grows (nobody      *)
(* amends, resets or switches branches); messages, agent names, times and  *)
(* token strings are left out.                                             *)
(***************************************************************************)
EXTENDS Integers, Sequences, FiniteSets

CONSTANTS
  Repos,        \* repositories with a .git directory
  Files,        \* file paths
  Workers,      \* worker processes
  WorkerRepo,   \* the --repo argument each worker was started with
  Shared,       \* repositories in whose worktree others stage and commit too
  MaxEntries,   \* bound: rows inserted into the commits table
  MaxFaults,    \* bound: exceptions, kills and failing rev-parses
  MaxOutside    \* bound: commits made by others than the queue

ASSUME QueueAssumption ==
  /\ Repos # {}
  /\ WorkerRepo \in [Workers -> Repos]
  /\ Shared \subseteq Repos
  /\ MaxEntries \in Nat
  /\ MaxFaults \in Nat
  /\ MaxOutside \in Nat

VARIABLES
  rows,      \* table commits: id -> row; status "absent" before the INSERT
  lastId,    \* the AUTOINCREMENT counter
  tokens,    \* table queue_tokens
  worktree,  \* per repo, files whose working copy differs from the index
  index,     \* per repo, files whose index entry differs from HEAD
  theirs,    \* per repo, the files of the index that others than the queue staged
  log,       \* per repo, the commits, oldest first
  lock,      \* per repo, whether another git process holds .git/index.lock
  chain,     \* the orchestrator's run of the gate chain for an entry's request
  pc,        \* where each worker stands in worker() / process_entry()
  cur,       \* the id of the entry a worker is processing, 0 when none
  head,      \* the worker's local commit_sha, 0 before rev-parse
  stop,      \* _shutdown_requested
  faults,    \* exceptions, kills and failing rev-parses so far
  outside    \* commits made by others than the queue so far

dbVars     == <<rows, lastId, tokens>>
gitVars    == <<worktree, index, theirs, log, outside>>
workerVars == <<pc, cur, head, stop>>
vars       == <<dbVars, gitVars, lock, chain, workerVars, faults>>

----------------------------------------------------------------------------
Ids    == 1..MaxEntries
NoSha  == 0
Nobody == 0   \* the author of a commit that is no entry's
Status == {"absent", "pending", "processing", "done", "failed"}
Row    == [repo: Repos, files: SUBSET Files, status: Status, sha: Nat]
Commit == [by: Ids \cup {Nobody}, changed: SUBSET Files, theirs: SUBSET Files]

Absent == [repo |-> CHOOSE r \in Repos : TRUE, files |-> {},
           status |-> "absent", sha |-> NoSha]

\* Inside process_entry (or its exception handler): the worker owns an entry.
Busy == {"lock", "add", "commit", "revparse", "post", "answer", "save", "mark",
         "fail", "raised"}
Pc   == Busy \cup {"down", "top", "claim"}

Pending(e)   == rows[e].status = "pending"
Settled(e)   == rows[e].status \in {"done", "failed"}
\* A row left in "processing" that no live worker will ever settle.
Stranded(e)  == rows[e].status = "processing" /\ \A w \in Workers : cur[w] # e
RepoOf(w)    == WorkerRepo[w]

Goto(w, to)  == pc' = [pc EXCEPT ![w] = to]
Release(w)   == cur' = [cur EXCEPT ![w] = 0] /\ head' = [head EXCEPT ![w] = NoSha]

Init ==
  /\ rows = [e \in Ids |-> Absent]
  /\ lastId = 0
  /\ tokens = {}
  /\ worktree = [r \in Repos |-> {}]
  /\ index = [r \in Repos |-> {}]
  /\ theirs = [r \in Repos |-> {}]
  /\ log = [r \in Repos |-> <<>>]
  /\ lock = [r \in Repos |-> FALSE]
  /\ chain = [e \in Ids |-> "none"]
  /\ pc \in [Workers -> {"down", "top"}]
  /\ cur = [w \in Workers |-> 0]
  /\ head = [w \in Workers |-> NoSha]
  /\ stop = [w \in Workers |-> FALSE]
  /\ faults = 0
  /\ outside = 0

----------------------------------------------------------------------------
(* The worker's surroundings: agents, other git processes, the orchestrator *)

\* An agent (or the conductor copying staged files) writes a file.
Edit(r, f) ==
  /\ f \notin worktree[r]
  /\ worktree' = [worktree EXCEPT ![r] = @ \cup {f}]
  /\ UNCHANGED <<dbVars, index, theirs, log, outside, lock, chain, workerVars, faults>>

\* enqueue(): validates the file list and inserts a pending row.
Enqueue(r, F) ==
  /\ F # {}
  /\ lastId < MaxEntries
  /\ lastId' = lastId + 1
  /\ rows' = [rows EXCEPT ![lastId + 1] =
                [repo |-> r, files |-> F, status |-> "pending", sha |-> NoSha]]
  /\ UNCHANGED <<tokens, gitVars, lock, chain, workerVars, faults>>

\* A git process outside the queue takes or releases .git/index.lock; one
\* that died leaves it behind.
OutsideLock(r) ==
  /\ lock' = [lock EXCEPT ![r] = ~@]
  /\ UNCHANGED <<dbVars, gitVars, chain, workerVars, faults>>

\* Somebody else's `git add` in the repository the worker works in.
OutsideStage(r, f) ==
  /\ ~lock[r] /\ f \in worktree[r]
  /\ worktree' = [worktree EXCEPT ![r] = @ \ {f}]
  /\ index' = [index EXCEPT ![r] = @ \cup {f}]
  /\ theirs' = [theirs EXCEPT ![r] = @ \cup {f}]
  /\ UNCHANGED <<dbVars, log, outside, lock, chain, workerVars, faults>>

\* Somebody else's `git commit`, of what is staged, of paths or with -a.
OutsideCommit(r, F) ==
  /\ ~lock[r] /\ outside < MaxOutside
  /\ F # {} /\ F \subseteq index[r] \cup worktree[r]
  /\ outside' = outside + 1
  /\ log' = [log EXCEPT ![r] = Append(@, [by |-> Nobody, changed |-> F, theirs |-> F])]
  /\ worktree' = [worktree EXCEPT ![r] = @ \ F]
  /\ index' = [index EXCEPT ![r] = @ \ F]
  /\ theirs' = [theirs EXCEPT ![r] = @ \ F]
  /\ UNCHANGED <<dbVars, lock, chain, workerVars, faults>>

OutsideGit(r) ==
  \/ OutsideLock(r)
  \/ r \in Shared /\ \E f \in Files : OutsideStage(r, f)
  \/ r \in Shared /\ \E F \in SUBSET Files : OutsideCommit(r, F)

\* The orchestrator finishes the chain, whether or not anyone still listens.
ChainEnds(e) ==
  /\ chain[e] = "running"
  /\ \E verdict \in {"passed", "blocked"} : chain' = [chain EXCEPT ![e] = verdict]
  /\ UNCHANGED <<dbVars, gitVars, lock, workerVars, faults>>

----------------------------------------------------------------------------
(* worker(): the loop around process_entry *)

Start(w) ==
  /\ pc[w] = "down"
  /\ Goto(w, "top")
  /\ stop' = [stop EXCEPT ![w] = FALSE]
  /\ UNCHANGED <<dbVars, gitVars, lock, chain, cur, head, faults>>

\* SIGINT or SIGTERM: the handler only sets the flag.
Signal(w) ==
  /\ pc[w] # "down"
  /\ stop' = [stop EXCEPT ![w] = TRUE]
  /\ UNCHANGED <<dbVars, gitVars, lock, chain, pc, cur, head, faults>>

\* `while not _shutdown_requested`, the only place the flag is read.
LoopTop(w) ==
  /\ pc[w] = "top"
  /\ Goto(w, IF stop[w] THEN "down" ELSE "claim")
  /\ UNCHANGED <<dbVars, gitVars, lock, chain, cur, head, stop, faults>>

\* Mutants of Claim: ORDER BY id DESC; the UPDATE forgotten.
ClaimNewest(w, e) ==
  /\ pc[w] = "claim" /\ Pending(e) /\ rows[e].repo = RepoOf(w)
  /\ \A e2 \in Ids : Pending(e2) /\ rows[e2].repo = RepoOf(w) => e >= e2
  /\ rows' = [rows EXCEPT ![e].status = "processing"]
  /\ cur' = [cur EXCEPT ![w] = e]
  /\ Goto(w, "lock")
  /\ UNCHANGED <<lastId, tokens, gitVars, lock, chain, head, stop, faults>>

ClaimUnmarked(w, e) ==
  /\ pc[w] = "claim" /\ Pending(e) /\ rows[e].repo = RepoOf(w)
  /\ cur' = [cur EXCEPT ![w] = e]
  /\ Goto(w, "lock")
  /\ UNCHANGED <<dbVars, gitVars, lock, chain, head, stop, faults>>

\* _claim_next() as one BEGIN IMMEDIATE transaction: select and update.
Claim(w, e) ==
  /\ pc[w] = "claim"
  /\ Pending(e) /\ rows[e].repo = RepoOf(w)
  /\ \A e2 \in Ids : Pending(e2) /\ rows[e2].repo = RepoOf(w) => e <= e2
  /\ rows' = [rows EXCEPT ![e].status = "processing"]
  /\ cur' = [cur EXCEPT ![w] = e]
  /\ Goto(w, "lock")
  /\ UNCHANGED <<lastId, tokens, gitVars, lock, chain, head, stop, faults>>

\* _claim_next() returns None: sleep and go round.
ClaimNothing(w) ==
  /\ pc[w] = "claim"
  /\ \A e \in Ids : ~(Pending(e) /\ rows[e].repo = RepoOf(w))
  /\ Goto(w, "top")
  /\ UNCHANGED <<dbVars, gitVars, lock, chain, cur, head, stop, faults>>

\* sqlite3.OperationalError in _claim_next(): rolled back and retried.
ClaimContended(w) ==
  /\ pc[w] = "claim"
  /\ faults < MaxFaults
  /\ faults' = faults + 1
  /\ Goto(w, "top")
  /\ UNCHANGED <<dbVars, gitVars, lock, chain, cur, head, stop>>

----------------------------------------------------------------------------
(* process_entry() *)

\* wait_for_index_lock(): one poll sees no lock, or the deadline passes with
\* the lock still there.
WaitForIndexLock(w) ==
  /\ pc[w] = "lock"
  /\ Goto(w, IF lock[RepoOf(w)] THEN "fail" ELSE "add")
  /\ UNCHANGED <<dbVars, gitVars, lock, chain, cur, head, stop, faults>>

\* Mutant of Add: git add -A.
AddAll(w) ==
  LET r == RepoOf(w)
  IN /\ pc[w] = "add" /\ ~lock[r]
     /\ index' = [index EXCEPT ![r] = @ \cup worktree[r]]
     /\ worktree' = [worktree EXCEPT ![r] = {}]
     /\ Goto(w, "commit")
     /\ UNCHANGED <<dbVars, theirs, log, outside, lock, chain, cur, head, stop, faults>>

\* git add -- <files>
Add(w) ==
  LET r == RepoOf(w)
      staged == rows[cur[w]].files \cap worktree[r]
  IN /\ pc[w] = "add"
     /\ ~lock[r]
     /\ index' = [index EXCEPT ![r] = @ \cup staged]
     /\ worktree' = [worktree EXCEPT ![r] = @ \ staged]
     /\ Goto(w, "commit")
     /\ UNCHANGED <<dbVars, theirs, log, outside, lock, chain, cur, head, stop, faults>>

\* A path that does not exist, or the index locked since the poll.
AddFails(w) ==
  /\ pc[w] = "add"
  /\ Goto(w, "fail")
  /\ UNCHANGED <<dbVars, gitVars, lock, chain, cur, head, stop, faults>>

\* git commit --no-verify -m <message>: no pathspec, so the whole index.
GitCommit(w) ==
  LET r == RepoOf(w)
  IN /\ pc[w] = "commit"
     /\ ~lock[r] /\ index[r] # {}
     /\ log' = [log EXCEPT ![r] = Append(@, [by |-> cur[w], changed |-> index[r],
                                             theirs |-> theirs[r]])]
     /\ index' = [index EXCEPT ![r] = {}]
     /\ theirs' = [theirs EXCEPT ![r] = {}]
     /\ Goto(w, "revparse")
     /\ UNCHANGED <<dbVars, worktree, outside, lock, chain, cur, head, stop, faults>>

\* Nothing staged, the index locked, no identity configured...: the index is
\* left as it is.
GitCommitFails(w) ==
  /\ pc[w] = "commit"
  /\ Goto(w, "fail")
  /\ UNCHANGED <<dbVars, gitVars, lock, chain, cur, head, stop, faults>>

\* git rev-parse HEAD, a process of its own: whatever HEAD is by then.
RevParse(w) ==
  /\ pc[w] = "revparse"
  /\ head' = [head EXCEPT ![w] = Len(log[RepoOf(w)])]
  /\ Goto(w, "post")
  /\ UNCHANGED <<dbVars, gitVars, lock, chain, cur, stop, faults>>

\* git rev-parse fails: its return code is not looked at, and the empty
\* output is posted, saved and marked as the SHA.
RevParseFails(w) ==
  /\ pc[w] = "revparse"
  /\ faults < MaxFaults
  /\ faults' = faults + 1
  /\ head' = [head EXCEPT ![w] = NoSha]
  /\ Goto(w, "post")
  /\ UNCHANGED <<dbVars, gitVars, lock, chain, cur, stop>>

\* _post_to_orchestrator(): the request reaches the orchestrator.
Post(w) ==
  /\ pc[w] = "post"
  /\ chain' = [chain EXCEPT ![cur[w]] = "running"]
  /\ Goto(w, "answer")
  /\ UNCHANGED <<dbVars, gitVars, lock, cur, head, stop, faults>>

\* Mutant of PostFails: no timeout on the answer.
PostFailsOnlyAtOnce(w) ==
  /\ pc[w] = "post"
  /\ Goto(w, "fail")
  /\ UNCHANGED <<dbVars, gitVars, lock, chain, cur, head, stop, faults>>

\* httpx.HTTPError or RuntimeError: unreachable, refused, an error status, or
\* ORCHESTRATOR_TIMEOUT_S without an answer.
PostFails(w) ==
  /\ pc[w] \in {"post", "answer"}
  /\ Goto(w, "fail")
  /\ UNCHANGED <<dbVars, gitVars, lock, chain, cur, head, stop, faults>>

\* Mutant of Answer: the missing merge_token goes unnoticed.
AnswerUnchecked(w) ==
  /\ pc[w] = "answer"
  /\ chain[cur[w]] \in {"passed", "blocked"}
  /\ Goto(w, "save")
  /\ UNCHANGED <<dbVars, gitVars, lock, chain, cur, head, stop, faults>>

\* The response: a merge_token, or none and blocked_at.
Answer(w) ==
  /\ pc[w] = "answer"
  /\ chain[cur[w]] \in {"passed", "blocked"}
  /\ Goto(w, IF chain[cur[w]] = "passed" THEN "save" ELSE "fail")
  /\ UNCHANGED <<dbVars, gitVars, lock, chain, cur, head, stop, faults>>

\* Mutant of SaveToken: the row is marked done before the token is saved.
SaveTokenAfterDone(w) ==
  /\ pc[w] = "save"
  /\ rows' = [rows EXCEPT ![cur[w]].status = "done", ![cur[w]].sha = head[w]]
  /\ Goto(w, "mark")
  /\ UNCHANGED <<lastId, tokens, gitVars, lock, chain, cur, head, stop, faults>>

\* _save_queue_token()
SaveToken(w) ==
  /\ pc[w] = "save"
  /\ tokens' = tokens \cup {[entry |-> cur[w], sha |-> head[w]]}
  /\ Goto(w, "mark")
  /\ UNCHANGED <<rows, lastId, gitVars, lock, chain, cur, head, stop, faults>>

\* _mark_done(), then back to the loop.
MarkDone(w) ==
  /\ pc[w] = "mark"
  /\ rows' = [rows EXCEPT ![cur[w]].status = "done", ![cur[w]].sha = head[w]]
  /\ Release(w)
  /\ Goto(w, "top")
  /\ UNCHANGED <<lastId, tokens, gitVars, lock, chain, stop, faults>>

\* Mutants of MarkFailed: commit_sha not passed on; the row queued again.
MarkFailedNoSha(w) ==
  /\ pc[w] \in {"fail", "raised"}
  /\ rows' = [rows EXCEPT ![cur[w]].status = "failed", ![cur[w]].sha = NoSha]
  /\ Release(w)
  /\ Goto(w, "top")
  /\ UNCHANGED <<lastId, tokens, gitVars, lock, chain, stop, faults>>

MarkFailedRequeue(w) ==
  /\ pc[w] \in {"fail", "raised"}
  /\ rows' = [rows EXCEPT ![cur[w]].status = "pending"]
  /\ Release(w)
  /\ Goto(w, "top")
  /\ UNCHANGED <<lastId, tokens, gitVars, lock, chain, stop, faults>>

\* _mark_failed(): overwrites commit_sha, with NULL from the exception handler.
MarkFailed(w) ==
  /\ pc[w] \in {"fail", "raised"}
  /\ rows' = [rows EXCEPT ![cur[w]].status = "failed",
                          ![cur[w]].sha = IF pc[w] = "raised" THEN NoSha ELSE head[w]]
  /\ Release(w)
  /\ Goto(w, "top")
  /\ UNCHANGED <<lastId, tokens, gitVars, lock, chain, stop, faults>>

----------------------------------------------------------------------------
(* Faults *)

\* An exception that process_entry does not handle (a locked database, a
\* response that is not JSON, no git binary) reaches the handler in worker().
Raise(w) ==
  /\ pc[w] \in Busy \ {"raised"}
  /\ faults < MaxFaults
  /\ faults' = faults + 1
  /\ Goto(w, "raised")
  /\ UNCHANGED <<dbVars, gitVars, lock, chain, cur, head, stop>>

\* The process ends in mid-entry: it is killed, or the handler's own
\* _mark_failed raises.
Die(w) ==
  /\ pc[w] # "down"
  /\ faults < MaxFaults
  /\ faults' = faults + 1
  /\ Goto(w, "down")
  /\ Release(w)
  /\ UNCHANGED <<dbVars, gitVars, lock, chain, stop>>

----------------------------------------------------------------------------
ProcessEntry(w) ==
  \/ WaitForIndexLock(w)
  \/ Add(w) \/ AddFails(w)
  \/ GitCommit(w) \/ GitCommitFails(w)
  \/ RevParse(w) \/ RevParseFails(w)
  \/ Post(w) \/ PostFails(w) \/ Answer(w)
  \/ SaveToken(w) \/ MarkDone(w) \/ MarkFailed(w)

WorkerStep(w) ==
  \/ LoopTop(w)
  \/ \E e \in Ids : Claim(w, e)
  \/ ClaimNothing(w)
  \/ ProcessEntry(w)

Next ==
  \/ \E r \in Repos, f \in Files : Edit(r, f)
  \/ \E r \in Repos, F \in SUBSET Files : Enqueue(r, F)
  \/ \E r \in Repos : OutsideGit(r)
  \/ \E e \in Ids : ChainEnds(e)
  \/ \E w \in Workers :
       \/ Start(w) \/ Signal(w)
       \/ WorkerStep(w)
       \/ ClaimContended(w) \/ Raise(w) \/ Die(w)

Spec == Init /\ [][Next]_vars

\* A running worker keeps being scheduled; its waits are bounded (the index
\* lock by INDEX_LOCK_TIMEOUT_S, the orchestrator by ORCHESTRATOR_TIMEOUT_S).
\* Nothing restarts a worker, and nobody else need act.
FairSpec == Spec /\ \A w \in Workers : WF_vars(WorkerStep(w))

----------------------------------------------------------------------------
(* Properties *)

TypeOK ==
  /\ rows \in [Ids -> Row]
  /\ lastId \in 0..MaxEntries
  /\ tokens \subseteq [entry : Ids, sha : Nat]
  /\ worktree \in [Repos -> SUBSET Files]
  /\ index \in [Repos -> SUBSET Files]
  /\ theirs \in [Repos -> SUBSET Files]
  /\ log \in [Repos -> Seq(Commit)]
  /\ lock \in [Repos -> BOOLEAN]
  /\ chain \in [Ids -> {"none", "running", "passed", "blocked"}]
  /\ pc \in [Workers -> Pc]
  /\ cur \in [Workers -> Ids \cup {0}]
  /\ head \in [Workers -> Nat]
  /\ stop \in [Workers -> BOOLEAN]
  /\ faults \in 0..MaxFaults
  /\ outside \in 0..MaxOutside

\* Some commit of e's repository was made by e.
Landed(e) == \E i \in 1..Len(log[rows[e].repo]) : log[rows[e].repo][i].by = e

\* "a single worker per repo drains the queue" (the module docstring): what
\* the deployment has to see to, since nothing in the queue enforces it.
OneWorkerPerRepo == \A w1, w2 \in Workers : RepoOf(w1) = RepoOf(w2) => w1 = w2

\* `sha` names a commit that e itself made.
OwnCommit(e, sha) ==
  /\ sha \in 1..Len(log[rows[e].repo])
  /\ log[rows[e].repo][sha].by = e

\* Up to the commit that `sha` names, the newest one the queue made is e's.
NewestOfQueue(e, sha) ==
  LET history == log[rows[e].repo]
  IN /\ sha \in 1..Len(history)
     /\ \E i \in 1..sha : /\ history[i].by = e
                          /\ \A j \in 1..sha : i < j => history[j].by = Nobody

\* The BEGIN IMMEDIATE claim: however many workers serve a repository, an
\* entry in "processing" has at most one owner, a worker owns an entry
\* exactly while it is inside process_entry, and what it owns is a row of its
\* own repository that nobody else has settled meanwhile.
ClaimExclusive ==
  \A w \in Workers :
    /\ pc[w] \in Busy <=> cur[w] # 0
    /\ cur[w] # 0 =>
         /\ rows[cur[w]].status = "processing" /\ rows[cur[w]].repo = RepoOf(w)
         /\ \A w2 \in Workers : cur[w2] = cur[w] => w2 = w

\* However many workers serve a repository, no entry is ever committed twice.
CommittedOnce ==
  \A r \in Repos : \A i, j \in 1..Len(log[r]) :
    log[r][i].by = log[r][j].by /\ log[r][i].by # Nobody => i = j

\* "A queue token is proof that this commit was processed serially and
\* cleared the gate chain" (the module docstring), as far as the code sees to
\* it: a token's entry landed and the chain passed it; in the history the
\* token's SHA names, nothing the queue made is newer than that entry's
\* commit, so no other entry was processed in between; and a row is done only
\* with such a token.  The SHA itself may be a commit made by somebody else
\* before rev-parse, or empty when rev-parse failed.
TokenProvesSerial ==
  /\ \A t \in tokens : /\ chain[t.entry] = "passed"
                       /\ Landed(t.entry)
                       /\ t.sha # NoSha => NewestOfQueue(t.entry, t.sha)
  /\ \A e \in Ids : rows[e].status = "done" => [entry |-> e, sha |-> rows[e].sha] \in tokens

\* The files a commit of the queue changes are its own entry's; or an earlier
\* entry of the repository staged them and never committed; or somebody else
\* had staged them: `git commit` has no pathspec, and a failed one leaves the
\* index staged.
CommitOwnsItsFiles ==
  \A r \in Repos : \A i \in 1..Len(log[r]) :
    LET e        == log[r][i].by
        leftover == {e2 \in 1..(e - 1) : rows[e2].repo = r /\ ~Landed(e2)}
    IN e # Nobody => log[r][i].changed \subseteq
         rows[e].files \cup log[r][i].theirs \cup UNION {rows[e2].files : e2 \in leftover}

\* An entry is lost track of (its row stuck in "processing" with no worker to
\* settle it, or settled without the SHA of the commit it left in the
\* history, which a failed row needs for anyone to find and undo it) only when
\* something raised or died, rev-parse failed, or somebody else committed; and
\* each of these loses at most one entry.
LossesNeedFaults ==
  LET untraced == {e \in Ids : Settled(e) /\ Landed(e) /\ ~OwnCommit(e, rows[e].sha)}
      stranded == {e \in Ids : Stranded(e)}
  IN Cardinality(untraced \cup stranded) <= faults + outside

\* A verdict is final: no later exception, retry or second worker changes a
\* row once it is done or failed.
VerdictFinal == [][\A e \in Ids : Settled(e) => rows'[e] = rows[e]]_rows

\* The abstract serial queue's view of a state: the entries' repositories,
\* where each entry stands, and which entries (or nobody's) landed in each history.
Home     == [e \in Ids |-> rows[e].repo]
Standing == [e \in Ids |->
               CASE rows[e].status = "absent"  -> "unsubmitted"
                 [] rows[e].status = "pending" -> "waiting"
                 [] rows[e].status = "done"    -> "accepted"
                 [] rows[e].status = "failed"  -> "rejected"
                 [] Stranded(e)                -> "abandoned"
                 [] OTHER                      -> "inhand"]
Landings == [r \in Repos |-> [i \in 1..Len(log[r]) |-> log[r][i].by]]

\* The queue implements the abstract serial queue.  True with one worker for
\* a repository.
Serial == INSTANCE SerialCommits WITH
  home <- Home, verdict <- Standing, history <- Landings

ImplementsSerial == Serial!Spec

\* Every entry of a repository whose worker stays up is settled in the end,
\* whatever the git lock, the gates and the other entries do: no wait of the
\* worker is unbounded.
EverySettles ==
  \A e \in Ids :
    Pending(e) ~> \/ Settled(e)
                  \/ \E w \in Workers : RepoOf(w) = rows[e].repo /\ pc[w] = "down"

=============================================================================
