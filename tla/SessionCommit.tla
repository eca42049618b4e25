--------------------------- MODULE SessionCommit ---------------------------
(***************************************************************************)
(* How a conductor session reaches the repositories: the order of          *)
(* run_session() (conductor/cli.py) from priming to tear-down,             *)
(* atomic_commit_multi_repo() (conductor/commit.py, of which               *)
(* atomic_commit() is the case of one repository), the contract store's    *)
(* session files and index (VectorContractStore in                         *)
(* memory/contract_store.py), the queue's worker of each repository and    *)
(* the memory gate in managed mode (memory/memory_gate.py).                *)
(*                                                                         *)
(* Conductors follow one another, as the shared manifest wants it; each    *)
(* may go away between any two steps, whereupon the operator resumes the   *)
(* session of the manifest or begins another.  Workers and the gate run    *)
(* beside them and outlive them.  write_text() truncates and then writes,  *)
(* so others may read an empty file and a crash may leave one.             *)
(*                                                                         *)
(* Contracts are reduced to where they come from: an entry of a session    *)
(* file is the session that wrote it.  Files are reduced to whose version  *)
(* the worktree and the commits hold: every session rewrites the same file *)
(* of a repository.  The inside of a commit is CommitQueue's matter, and   *)
(* that of "work" is the matter of ReleaseLoop and Proofing.               *)
(***************************************************************************)
EXTENDS Naturals, Sequences, FiniteSets

CONSTANTS
  RepoOrder,   \* the session's repositories in the order of their entries
  Modules,
  MaxSessions, \* bound: sessions the operator begins
  MaxFaults    \* bound: conductors that go away

Repos    == {RepoOrder[i] : i \in 1..Len(RepoOrder)}
Sessions == 1..MaxSessions   \* in the order they were begun; 0 is none

ASSUME CommitAssumption ==
  /\ RepoOrder \in Seq(Repos) /\ RepoOrder # <<>>
  /\ \A i, j \in 1..Len(RepoOrder) : RepoOrder[i] = RepoOrder[j] => i = j
  /\ MaxSessions \in Nat /\ MaxFaults \in Nat

VARIABLES
  at,        \* where run_session() stands
  session,   \* the conductor's session
  resume,    \* whether it was started with --resume
  priming,   \* whether commit_session() was called to prime the store
  rotated,   \* the index that commit_session() is about to write
  turn,      \* index of the repository the conductor is at
  begun,     \* sessions begun so far
  manifest,  \* session of the manifest at the staging base
  staging,   \* sessions whose staging directories are there
  staged,    \* repositories for which a session's agents have staged files
  counter,   \* current_sequence in session_state.json
  file,      \* session_{id}.json: its sequence and modules
  index,     \* index.json
  tree,      \* whose version the worktree of each repository has
  history,   \* whose entry made each commit, and whose version it holds
  entries,   \* the queue's table: rows in the order of their ids
  gate,      \* the run of the memory gate that is under way
  faults

conductor == <<at, session, resume, priming, rotated, turn, begun>>
disk      == <<manifest, staging, staged>>
store     == <<counter, file, index>>
queue     == <<history, entries>>
vars      == <<conductor, disk, store, tree, queue, gate, faults>>

----------------------------------------------------------------------------
At == {"off", "prime", "distribute", "work", "copy", "advance",
       "file", "fill", "index", "point", "enqueue", "teardown"}

\* An absent file and a torn one both read as {}.
NoFile  == [sequence |-> 0, modules |-> {}]
NoIndex == [latest |-> 0, previous |-> 0]
Idle    == [entry |-> 0, step |-> "latest", todo |-> {}, module |-> {},
            current |-> 0, previous |-> 0]

\* The repository the conductor is at, and the next one or what follows.
This == RepoOrder[turn]
Advance(next) ==
  IF turn < Len(RepoOrder) THEN turn' = turn + 1 /\ at' = at
                           ELSE turn' = 1 /\ at' = next

\* The version git has at HEAD.
HeadOf(r) == IF history[r] = <<>> THEN 0 ELSE history[r][Len(history[r])].holds

Init ==
  /\ at = "off" /\ session = 0 /\ resume = FALSE /\ priming = FALSE
  /\ rotated = NoIndex /\ turn = 1 /\ begun = 0
  /\ manifest = 0 /\ staging = {} /\ staged = [s \in Sessions |-> {}]
  /\ counter = 0 /\ file = [s \in Sessions |-> NoFile] /\ index = NoIndex
  /\ tree = [r \in Repos |-> 0]
  /\ history = [r \in Repos |-> <<>>] /\ entries = <<>>
  /\ gate = Idle
  /\ faults = 0

----------------------------------------------------------------------------
(* run_session() up to the commit *)

\* The wizard ends in a session with an id of its own.
BeginSession ==
  /\ at = "off" /\ begun < MaxSessions
  /\ begun' = begun + 1
  /\ session' = begun + 1 /\ resume' = FALSE
  /\ at' = "prime"
  /\ UNCHANGED <<priming, rotated, turn, disk, store, tree, queue, gate, faults>>

\* resume_session(): the manifest's session, if its staging area is complete.
Resume ==
  /\ at = "off" /\ manifest \in staging
  /\ session' = manifest /\ resume' = TRUE
  /\ at' = "prime"
  /\ UNCHANGED <<priming, rotated, turn, begun, disk, store, tree, queue, gate, faults>>

\* prime_vdb_from_codebase() is skipped when the index names a session.
Prime ==
  /\ at = "prime"
  /\ priming' = (index.latest = 0)
  /\ at' = IF index.latest = 0 THEN "file" ELSE "distribute"
  /\ UNCHANGED <<session, resume, rotated, turn, begun, disk, store, tree, queue, gate, faults>>

\* Mutant of Distribute: the manifest is saved for the first session only.
DistributeUnsaved ==
  /\ at = "distribute"
  /\ manifest' = IF manifest = 0 THEN session ELSE manifest
  /\ staging' = IF resume THEN staging ELSE staging \cup {session}
  /\ at' = "work"
  /\ UNCHANGED <<session, resume, priming, rotated, turn, begun, staged, store, tree,
                 queue, gate, faults>>

Distribute ==
  /\ at = "distribute"
  /\ manifest' = IF resume THEN manifest ELSE session
  /\ staging' = IF resume THEN staging ELSE staging \cup {session}
  /\ at' = "work"
  /\ UNCHANGED <<session, resume, priming, rotated, turn, begun, staged, store, tree,
                 queue, gate, faults>>

\* Launch, wait and proofing: the agents stage files for some repositories.
Work ==
  /\ at = "work"
  /\ \E more \in SUBSET Repos : staged' = [staged EXCEPT ![session] = @ \cup more]
  /\ at' = "copy" /\ turn' = 1
  /\ UNCHANGED <<session, resume, priming, rotated, begun, manifest, staging, store, tree,
                 queue, gate, faults>>

----------------------------------------------------------------------------
(* atomic_commit_multi_repo() *)

\* Mutant of Copy: a repository's entry is enqueued as soon as it has its files.
CopyAndEnqueue ==
  /\ at = "copy"
  /\ This \in staged[session]
  /\ tree' = [tree EXCEPT ![This] = session]
  /\ entries' = Append(entries, [session |-> session, repo |-> This, status |-> "pending"])
  /\ Advance("advance")
  /\ UNCHANGED <<session, resume, priming, rotated, begun, disk, store, history, gate, faults>>

\* The staged files are copied, repository by repository; if there are none
\* at all the conductor ends here and leaves the staging area alone.
Copy ==
  /\ at = "copy"
  /\ tree' = IF This \in staged[session] THEN [tree EXCEPT ![This] = session] ELSE tree
  /\ Advance(IF staged[session] = {} THEN "off" ELSE "advance")
  /\ UNCHANGED <<session, resume, priming, rotated, begun, disk, store, queue, gate, faults>>

\* advance_session()
AdvanceSession ==
  /\ at = "advance"
  /\ counter' = counter + 1
  /\ at' = "file"
  /\ UNCHANGED <<session, resume, priming, rotated, turn, begun, disk, file, index, tree, queue, gate, faults>>

\* commit_session(): the session's file is truncated and written...
TruncateFile ==
  /\ at = "file"
  /\ file' = [file EXCEPT ![session] = NoFile]
  /\ at' = "fill"
  /\ UNCHANGED <<session, resume, priming, rotated, turn, begun, disk, counter, index, tree,
                 queue, gate, faults>>

FillFile ==
  /\ at = "fill"
  /\ \E modules \in SUBSET Modules :
       file' = [file EXCEPT ![session] = [sequence |-> counter, modules |-> modules]]
  /\ at' = "index"
  /\ UNCHANGED <<session, resume, priming, rotated, turn, begun, disk, counter, index, tree,
                 queue, gate, faults>>

\* Mutant of Rotation: a session may become its own predecessor.
RotationAlways == [latest |-> session, previous |-> index.latest]

\* What becomes of the index.
Rotation ==
  [latest   |-> session,
   previous |-> IF index.latest \in {0, session} THEN index.previous ELSE index.latest]

\* ... and then the index is read, truncated and written.
TruncateIndex ==
  /\ at = "index"
  /\ rotated' = Rotation
  /\ index' = NoIndex
  /\ at' = "point"
  /\ UNCHANGED <<session, resume, priming, turn, begun, disk, counter, file, tree, queue, gate, faults>>

PointIndex ==
  /\ at = "point"
  /\ index' = rotated
  /\ rotated' = NoIndex
  /\ at' = IF priming THEN "distribute" ELSE "enqueue"
  /\ priming' = FALSE
  /\ UNCHANGED <<session, resume, turn, begun, disk, counter, file, tree, queue, gate, faults>>

\* Mutant of Enqueue: the staging area goes with the last but one entry.
EnqueueEarly ==
  /\ at = "enqueue"
  /\ entries' = IF This \in staged[session]
                THEN Append(entries, [session |-> session, repo |-> This, status |-> "pending"])
                ELSE entries
  /\ staging' = staging \ {session}
  /\ Advance("teardown")
  /\ UNCHANGED <<session, resume, priming, rotated, begun, manifest, staged, store, tree,
                 history, gate, faults>>

\* One entry per repository with files; a worker is there for each.
Enqueue ==
  /\ at = "enqueue"
  /\ entries' = IF This \in staged[session]
                THEN Append(entries, [session |-> session, repo |-> This, status |-> "pending"])
                ELSE entries
  /\ Advance("teardown")
  /\ UNCHANGED <<session, resume, priming, rotated, begun, disk, store, tree, history, gate, faults>>

\* Mutant of Teardown: the staging area stays.
TeardownNothing ==
  /\ at = "teardown"
  /\ at' = "off"
  /\ UNCHANGED <<session, resume, priming, rotated, turn, begun, disk, store, tree, queue, gate, faults>>

Teardown ==
  /\ at = "teardown"
  /\ staging' = staging \ {session}
  /\ at' = "off"
  /\ UNCHANGED <<session, resume, priming, rotated, turn, begun, manifest, staged, store, tree,
                 queue, gate, faults>>

\* The conductor is stopped, is killed or dies of an exception: nothing in
\* run_session() catches one, that of a failed enqueue included.
Leave ==
  /\ at # "off"
  /\ faults < MaxFaults /\ faults' = faults + 1
  /\ at' = "off" /\ turn' = 1 /\ rotated' = NoIndex /\ priming' = FALSE
  /\ UNCHANGED <<session, resume, begun, disk, store, tree, queue, gate>>

----------------------------------------------------------------------------
(* The queue's worker of a repository *)

Mark(i, status) == entries' = [entries EXCEPT ![i].status = status]

\* The entry the worker of r takes up next, when it has none in hand.
IsNext(i, r) ==
  /\ entries[i].repo = r /\ entries[i].status = "pending"
  /\ \A j \in 1..Len(entries) :
       /\ entries[j].repo = r => entries[j].status # "gates"
       /\ entries[j].repo = r /\ entries[j].status = "pending" => i <= j

\* Mutant of Land: an empty commit is made rather than refused.
LandEmpty(r) ==
  /\ \E i \in 1..Len(entries) :
       /\ IsNext(i, r)
       /\ Mark(i, "gates")
       /\ history' = [history EXCEPT ![r] = Append(@, [by |-> entries[i].session,
                                                       holds |-> tree[r]])]
  /\ UNCHANGED <<conductor, disk, store, tree, gate, faults>>

\* git add and git commit take what the worktree has by now.  When that is at
\* HEAD already there is nothing to commit, and the entry fails.
Land(r) ==
  /\ \E i \in 1..Len(entries) :
       /\ IsNext(i, r)
       /\ \/ /\ tree[r] # HeadOf(r)
             /\ history' = [history EXCEPT ![r] = Append(@, [by |-> entries[i].session,
                                                             holds |-> tree[r]])]
             /\ Mark(i, "gates")
          \/ /\ tree[r] = HeadOf(r)
             /\ Mark(i, "failed")
             /\ UNCHANGED history
  /\ UNCHANGED <<conductor, disk, store, tree, gate, faults>>

----------------------------------------------------------------------------
(* The memory gate in managed mode.  One process serves all workers and a   *)
(* run has no await in it, so runs follow one another.                      *)

FileOf(s) == IF s = 0 THEN NoFile ELSE file[s]

\* _scan_for_module(): of the files that have m, one with the highest
\* sequence number.  The bound 2^31 on the numbers excludes none.
Scan(m) ==
  LET with == {s \in Sessions : m \in file[s].modules}
  IN {s \in with : \A t \in with : file[t].sequence <= file[s].sequence}

\* What load_latest_contract() and load_previous_contract() may return.
Load(pointer, m) == IF m \in FileOf(pointer).modules THEN {pointer} ELSE Scan(m)

\* list_modules()
GateStarts ==
  /\ gate.entry = 0
  /\ \E i \in 1..Len(entries) :
       /\ entries[i].status = "gates"
       /\ gate' = [Idle EXCEPT !.entry = i, !.todo = FileOf(index.latest).modules]
  /\ UNCHANGED <<conductor, disk, store, tree, queue, faults>>

GateReadsLatest ==
  /\ gate.entry # 0 /\ gate.step = "latest"
  /\ \E m \in gate.todo :
       \/ \E s \in Load(index.latest, m) :
            gate' = [gate EXCEPT !.step = "previous", !.todo = @ \ {m}, !.module = {m},
                                 !.current = s]
       \/ /\ Load(index.latest, m) = {}
          /\ gate' = [gate EXCEPT !.todo = @ \ {m}]
  /\ UNCHANGED <<conductor, disk, store, tree, queue, faults>>

GateReadsPrevious ==
  /\ gate.step = "previous"
  /\ \E m \in gate.module :
       \/ \E s \in Load(index.previous, m) :
            gate' = [gate EXCEPT !.step = "score", !.previous = s]
       \/ /\ Load(index.previous, m) = {}
          /\ gate' = [gate EXCEPT !.step = "score", !.previous = 0]
  /\ UNCHANGED <<conductor, disk, store, tree, queue, faults>>

GateScores ==
  /\ gate.step = "score"
  /\ gate' = [gate EXCEPT !.step = "latest", !.module = {}, !.current = 0, !.previous = 0]
  /\ UNCHANGED <<conductor, disk, store, tree, queue, faults>>

\* The answer, with which the worker goes on to its next entry.
GateAnswers ==
  /\ gate.entry # 0 /\ gate.step = "latest" /\ gate.todo = {}
  /\ Mark(gate.entry, "judged")
  /\ gate' = Idle
  /\ UNCHANGED <<conductor, disk, store, tree, history, faults>>

----------------------------------------------------------------------------
CommitSession == TruncateFile \/ FillFile \/ TruncateIndex \/ PointIndex

RunSession ==
  \/ Prime \/ Distribute \/ Work
  \/ Copy \/ AdvanceSession \/ CommitSession \/ Enqueue \/ Teardown

Gate == GateStarts \/ GateReadsLatest \/ GateReadsPrevious \/ GateScores \/ GateAnswers

Next ==
  \/ BeginSession \/ Resume \/ RunSession \/ Leave
  \/ \E r \in Repos : Land(r)
  \/ Gate

Spec == Init /\ [][Next]_vars

----------------------------------------------------------------------------
(* Properties *)

\* Every variable is of its type, and the gate is at an entry that waits.
TypeOK ==
  /\ at \in At /\ session \in 0..begun /\ begun \in 0..MaxSessions
  /\ resume \in BOOLEAN /\ priming \in BOOLEAN /\ turn \in 1..Len(RepoOrder)
  /\ {index, rotated} \subseteq [latest : 0..begun, previous : 0..begun]
  /\ manifest \in 0..begun /\ staging \subseteq Sessions
  /\ staged \in [Sessions -> SUBSET Repos]
  /\ counter \in Nat /\ file \in [Sessions -> [sequence : 0..counter, modules : SUBSET Modules]]
  /\ tree \in [Repos -> 0..begun]
  /\ history \in [Repos -> Seq([by : 1..begun, holds : 1..begun])]
  /\ entries \in Seq([session : 1..begun, repo : Repos,
                      status : {"pending", "gates", "judged", "failed"}])
  /\ gate.entry = 0 => gate = Idle
  /\ gate.entry # 0 => /\ gate.entry \in 1..Len(entries)
                       /\ entries[gate.entry].status = "gates"
  /\ faults \in 0..MaxFaults

\* What "the VDB commit MUST precede the queue entry" is for: whatever the gate
\* takes for the current contracts when it judges a session's entry comes from
\* that session or a later one, at each of its reads.
GateNeverStale ==
  gate.step \in {"previous", "score"} /\ faults = 0
    => gate.current >= entries[gate.entry].session

\* The index names two different sessions, the one before with the lower
\* sequence number; without crashes it is the last committed one before the latest.
PointersInOrder ==
  /\ index.previous # 0 =>
       /\ index.previous # index.latest
       /\ NoFile \notin {file[index.previous], file[index.latest]}
            => file[index.previous].sequence < file[index.latest].sequence
  /\ faults = 0 =>
       \A s \in 1..(index.latest - 1) : file[s] # NoFile => s <= index.previous

\* Staging areas are removed only when the queue has it all: a session whose
\* staging area is gone has an entry for each repository it has files for.
GoneMeansQueued ==
  \A s \in Sessions \ staging : \A r \in staged[s] :
    \E i \in 1..Len(entries) : entries[i].session = s /\ entries[i].repo = r

\* A session is enqueued again only by a conductor that follows a lost one.
RepeatsNeedCrashes ==
  \A i \in 1..Len(entries) :
    Cardinality({j \in 1..Len(entries) : /\ entries[j].session = entries[i].session
                                         /\ entries[j].repo = entries[i].repo}) <= 1 + faults

\* Neither a resumed session nor a late entry takes a repository back: the
\* versions in its history only ever go up, and no entry commits a version
\* older than its own session's.
HistoryMovesForward ==
  \A r \in Repos :
    /\ \A i, j \in 1..Len(history[r]) : i < j => history[r][i].holds < history[r][j].holds
    /\ \A i \in 1..Len(history[r]) : history[r][i].by <= history[r][i].holds

\* What README.md says of managed mode: the gate compares session N with N-1.
\* It does not hold, and no run checks it: priming and the session's own commit
\* share one file.
ComparesTwoSessions == gate.step = "score" => gate.previous # gate.current

\* What README.md says of the queue entry: one commit for a whole generation.
\* It does not hold, and no run checks it: an entry that waits in the queue
\* takes the files that the next session has copied over its own.
CommitsItsOwn ==
  \A r \in Repos : \A i \in 1..Len(history[r]) : history[r][i].by = history[r][i].holds

=============================================================================
