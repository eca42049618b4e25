------------------------ MODULE SessionCommitProofs ------------------------
(***************************************************************************)
(* Proofs about SessionCommit, for any repositories, modules, sessions and *)
(* crashes of the conductor.                                               *)
(***************************************************************************)
EXTENDS SessionCommit, FiniteSetTheorems, SequenceTheorems, TLAPS

----------------------------------------------------------------------------
(* The inductive invariant *)

Status      == {"pending", "gates", "judged", "failed"}
Row(n)      == [session : 1..n, repo : Repos, status : Status]
Record(n)   == [by : 1..n, holds : 1..n]
Pointers(n) == [latest : 0..n, previous : 0..n]
Files       == [Sessions -> [sequence : 0..counter, modules : SUBSET Modules]]
GateRuns    == [entry : Nat, step : {"latest", "previous", "score"}, todo : SUBSET Modules,
                module : SUBSET Modules, current : 0..MaxSessions, previous : 0..MaxSessions]

ScalarTypes ==
  /\ at \in At /\ session \in 0..begun /\ begun \in 0..MaxSessions
  /\ turn \in 1..Len(RepoOrder) /\ manifest \in 0..begun /\ faults \in 0..MaxFaults
  /\ staging \subseteq Sessions /\ staged \in [Sessions -> SUBSET Repos]
  /\ counter \in Nat /\ tree \in [Repos -> 0..begun]

GateAt ==
  /\ gate \in GateRuns
  /\ gate.entry = 0 => gate = Idle
  /\ gate.entry # 0 => /\ gate.entry \in 1..Len(entries)
                       /\ entries[gate.entry].status = "gates"

Types == TypeOK /\ gate \in GateRuns

\* Inside commit_session(), past the copy of the files, past the manifest.
Storing    == at \in {"file", "fill", "index", "point"}
Committing == at \in {"advance", "enqueue", "teardown"} \/ (Storing /\ ~priming)
Saved      == at \in {"work", "copy"} \/ Committing \/ (at # "off" /\ resume)

\* The conductor's session is the manifest's from distribution on, and is
\* newer than it before.
ConductorInv ==
  /\ at # "off" => session # 0
  /\ \A s \in staging : s <= begun
  /\ Saved => session \in staging /\ manifest = session
  /\ at # "off" /\ ~Saved => session = begun /\ manifest < session
  /\ priming => Storing

\* No worktree is ahead of the manifest, no history ahead of its worktree, and
\* no entry is in the queue before its session's files are in the worktree.
ForwardInv ==
  /\ \A r \in Repos : tree[r] <= manifest
  /\ \A r \in Repos : \A i \in 1..Len(history[r]) : history[r][i].holds <= tree[r]
  /\ \A i \in 1..Len(entries) : entries[i].session <= tree[entries[i].repo]
  /\ Committing => \A r \in staged[session] : tree[r] >= session
  /\ at = "copy" => \A i \in 1..(turn - 1) :
                      RepoOrder[i] \in staged[session] => tree[RepoOrder[i]] >= session

Queued(s, r) == \E i \in 1..Len(entries) : entries[i].session = s /\ entries[i].repo = r

\* The conductor has enqueued the repositories it has been at.
QueuedInv ==
  /\ at \notin {"copy", "enqueue"} => turn = 1
  /\ at = "enqueue" => \A i \in 1..(turn - 1) :
                         RepoOrder[i] \in staged[session] => Queued(session, RepoOrder[i])
  /\ at = "teardown" => \A r \in staged[session] : Queued(session, r)

EntriesOf(s, r) == {j \in 1..Len(entries) : entries[j].session = s /\ entries[j].repo = r}

\* The last conductor of s is through with the i-th repository.
Finished(s, i) ==
  \/ s = session /\ at = "enqueue" /\ i < turn
  \/ s = session /\ at = "teardown"
  \/ s \notin staging /\ s <= begun /\ ~(s = session /\ at # "off")

\* Each conductor of a session but the one that finished was lost to a fault.
RepeatInv ==
  \A s \in Sessions, i \in 1..Len(RepoOrder) :
    Cardinality(EntriesOf(s, RepoOrder[i])) <= faults + (IF Finished(s, i) THEN 1 ELSE 0)

\* Pointers that name two sessions in the order of their numbers.
Ordered(ix) ==
  ix.previous # 0 =>
    /\ ix.previous # ix.latest
    /\ NoFile \notin {file[ix.previous], file[ix.latest]}
         => file[ix.previous].sequence < file[ix.latest].sequence

\* The index, its copy in commit_session() and the number of the file it writes.
PointerInv ==
  /\ index.latest = 0 => index.previous = 0
  /\ priming => index = NoIndex /\ rotated.previous = 0
  /\ index.previous # 0 => index.previous # manifest /\ (at # "off" => index.previous # session)
  /\ at = "point" => /\ rotated.latest = session /\ index = NoIndex
                     /\ rotated.previous # session
  /\ at \in {"file", "fill", "index"} /\ ~priming =>
       \A s \in Sessions : s # session => file[s].sequence < counter
  /\ at = "index" => file[session].sequence = counter
  /\ Ordered(index)
  /\ at = "point" => Ordered(rotated)
  /\ at # "point" => rotated = NoIndex

\* Every session before the latest one is the previous one or older.
OlderAhead(ix) == \A s \in 1..(ix.latest - 1) : file[s] # NoFile => s <= ix.previous

\* Without faults, sessions are stored in the order they were begun.
CalmInv ==
  faults = 0 =>
    /\ session = begun
    /\ \A s \in Sessions : file[s] # NoFile => s <= session
    /\ at = "off" => manifest = session
    /\ at \notin {"index", "point"} =>
         \A s \in Sessions : file[s] # NoFile => s <= index.latest
    /\ at = "index" => \A s \in Sessions : file[s] # NoFile /\ s # session => s <= index.latest
    /\ OlderAhead(index)
    /\ at = "point" => OlderAhead(rotated)
    /\ \A s, t \in Sessions :
         s < t /\ NoFile \notin {file[s], file[t]} => file[s].sequence < file[t].sequence

\* The file of t is not going to be rewritten, as long as no conductor goes away.
Fixed(t) ==
  t < begun \/ at \in {"enqueue", "teardown"} \/ (at = "off" /\ begun \notin staging)

\* A session that has contracts for the gate, of an entry or later.
Behind(s, m) == \E t \in Sessions : t >= s /\ m \in file[t].modules /\ Fixed(t)

\* What is in the queue is of the index's latest session or an earlier one.
LatestInv ==
  faults = 0 =>
    /\ at \in {"enqueue", "teardown"} => index.latest = session
    /\ at # "point" /\ entries # <<>> => index.latest # 0
    /\ priming => entries = <<>>
    /\ index.latest # 0 =>
         \A i \in 1..Len(entries) : entries[i].session <= index.latest /\ Fixed(index.latest)

\* What the gate has still to judge has contracts of its entry's session or later.
BehindInv ==
  faults = 0 /\ gate.entry # 0 =>
    \A m \in gate.todo \cup gate.module : Behind(entries[gate.entry].session, m)

MoveInv == Types /\ ConductorInv /\ ForwardInv

StoreInv == PointerInv /\ CalmInv

GateInv == LatestInv /\ BehindInv /\ GateNeverStale

\* A worker takes up an entry.
Takes == \E i \in 1..Len(entries) : /\ entries[i].status = "pending" /\ UNCHANGED gate
                                    /\ Mark(i, "gates") \/ Mark(i, "failed")

\* The entry that the conductor adds.
NewRow   == [session |-> session, repo |-> This, status |-> "pending"]
Enqueues == Enqueue /\ This \in staged[session] /\ entries' = Append(entries, NewRow)

----------------------------------------------------------------------------
(* Steps *)

\* The session's repositories are a non-empty sequence.
LEMMA RepoOrderIs ==
  /\ Len(RepoOrder) \in Nat /\ Len(RepoOrder) >= 1
  /\ \A i \in 1..Len(RepoOrder) : RepoOrder[i] \in Repos
  /\ \A r \in Repos : \E i \in 1..Len(RepoOrder) : r = RepoOrder[i]
<1>1. Len(RepoOrder) \in Nat /\ Len(RepoOrder) # 0
  BY CommitAssumption, LenProperties, EmptySeq
<1>2. QED
  BY <1>1 DEF Repos

\* The workers and the gate leave the conductor, its disk and its store alone.
LEMMA OthersStep ==
  ASSUME (\E r \in Repos : Land(r)) \/ Gate \/ UNCHANGED vars
  PROVE  UNCHANGED <<at, session, resume, priming, rotated, turn, begun, manifest, staging, staged,
                     counter, file, index, tree, faults>>
<1>1. CASE \E r \in Repos : Land(r)
  BY <1>1 DEF Land, conductor, disk, store
<1>2. CASE GateStarts
  BY <1>2 DEF GateStarts, conductor, disk, store
<1>3. CASE GateReadsLatest
  BY <1>3 DEF GateReadsLatest, conductor, disk, store
<1>4. CASE GateReadsPrevious
  BY <1>4 DEF GateReadsPrevious, conductor, disk, store
<1>5. CASE GateScores
  BY <1>5 DEF GateScores, conductor, disk, store
<1>6. CASE GateAnswers
  BY <1>6 DEF GateAnswers, conductor, disk, store
<1>7. CASE UNCHANGED vars
  BY <1>7 DEF vars, conductor, disk, store
<1>8. QED
  BY <1>1, <1>2, <1>3, <1>4, <1>5, <1>6, <1>7 DEF Gate

\* No step leaves the ranges of the places, sessions, repositories and versions.
LEMMA ScalarStep ==
  ASSUME Types, ConductorInv, [Next]_vars
  PROVE  ScalarTypes'
<1>0. /\ ScalarTypes /\ MaxSessions \in Nat /\ MaxFaults \in Nat
      /\ Len(RepoOrder) \in Nat /\ Len(RepoOrder) >= 1
  BY CommitAssumption, RepoOrderIs DEF Types, TypeOK, ScalarTypes
<1>1. CASE BeginSession
  BY <1>0, <1>1 DEF ScalarTypes, BeginSession, At, disk, store, Sessions
<1>2. CASE Resume
  BY <1>0, <1>2 DEF ScalarTypes, Resume, At, disk, store, Sessions, ConductorInv
<1>3. CASE Prime
  BY <1>0, <1>3 DEF ScalarTypes, Prime, At, disk, store
<1>4. CASE Distribute
  BY <1>0, <1>4 DEF ScalarTypes, Distribute, At, store, ConductorInv, Sessions
<1>5. CASE Work
  BY <1>0, <1>5 DEF ScalarTypes, Work, At, store, ConductorInv, Sessions
<1>6. CASE Copy
  <2>1. tree' \in [Repos -> 0..begun]
    BY <1>0, <1>6 DEF ScalarTypes, Copy
  <2>2. turn' \in 1..Len(RepoOrder) /\ at' \in {at, "off", "advance"}
    BY <1>0, <1>6 DEF ScalarTypes, Copy, Advance
  <2>3. QED
    BY <1>0, <1>6, <2>1, <2>2 DEF ScalarTypes, Copy, At, store, disk
<1>7. CASE AdvanceSession
  BY <1>0, <1>7 DEF ScalarTypes, AdvanceSession, At, disk
<1>8. CASE CommitSession
  BY <1>0, <1>8 DEF ScalarTypes, CommitSession, TruncateFile, FillFile, TruncateIndex,
     PointIndex, At, disk
<1>9. CASE Enqueue
  BY <1>0, <1>9 DEF ScalarTypes, Enqueue, Advance, At, store, disk
<1>10. CASE Teardown
  BY <1>0, <1>10 DEF ScalarTypes, Teardown, At, store
<1>11. CASE Leave
  BY <1>0, <1>11 DEF ScalarTypes, Leave, At, store, disk
<1>12. CASE (\E r \in Repos : Land(r)) \/ Gate \/ UNCHANGED vars
  BY <1>0, <1>12, OthersStep DEF ScalarTypes
<1>13. QED
  BY <1>1, <1>2, <1>3, <1>4, <1>5, <1>6, <1>7, <1>8, <1>9, <1>10, <1>11, <1>12 DEF Next, RunSession

\* What the conductor knows of its session at each place.
LEMMA ConductorStep ==
  ASSUME Types, ConductorInv, [Next]_vars
  PROVE  ConductorInv'
<1>0. /\ ScalarTypes /\ MaxSessions \in Nat /\ MaxFaults \in Nat
  BY CommitAssumption DEF Types, TypeOK, ScalarTypes
<1> USE DEF ConductorInv, Saved, Committing, Storing
<1>1. CASE BeginSession
  BY <1>0, <1>1 DEF ScalarTypes, BeginSession, disk, Sessions
<1>2. CASE Resume
  BY <1>0, <1>2 DEF ScalarTypes, Resume, disk, Sessions
<1>3. CASE Prime
  BY <1>0, <1>3 DEF ScalarTypes, Prime, disk
<1>4. CASE Distribute
  BY <1>0, <1>4 DEF ScalarTypes, Distribute
<1>5. CASE Work
  BY <1>0, <1>5 DEF ScalarTypes, Work
<1>6. CASE Copy
  <2>1. at = "copy" /\ at' \in {"copy", "off", "advance"}
    BY <1>6 DEF Copy, Advance
  <2>2. UNCHANGED <<session, resume, priming, begun, manifest, staging>>
    BY <1>6 DEF Copy, disk
  <2>3. QED
    BY <2>1, <2>2
<1>7. CASE AdvanceSession
  BY <1>0, <1>7 DEF ScalarTypes, AdvanceSession, disk
<1>8. CASE CommitSession
  BY <1>0, <1>8 DEF ScalarTypes, CommitSession, TruncateFile, FillFile, TruncateIndex,
     PointIndex, disk
<1>9. CASE Enqueue
  BY <1>0, <1>9 DEF ScalarTypes, Enqueue, Advance, disk
<1>10. CASE Teardown
  BY <1>0, <1>10 DEF ScalarTypes, Teardown
<1>11. CASE Leave
  BY <1>0, <1>11 DEF ScalarTypes, Leave, disk
<1>12. CASE (\E r \in Repos : Land(r)) \/ Gate \/ UNCHANGED vars
  BY <1>0, <1>12, OthersStep DEF ScalarTypes
<1> HIDE DEF ConductorInv, Saved, Committing, Storing
<1>13. QED
  BY <1>1, <1>2, <1>3, <1>4, <1>5, <1>6, <1>7, <1>8, <1>9, <1>10, <1>11, <1>12 DEF Next, RunSession

\* The types in the form the proofs below use.
LEMMA TypesAre ==
  ASSUME Types
  PROVE  /\ ScalarTypes /\ begun \in Nat /\ session \in Nat /\ faults \in Nat
         /\ entries \in Seq(Row(begun)) /\ Len(entries) \in Nat
         /\ history \in [Repos -> Seq(Record(begun))]
<1>1. ScalarTypes
  BY DEF Types, TypeOK, ScalarTypes
<1>2. begun \in Nat /\ session \in Nat /\ faults \in Nat
  BY <1>1, CommitAssumption DEF ScalarTypes
<1>3. history \in [Repos -> Seq(Record(begun))] /\ entries \in Seq(Row(begun))
  BY DEF Types, TypeOK, Row, Status, Record
<1>4. QED
  BY <1>1, <1>2, <1>3, LenProperties

\* A step after which there was no fault is of a conductor that stays.
LEMMA FaultFree ==
  ASSUME Types, [Next]_vars, faults' = 0
  PROVE  faults = 0 /\ ~Leave
<1>1. faults \in Nat
  BY TypesAre
<1>2. faults' = faults \/ (Leave /\ faults' = faults + 1)
  BY OthersStep DEF Next, RunSession, CommitSession, BeginSession, Resume, Prime, Distribute,
     Work, Copy, AdvanceSession, TruncateFile, FillFile, TruncateIndex, PointIndex, Enqueue,
     Teardown, Leave
<1>3. ~Leave
  BY <1>1 DEF Leave
<1>4. QED
  BY <1>2, <1>3

\* Both flags stay Boolean.
LEMMA BoolStep ==
  ASSUME resume \in BOOLEAN, priming \in BOOLEAN, [Next]_vars
  PROVE  resume' \in BOOLEAN /\ priming' \in BOOLEAN
<1>1. CASE BeginSession
  BY <1>1, Zenon DEF BeginSession
<1>2. CASE Resume
  BY <1>2, Zenon DEF Resume
<1>3. CASE Prime
  BY <1>3, Zenon DEF Prime
<1>4. CASE Distribute
  BY <1>4, Zenon DEF Distribute
<1>5. CASE Work
  BY <1>5, Zenon DEF Work
<1>6. CASE Copy
  BY <1>6, Zenon DEF Copy
<1>7. CASE AdvanceSession
  BY <1>7, Zenon DEF AdvanceSession
<1>8. CASE TruncateFile
  BY <1>8, Zenon DEF TruncateFile
<1>9. CASE FillFile
  BY <1>9, Zenon DEF FillFile
<1>10. CASE TruncateIndex
  BY <1>10, Zenon DEF TruncateIndex
<1>11. CASE PointIndex
  BY <1>11, Zenon DEF PointIndex
<1>12. CASE Enqueue
  BY <1>12, Zenon DEF Enqueue
<1>13. CASE Teardown
  BY <1>13, Zenon DEF Teardown
<1>14. CASE Leave
  BY <1>14, Zenon DEF Leave
<1>15. CASE (\E r \in Repos : Land(r)) \/ Gate \/ UNCHANGED vars
  BY <1>15, OthersStep, Zenon
<1>16. QED
  BY <1>1, <1>2, <1>3, <1>4, <1>5, <1>6, <1>7, <1>8, <1>9, <1>10, <1>11, <1>12, <1>13, <1>14,
     <1>15, Zenon DEF Next, RunSession, CommitSession

\* Sessions are only ever begun.
LEMMA BegunGrows ==
  ASSUME begun \in Nat, [Next]_vars
  PROVE  begun' \in Nat /\ begun' >= begun
<1>1. CASE BeginSession
  BY <1>1 DEF BeginSession
<1>2. CASE ~BeginSession
  <2>1. begun' = begun
    BY <1>2, OthersStep DEF Next, RunSession, CommitSession, Resume, Prime, Distribute, Work, Copy,
       AdvanceSession, TruncateFile, FillFile, TruncateIndex, PointIndex, Enqueue, Teardown, Leave
  <2>2. QED
    BY <2>1
<1>3. QED
  BY <1>1, <1>2

\* The contract store moves in commit_session() and with the counter only.
LEMMA StoreStep ==
  ASSUME [Next]_vars
  PROVE  \/ UNCHANGED <<counter, file, index>> /\ (rotated' = rotated \/ rotated' = NoIndex)
         \/ AdvanceSession \/ TruncateFile \/ FillFile \/ TruncateIndex \/ PointIndex
<1>1. CASE (\E r \in Repos : Land(r)) \/ Gate \/ UNCHANGED vars
  BY <1>1, OthersStep
<1>2. CASE BeginSession \/ Resume \/ Prime \/ Distribute \/ Work \/ Copy \/ Enqueue \/ Teardown
           \/ Leave
  BY <1>2 DEF BeginSession, Resume, Prime, Distribute, Work, Copy, Enqueue, Teardown, Leave, store
<1>3. QED
  BY <1>1, <1>2 DEF Next, RunSession, CommitSession

\* Pointers and session files keep their types; a file's number is never above the counter.
LEMMA StoreTypes ==
  ASSUME Types, ConductorInv, [Next]_vars
  PROVE  {index, rotated}' \subseteq Pointers(begun)' /\ (file \in Files)'
<1>0. /\ ScalarTypes /\ MaxSessions \in Nat /\ MaxFaults \in Nat
      /\ {index, rotated} \subseteq Pointers(begun) /\ file \in Files
  BY CommitAssumption DEF Types, TypeOK, ScalarTypes, Pointers, Files
<1>1. begun \in Nat /\ counter \in Nat /\ begun' \in Nat /\ begun' >= begun /\ session \in 0..begun
  BY <1>0, BegunGrows DEF ScalarTypes
<1>2. Pointers(begun) \subseteq Pointers(begun') /\ NoIndex \in Pointers(begun')
  BY <1>1 DEF Pointers, NoIndex
<1>3. CASE UNCHANGED <<counter, file, index>> /\ (rotated' = rotated \/ rotated' = NoIndex)
  BY <1>0, <1>2, <1>3 DEF Files
<1>4. CASE AdvanceSession
  <2>1. 0..counter \subseteq 0..(counter') /\ UNCHANGED <<file, index, rotated>>
    BY <1>1, <1>4 DEF AdvanceSession
  <2>2. [sequence : 0..counter, modules : SUBSET Modules]
           \subseteq [sequence : 0..(counter'), modules : SUBSET Modules]
    BY <2>1
  <2>3. QED
    BY <1>0, <1>2, <2>1, <2>2 DEF Files
<1>5. CASE TruncateFile
  <2>1. UNCHANGED <<index, rotated, counter>> /\ file' = [file EXCEPT ![session] = NoFile]
    BY <1>5 DEF TruncateFile
  <2>2. NoFile \in [sequence : 0..counter, modules : SUBSET Modules]
    BY <1>1 DEF NoFile
  <2>3. file' \in Files
    BY <1>0, <2>1, <2>2 DEF Files
  <2>4. QED
    BY <1>0, <1>2, <2>1, <2>3 DEF Files
<1>6. CASE FillFile
  <2>1. UNCHANGED <<index, rotated, counter>>
    BY <1>6 DEF FillFile
  <2>2. PICK modules \in SUBSET Modules :
          file' = [file EXCEPT ![session] = [sequence |-> counter, modules |-> modules]]
    BY <1>6 DEF FillFile
  <2>3. [sequence |-> counter, modules |-> modules]
           \in [sequence : 0..counter, modules : SUBSET Modules]
    BY <1>1
  <2>4. file' \in Files
    BY <1>0, <2>2, <2>3 DEF Files
  <2>5. QED
    BY <1>0, <1>2, <2>1, <2>4 DEF Files
<1>7. CASE TruncateIndex
  <2>1. Rotation \in Pointers(begun')
    BY <1>0, <1>1, <1>2 DEF Rotation, Pointers
  <2>2. QED
    BY <1>0, <1>2, <1>7, <2>1 DEF TruncateIndex, Files
<1>8. CASE PointIndex
  BY <1>0, <1>2, <1>8 DEF PointIndex, Files
<1>9. QED
  BY <1>3, <1>4, <1>5, <1>6, <1>7, <1>8, StoreStep

\* How the queue's table moves: an entry is added, or a worker or the gate marks one.
LEMMA EntriesMove ==
  ASSUME [Next]_vars
  PROVE  \/ entries' = entries
         \/ Enqueues
         \/ Takes
         \/ GateAnswers
<1>1. CASE Enqueue
  BY <1>1 DEF Enqueue, Enqueues, NewRow
<1>2. ASSUME NEW r \in Repos, Land(r)
      PROVE Takes
  BY <1>2 DEF Land, IsNext, Takes
<1>3. CASE GateStarts \/ GateReadsLatest \/ GateReadsPrevious \/ GateScores \/ UNCHANGED vars
  BY <1>3 DEF GateStarts, GateReadsLatest, GateReadsPrevious, GateScores, vars, queue
<1>4. CASE BeginSession \/ Resume \/ Prime \/ Distribute \/ Work \/ Copy \/ AdvanceSession
           \/ TruncateFile \/ FillFile \/ TruncateIndex \/ PointIndex \/ Teardown \/ Leave
  BY <1>4 DEF BeginSession, Resume, Prime, Distribute, Work, Copy, AdvanceSession, TruncateFile,
     FillFile, TruncateIndex, PointIndex, Teardown, Leave, queue
<1>5. QED
  BY <1>1, <1>2, <1>3, <1>4 DEF Next, RunSession, CommitSession, Gate

\* Marking a row changes its status and nothing else of the table.
LEMMA MarkStep ==
  ASSUME NEW n \in Nat, entries \in Seq(Row(n)), NEW i \in 1..Len(entries),
         NEW st \in Status, Mark(i, st)
  PROVE  /\ entries' \in Seq(Row(n)) /\ Len(entries') = Len(entries)
         /\ \A j \in 1..Len(entries) : /\ entries'[j].session = entries[j].session
                                       /\ entries'[j].repo = entries[j].repo
                                       /\ j # i => entries'[j] = entries[j]
         /\ entries'[i].status = st
<1> DEFINE new == [entries[i] EXCEPT !.status = st]
<1>1. entries[i] \in Row(n)
  BY ElementOfSeq
<1>2. new \in Row(n) /\ new.session = entries[i].session /\ new.repo = entries[i].repo
      /\ new.status = st
  BY <1>1 DEF Row
<1>3. entries' = [entries EXCEPT ![i] = new]
  BY DEF Mark
<1> HIDE DEF new
<1>4. entries' \in Seq(Row(n)) /\ Len(entries') = Len(entries)
      /\ \A j \in 1..Len(entries) : entries'[j] = IF j = i THEN new ELSE entries[j]
  BY <1>2, <1>3, ExceptSeq
<1>5. QED
  BY <1>2, <1>4

\* What a step leaves of the table: rows keep their session and repository, and only
\* the conductor adds one.
LEMMA EntriesStep ==
  ASSUME Types, ConductorInv, [Next]_vars
  PROVE  /\ entries' \in Seq(Row(begun')) /\ Len(entries) \in Nat
         /\ \A i \in 1..Len(entries) : /\ entries'[i].session = entries[i].session
                                       /\ entries'[i].repo = entries[i].repo
         /\ \/ Len(entries') = Len(entries)
            \/ Enqueues /\ Len(entries') = Len(entries) + 1 /\ entries'[Len(entries) + 1] = NewRow
<1>0. /\ ScalarTypes /\ entries \in Seq(Row(begun))
      /\ gate.entry # 0 => gate.entry \in 1..Len(entries)
      /\ Len(entries) \in Nat
  BY LenProperties DEF Types, TypeOK, ScalarTypes, Row, Status
<1>1. begun \in Nat /\ begun' \in Nat /\ begun' >= begun
  BY <1>0, CommitAssumption, BegunGrows DEF ScalarTypes
<1>2. Row(begun) \subseteq Row(begun')
  BY <1>1 DEF Row
<1>3. Seq(Row(begun)) \subseteq Seq(Row(begun'))
  BY <1>2, SeqMonotonic
<1>4. CASE entries' = entries
  BY <1>0, <1>3, <1>4
<1>5. CASE Enqueues
  <2>1. NewRow \in Row(begun)
    BY <1>0, <1>1, <1>5, RepoOrderIs DEF Enqueues, Enqueue, NewRow, Row, Status, ConductorInv,
       ScalarTypes, This
  <2>2. entries' \in Seq(Row(begun)) /\ Len(entries') = Len(entries) + 1
        /\ entries'[Len(entries) + 1] = NewRow
        /\ \A i \in 1..Len(entries) : entries'[i] = entries[i]
    BY <1>0, <1>5, <2>1, AppendProperties DEF Enqueues
  <2>3. QED
    BY <1>0, <1>3, <1>5, <2>2
<1>6. ASSUME NEW i \in 1..Len(entries), NEW st \in Status, Mark(i, st)
      PROVE  /\ entries' \in Seq(Row(begun'))
             /\ \A j \in 1..Len(entries) : /\ entries'[j].session = entries[j].session
                                           /\ entries'[j].repo = entries[j].repo
             /\ Len(entries') = Len(entries)
  BY <1>0, <1>1, <1>3, <1>6, MarkStep
<1>7. CASE GateAnswers
  <2>1. gate.entry \in 1..Len(entries) /\ "judged" \in Status /\ Mark(gate.entry, "judged")
    BY <1>0, <1>7 DEF GateAnswers, Status
  <2>2. PICK e : e = gate.entry
    OBVIOUS
  <2>3. e \in 1..Len(entries) /\ Mark(e, "judged")
    BY <2>1, <2>2 DEF Mark
  <2>4. QED
    BY <1>0, <1>6, <2>1, <2>3
<1>8. CASE Takes
  BY <1>0, <1>6, <1>8 DEF Status, Takes
<1>9. QED
  BY <1>4, <1>5, <1>7, <1>8, EntriesMove

\* Which version a commit may hold.
LEMMA HistoryMove ==
  ASSUME [Next]_vars
  PROVE  \/ history' = history
         \/ \E r \in Repos, i \in 1..Len(entries) :
              /\ entries[i].repo = r /\ tree[r] # HeadOf(r)
              /\ history' = [history EXCEPT ![r] = Append(@, [by |-> entries[i].session,
                                                              holds |-> tree[r]])]
              /\ UNCHANGED <<tree, manifest, begun>>
<1>1. ASSUME NEW r \in Repos, Land(r)
      PROVE  \/ history' = history
             \/ \E i \in 1..Len(entries) :
                  /\ entries[i].repo = r /\ tree[r] # HeadOf(r)
                  /\ history' = [history EXCEPT ![r] = Append(@, [by |-> entries[i].session,
                                                                  holds |-> tree[r]])]
                  /\ UNCHANGED <<tree, manifest, begun>>
  BY <1>1 DEF Land, IsNext, conductor, disk
<1>2. CASE GateStarts \/ GateReadsLatest \/ GateReadsPrevious \/ GateScores \/ GateAnswers
           \/ UNCHANGED vars
  BY <1>2 DEF GateStarts, GateReadsLatest, GateReadsPrevious, GateScores, GateAnswers, vars, queue
<1>3. CASE BeginSession \/ Resume \/ Prime \/ Distribute \/ Work \/ Copy \/ AdvanceSession
           \/ TruncateFile \/ FillFile \/ TruncateIndex \/ PointIndex \/ Enqueue \/ Teardown
           \/ Leave
  BY <1>3 DEF BeginSession, Resume, Prime, Distribute, Work, Copy, AdvanceSession, TruncateFile,
     FillFile, TruncateIndex, PointIndex, Enqueue, Teardown, Leave, queue
<1>4. QED
  BY <1>1, <1>2, <1>3 DEF Next, RunSession, CommitSession, Gate

\* A commit's entry and version are sessions that were begun.
LEMMA HistoryTypes ==
  ASSUME Types, ForwardInv, [Next]_vars
  PROVE  (history \in [Repos -> Seq(Record(begun))])'
<1>0. /\ ScalarTypes /\ entries \in Seq(Row(begun)) /\ history \in [Repos -> Seq(Record(begun))]
  BY DEF Types, TypeOK, ScalarTypes, Row, Status, Record
<1>1. begun \in Nat /\ begun' \in Nat /\ begun' >= begun
  BY <1>0, CommitAssumption, BegunGrows DEF ScalarTypes
<1>2. Record(begun) \subseteq Record(begun')
  BY <1>1 DEF Record
<1>3. Seq(Record(begun)) \subseteq Seq(Record(begun'))
  BY <1>2, SeqMonotonic
<1>4. CASE history' = history
  BY <1>0, <1>3, <1>4
<1>5. ASSUME NEW r \in Repos, NEW i \in 1..Len(entries), entries[i].repo = r,
             history' = [history EXCEPT ![r] = Append(@, [by |-> entries[i].session,
                                                          holds |-> tree[r]])]
      PROVE  history' \in [Repos -> Seq(Record(begun))]
  <2>1. entries[i] \in Row(begun)
    BY <1>0, ElementOfSeq
  <2>2. tree[r] \in 0..begun /\ entries[i].session \in 1..begun /\ entries[i].session <= tree[r]
    BY <1>0, <1>5, <2>1 DEF ScalarTypes, Row, ForwardInv
  <2>3. [by |-> entries[i].session, holds |-> tree[r]] \in Record(begun)
    BY <1>1, <2>2 DEF Record
  <2>4. Append(history[r], [by |-> entries[i].session, holds |-> tree[r]]) \in Seq(Record(begun))
    BY <1>0, <2>3, AppendProperties
  <2>5. QED
    BY <1>0, <1>5, <2>4
<1>6. QED
  BY <1>3, <1>4, <1>5, HistoryMove

\* What the gate loads it loads from a session that has the module.
LEMMA LoadIs ==
  ASSUME Types, NEW m, NEW p, p \in 0..begun, NEW s \in Load(p, m)
  PROVE  s \in Sessions /\ m \in file[s].modules
<1>0. begun \in 0..MaxSessions /\ MaxSessions \in Nat
  BY CommitAssumption DEF Types, TypeOK
<1>1. CASE m \in FileOf(p).modules
  BY <1>0, <1>1 DEF Load, FileOf, NoFile, Sessions
<1>2. CASE m \notin FileOf(p).modules
  BY <1>2 DEF Load, Scan
<1>3. QED
  BY <1>1, <1>2

\* The gate stays at an entry that waits for it, whatever the queue does meanwhile.
LEMMA GateStep ==
  ASSUME Types, ConductorInv, [Next]_vars
  PROVE  GateAt'
<1>0. /\ GateAt /\ entries \in Seq(Row(begun)) /\ begun \in Nat /\ Len(entries) \in Nat
      /\ {index, rotated} \subseteq Pointers(begun) /\ file \in Files /\ MaxSessions \in Nat
      /\ index.latest \in 0..begun /\ index.previous \in 0..begun
  BY CommitAssumption, LenProperties
     DEF Types, TypeOK, GateAt, Row, Status, Pointers, Files
<1>1. Sessions \subseteq 0..MaxSessions /\ 0 \in 0..MaxSessions
  BY <1>0 DEF Sessions
<1>2. CASE GateStarts
  <2>1. UNCHANGED entries
    BY <1>2 DEF GateStarts, queue
  <2>2. FileOf(index.latest).modules \in SUBSET Modules
    BY <1>0 DEF FileOf, NoFile, Files, Sessions, Types, TypeOK
  <2>3. PICK i \in 1..Len(entries) :
          /\ entries[i].status = "gates"
          /\ gate' = [Idle EXCEPT !.entry = i, !.todo = FileOf(index.latest).modules]
    BY <1>2 DEF GateStarts
  <2>4. gate' = [entry |-> i, step |-> "latest", todo |-> FileOf(index.latest).modules,
                 module |-> {}, current |-> 0, previous |-> 0]
    BY <2>3 DEF Idle
  <2>5. i \in Nat /\ 0 \in 0..MaxSessions
    BY <1>0, <1>1
  <2>6. gate' \in GateRuns /\ gate'.entry = i
    BY <2>2, <2>4, <2>5 DEF GateRuns
  <2>7. QED
    BY <1>0, <2>1, <2>3, <2>5, <2>6 DEF GateAt
<1>3. CASE GateReadsLatest
  <2>1. UNCHANGED entries /\ gate.entry # 0
    BY <1>3 DEF GateReadsLatest, queue
  <2>2. PICK m \in gate.todo :
       \/ \E s \in Load(index.latest, m) :
            gate' = [gate EXCEPT !.step = "previous", !.todo = @ \ {m}, !.module = {m},
                                 !.current = s]
       \/ /\ Load(index.latest, m) = {}
          /\ gate' = [gate EXCEPT !.todo = @ \ {m}]
    BY <1>3 DEF GateReadsLatest
  <2>3. m \in Modules /\ \A s \in Load(index.latest, m) : s \in 0..MaxSessions
    BY <1>0, <1>1, LoadIs DEF GateAt, GateRuns
  <2>4. gate \in GateRuns /\ gate.todo \ {m} \in SUBSET Modules /\ {m} \in SUBSET Modules
    BY <1>0, <2>3 DEF GateAt, GateRuns
  <2>5. ASSUME \E s \in Load(index.latest, m) :
                 gate' = [gate EXCEPT !.step = "previous", !.todo = @ \ {m}, !.module = {m},
                                      !.current = s]
        PROVE  gate' \in GateRuns /\ gate'.entry = gate.entry
    <3>1. PICK s \in 0..MaxSessions :
               gate' = [gate EXCEPT !.step = "previous", !.todo = @ \ {m}, !.module = {m},
                                    !.current = s]
      BY <2>3, <2>5
    <3>2. QED
      BY <2>4, <3>1 DEF GateRuns
  <2>6. ASSUME gate' = [gate EXCEPT !.todo = @ \ {m}]
        PROVE  gate' \in GateRuns /\ gate'.entry = gate.entry
    BY <2>4, <2>6 DEF GateRuns
  <2>7. gate' \in GateRuns /\ gate'.entry = gate.entry
    BY <2>2, <2>5, <2>6
  <2>8. QED
    BY <1>0, <2>1, <2>7 DEF GateAt
<1>4. CASE GateReadsPrevious
  <2>0. UNCHANGED entries /\ gate.step = "previous"
    BY <1>4 DEF GateReadsPrevious, queue
  <2>1. UNCHANGED entries /\ gate.entry # 0
    BY <1>0, <2>0 DEF GateAt, Idle
  <2>2. PICK m \in gate.module :
       \/ \E s \in Load(index.previous, m) :
            gate' = [gate EXCEPT !.step = "score", !.previous = s]
       \/ /\ Load(index.previous, m) = {}
          /\ gate' = [gate EXCEPT !.step = "score", !.previous = 0]
    BY <1>4 DEF GateReadsPrevious
  <2>3. \A s \in Load(index.previous, m) : s \in 0..MaxSessions
    BY <1>0, <1>1, LoadIs
  <2>4. gate' \in GateRuns /\ gate'.entry = gate.entry
    BY <1>0, <1>1, <2>2, <2>3 DEF GateAt, GateRuns
  <2>5. QED
    BY <1>0, <2>1, <2>4 DEF GateAt
<1>5. CASE GateScores
  <2>1. UNCHANGED entries /\ gate.entry # 0
    BY <1>0, <1>5 DEF GateScores, queue, GateAt, Idle
  <2>2. gate' = [gate EXCEPT !.step = "latest", !.module = {}, !.current = 0, !.previous = 0]
    BY <1>5 DEF GateScores
  <2>3. gate' \in GateRuns /\ gate'.entry = gate.entry
    BY <1>0, <1>1, <2>2 DEF GateAt, GateRuns
  <2>4. QED
    BY <1>0, <2>1, <2>3 DEF GateAt
<1>6. CASE GateAnswers
  <2>1. gate' = Idle /\ Idle \in GateRuns
    BY <1>1, <1>6 DEF GateAnswers, GateRuns, Idle
  <2>2. QED
    BY <2>1 DEF GateAt, Idle
<1>7. CASE UNCHANGED gate
  <2>0. SUFFICES ASSUME gate.entry # 0
                 PROVE  gate.entry \in 1..Len(entries') /\ entries'[gate.entry].status = "gates"
    BY <1>0, <1>7 DEF GateAt
  <2>1. PICK e : e = gate.entry
    OBVIOUS
  <2>2. e \in 1..Len(entries) /\ entries[e].status = "gates"
    BY <1>0, <2>0, <2>1 DEF GateAt
  <2>3. CASE entries' = entries
    BY <2>1, <2>2, <2>3
  <2>4. CASE Enqueues
    <3>1. Len(entries') = Len(entries) + 1
      BY <1>0, <2>4, EntriesStep DEF Enqueues, NewRow
    <3>2. entries'[e] = entries[e]
      BY <1>0, <2>2, <2>4 DEF Enqueues
    <3>3. QED
      BY <1>0, <2>1, <2>2, <3>1, <3>2
  <2>5. ASSUME NEW i \in 1..Len(entries), entries[i].status = "pending",
               NEW st \in Status, Mark(i, st)
        PROVE  e \in 1..Len(entries') /\ entries'[e].status = "gates"
    BY <1>0, <2>2, <2>5, MarkStep
  <2>6. CASE Takes
    BY <2>1, <2>5, <2>6 DEF Status, Takes
  <2>7. CASE GateAnswers
    BY <1>7, <2>0, <2>7 DEF GateAnswers, Idle
  <2>8. QED
    BY <2>3, <2>4, <2>6, <2>7, EntriesMove
<1>8. ASSUME NEW r \in Repos, Land(r)
      PROVE  UNCHANGED gate
  BY <1>8 DEF Land
<1>9. CASE BeginSession \/ Resume \/ RunSession \/ Leave \/ UNCHANGED vars
  <2>1. UNCHANGED gate
    BY <1>9 DEF BeginSession, Resume, RunSession, CommitSession, Prime, Distribute, Work, Copy,
       AdvanceSession, TruncateFile, FillFile, TruncateIndex, PointIndex, Enqueue, Teardown,
       Leave, vars
  <2>2. QED
    BY <1>7, <2>1
<1>10. QED
  BY <1>2, <1>3, <1>4, <1>5, <1>6, <1>7, <1>8, <1>9 DEF Next, Gate

\* Types is inductive.
LEMMA TypesStep ==
  ASSUME Types, ConductorInv, ForwardInv, [Next]_vars
  PROVE  Types'
<1>1. ScalarTypes' /\ GateAt' /\ resume' \in BOOLEAN /\ priming' \in BOOLEAN
  BY ScalarStep, GateStep, BoolStep DEF Types, TypeOK
<1>2. entries' \in Seq(Row(begun'))
  BY EntriesStep
<1>3. {index, rotated}' \subseteq Pointers(begun)' /\ (file \in Files)'
  BY StoreTypes
<1>4. (history \in [Repos -> Seq(Record(begun))])'
  BY HistoryTypes
<1>5. QED
  BY <1>1, <1>2, <1>3, <1>4
     DEF Types, TypeOK, ScalarTypes, GateAt, Row, Status, Pointers, Files, Record

\* No copy takes a repository back, and the manifest moves on with its sessions.
LEMMA TreeGrows ==
  ASSUME Types, ConductorInv, ForwardInv, [Next]_vars
  PROVE  \A r \in Repos : tree'[r] >= tree[r] /\ tree'[r] <= manifest'
<1>0. /\ ScalarTypes /\ \A r \in Repos : tree[r] <= manifest /\ tree[r] \in Nat /\ manifest \in Nat
      /\ session \in Nat
  BY CommitAssumption DEF Types, TypeOK, ScalarTypes, ForwardInv
<1>1. CASE Copy
  <2>1. manifest = session /\ manifest' = manifest
    BY <1>1 DEF Copy, disk, ConductorInv, Saved
  <2>2. tree' = [tree EXCEPT ![This] = session] \/ tree' = tree
    BY <1>1, Zenon DEF Copy
  <2>3. QED
    BY <1>0, <2>1, <2>2 DEF ScalarTypes
<1>2. CASE Distribute
  <2>1. tree' = tree /\ (manifest' = manifest \/ manifest' = session)
    BY <1>2 DEF Distribute
  <2>2. manifest <= session
    <3>1. at = "distribute" /\ manifest \in Nat
      BY <1>0, <1>2, CommitAssumption DEF Distribute, ScalarTypes
    <3>2. manifest = session \/ manifest < session
      BY <3>1 DEF ConductorInv
    <3>3. QED
      BY <1>0, <3>1, <3>2
  <2>3. QED
    BY <1>0, <2>1, <2>2
<1>3. CASE ~Copy /\ ~Distribute
  <2>0. ASSUME BeginSession \/ Resume \/ Prime \/ Work \/ AdvanceSession \/ Enqueue \/ Teardown
               \/ Leave
        PROVE  UNCHANGED <<tree, manifest>>
    <3>1. CASE BeginSession \/ Resume \/ Prime \/ AdvanceSession \/ Leave
      BY <3>1 DEF BeginSession, Resume, Prime, AdvanceSession, Leave, disk
    <3>2. CASE Work \/ Teardown
      BY <3>2 DEF Work, Teardown
    <3>3. CASE Enqueue
      BY <3>3, Zenon DEF Enqueue, disk
    <3>4. QED
      BY <2>0, <3>1, <3>2, <3>3
  <2>1. ASSUME TruncateFile \/ FillFile \/ TruncateIndex \/ PointIndex
        PROVE  UNCHANGED <<tree, manifest>>
    BY <2>1 DEF TruncateFile, FillFile, TruncateIndex, PointIndex, disk
  <2>2. UNCHANGED <<tree, manifest>>
    BY <1>3, <2>0, <2>1, OthersStep DEF Next, RunSession, CommitSession
  <2>3. QED
    BY <1>0, <2>2
<1>4. QED
  BY <1>1, <1>2, <1>3

\* The commit of a session is entered by its copy only.
LEMMA CommittingFrom ==
  ASSUME Types, ConductorInv, [Next]_vars, Committing'
  PROVE  /\ UNCHANGED <<session, staged>>
         /\ \/ Committing /\ UNCHANGED tree
            \/ Copy /\ at' = "advance" /\ turn = Len(RepoOrder)
<1> USE DEF Committing, Storing
<1>0. turn \in 1..Len(RepoOrder) /\ Len(RepoOrder) \in Nat
  BY RepoOrderIs DEF Types, TypeOK
<1>1. CASE (\E r \in Repos : Land(r)) \/ Gate \/ UNCHANGED vars
  BY <1>1, OthersStep
<1>2. CASE BeginSession \/ Resume \/ Work \/ Leave \/ Distribute
  BY <1>2 DEF BeginSession, Resume, Work, Leave, Distribute
<1>3. CASE Prime
  BY <1>3 DEF Prime
<1>4. CASE Copy
  BY <1>0, <1>4 DEF Copy, Advance, disk
<1>5. CASE AdvanceSession
  BY <1>5 DEF AdvanceSession, disk
<1>6. CASE TruncateFile
  BY <1>6 DEF TruncateFile, disk
<1>7. CASE FillFile
  BY <1>7 DEF FillFile, disk
<1>8. CASE TruncateIndex
  BY <1>8 DEF TruncateIndex, disk
<1>9. CASE PointIndex
  BY <1>9 DEF PointIndex, disk
<1>10. CASE Enqueue
  BY <1>10 DEF Enqueue, Advance, disk
<1>11. CASE Teardown
  BY <1>11 DEF Teardown, disk
<1> HIDE DEF Committing, Storing
<1>12. QED
  BY <1>1, <1>2, <1>3, <1>4, <1>5, <1>6, <1>7, <1>8, <1>9, <1>10, <1>11
     DEF Next, RunSession, CommitSession

\* ForwardInv is inductive.
LEMMA ForwardStep ==
  ASSUME Types, ConductorInv, ForwardInv, [Next]_vars
  PROVE  ForwardInv'
<1>0. /\ ScalarTypes /\ history \in [Repos -> Seq(Record(begun))] /\ entries \in Seq(Row(begun))
      /\ begun \in Nat /\ session \in Nat /\ Len(RepoOrder) \in Nat
  <2>1. ScalarTypes
    BY DEF Types, TypeOK, ScalarTypes
  <2>2. begun \in Nat /\ session \in Nat /\ Len(RepoOrder) \in Nat
    BY <2>1, CommitAssumption, RepoOrderIs DEF ScalarTypes
  <2>3. history \in [Repos -> Seq(Record(begun))] /\ entries \in Seq(Row(begun))
    BY DEF Types, TypeOK, Row, Status, Record
  <2>4. QED
    BY <2>1, <2>2, <2>3
<1>1. \A r \in Repos : /\ tree'[r] >= tree[r] /\ tree'[r] <= manifest'
                       /\ tree[r] \in Nat /\ tree'[r] \in Nat
  <2>0. begun' \in Nat
    BY <1>0, BegunGrows
  <2>1. tree \in [Repos -> 0..begun] /\ tree' \in [Repos -> 0..(begun')]
    BY <1>0, ScalarStep DEF ScalarTypes
  <2>2. QED
    BY <1>0, <2>0, <2>1, TreeGrows
<1>2. \A r \in Repos : \A i \in 1..Len(history'[r]) : history'[r][i].holds <= tree'[r]
  <2>1. CASE history' = history
    <3>1. SUFFICES ASSUME NEW r \in Repos, NEW i \in 1..Len(history[r])
                   PROVE  history[r][i].holds <= tree'[r]
      BY <2>1
    <3>2. history[r][i].holds <= tree[r] /\ history[r][i] \in Record(begun)
      BY <1>0, ElementOfSeq DEF ForwardInv
    <3>3. QED
      BY <1>0, <1>1, <3>2 DEF Record
  <2>2. ASSUME NEW q \in Repos, NEW e \in 1..Len(entries),
               history' = [history EXCEPT ![q] = Append(@, [by |-> entries[e].session,
                                                            holds |-> tree[q]])],
               UNCHANGED tree
        PROVE  \A r \in Repos : \A i \in 1..Len(history'[r]) : history'[r][i].holds <= tree'[r]
    <3>1. SUFFICES ASSUME NEW i \in 1..Len(history'[q])
                   PROVE  history'[q][i].holds <= tree[q]
      BY <1>0, <2>2 DEF ForwardInv
    <3>2. history'[q] = Append(history[q], [by |-> entries[e].session, holds |-> tree[q]])
      BY <1>0, <2>2
    <3>3. Len(history[q]) \in Nat /\ Len(history'[q]) = Len(history[q]) + 1
          /\ (i <= Len(history[q]) => history'[q][i] = history[q][i])
          /\ history'[q][Len(history[q]) + 1] = [by |-> entries[e].session, holds |-> tree[q]]
      BY <1>0, <3>2
    <3>4. CASE i <= Len(history[q])
      BY <3>1, <3>3, <3>4 DEF ForwardInv
    <3>5. CASE i = Len(history[q]) + 1
      BY <1>1, <3>3, <3>5
    <3>6. QED
      BY <3>3, <3>4, <3>5
  <2>3. QED
    BY <2>1, <2>2, HistoryMove
<1>3. \A i \in 1..Len(entries') : entries'[i].session <= tree'[entries'[i].repo]
  <2>1. SUFFICES ASSUME NEW i \in 1..Len(entries')
                 PROVE  entries'[i].session <= tree'[entries'[i].repo]
    OBVIOUS
  <2>2. CASE i \in 1..Len(entries)
    <3>1. entries'[i].session = entries[i].session /\ entries'[i].repo = entries[i].repo
      BY <2>2, EntriesStep
    <3>2. entries[i] \in Row(begun)
      BY <1>0, <2>2, ElementOfSeq
    <3>3. PICK r \in Repos : r = entries[i].repo
      BY <3>2 DEF Row
    <3>4. entries[i].session <= tree[r] /\ entries[i].session \in Nat
      BY <1>0, <2>2, <3>2, <3>3 DEF ForwardInv, Row
    <3>5. QED
      BY <1>1, <3>1, <3>3, <3>4
  <2>3. CASE i \notin 1..Len(entries)
    <3>1. Enqueues /\ i = Len(entries) + 1 /\ entries'[i] = NewRow
      BY <2>1, <2>3, EntriesStep
    <3>2. PICK r \in Repos : r = This
      BY <1>0, RepoOrderIs DEF This, ScalarTypes
    <3>3. tree[r] >= session
      BY <3>1, <3>2 DEF Enqueues, Enqueue, ForwardInv, Committing
    <3>4. QED
      BY <1>0, <1>1, <3>1, <3>2, <3>3 DEF NewRow
  <2>4. QED
    BY <2>2, <2>3
<1>4. ASSUME Copy, NEW i \in 1..Len(RepoOrder), i <= turn, RepoOrder[i] \in staged[session]
      PROVE  tree'[RepoOrder[i]] >= session
  <2>1. PICK r \in Repos : r = RepoOrder[i]
    BY RepoOrderIs
  <2>2. CASE i = turn
    <3>1. tree' = [tree EXCEPT ![r] = session]
      BY <1>4, <2>1, <2>2 DEF Copy, This
    <3>2. QED
      BY <1>0, <2>1, <3>1 DEF ScalarTypes
  <2>3. CASE i < turn
    <3>1. tree[r] >= session
      <4>1. at = "copy" /\ i \in 1..(turn - 1)
        BY <1>0, <1>4, <2>3 DEF Copy, ScalarTypes
      <4>2. QED
        BY <1>4, <2>1, <4>1 DEF ForwardInv
    <3>2. QED
      BY <1>0, <1>1, <2>1, <3>1
  <2>4. QED
    BY <1>0, <1>4, <2>2, <2>3 DEF ScalarTypes
<1>5. Committing' => \A r \in staged'[session'] : tree'[r] >= session'
  <2>1. SUFFICES ASSUME Committing', NEW r \in staged'[session']
                 PROVE  tree'[r] >= session'
    BY Zenon
  <2>2. UNCHANGED <<session, staged>> /\ r \in staged[session]
    BY <2>1, CommittingFrom
  <2>3. CASE Committing /\ UNCHANGED tree
    BY <2>2, <2>3 DEF ForwardInv
  <2>4. CASE Copy /\ turn = Len(RepoOrder)
    <3>1. session \in Sessions /\ r \in Repos
      BY <1>0, <2>2, <2>4, CommitAssumption DEF Copy, ConductorInv, ScalarTypes, Sessions
    <3>2. PICK i \in 1..Len(RepoOrder) : RepoOrder[i] = r
      BY <3>1, RepoOrderIs
    <3>3. QED
      BY <1>0, <1>4, <2>2, <2>4, <3>2
  <2>5. QED
    BY <2>1, <2>3, <2>4, CommittingFrom
<1>6. at' = "copy" => \A i \in 1..(turn' - 1) :
                        RepoOrder[i] \in staged'[session'] => tree'[RepoOrder[i]] >= session'
  <2>1. SUFFICES ASSUME at' = "copy", NEW i \in 1..(turn' - 1), RepoOrder[i] \in staged'[session']
                 PROVE  tree'[RepoOrder[i]] >= session'
    OBVIOUS
  <2>2. CASE Work
    BY <2>1, <2>2 DEF Work
  <2>3. CASE Copy
    <3>1. turn' = turn + 1 /\ turn < Len(RepoOrder) /\ UNCHANGED <<session, staged>>
      BY <1>0, <2>1, <2>3 DEF Copy, Advance, disk
    <3>2. i \in 1..Len(RepoOrder) /\ i <= turn
      BY <1>0, <2>1, <3>1 DEF ScalarTypes
    <3>3. QED
      BY <1>4, <2>1, <2>3, <3>1, <3>2
  <2>4. CASE ~Work /\ ~Copy
    <3>1. at = "copy" /\ UNCHANGED <<session, staged, turn, tree>>
      BY <2>1, <2>4, OthersStep DEF Next, RunSession, CommitSession, BeginSession, Resume, Prime,
         Distribute, AdvanceSession, TruncateFile, FillFile, TruncateIndex, PointIndex, Enqueue,
         Advance, Teardown, Leave, disk
    <3>2. QED
      BY <2>1, <3>1 DEF ForwardInv
  <2>5. QED
    BY <2>2, <2>3, <2>4
<1>7. QED
  BY <1>1, <1>2, <1>3, <1>5, <1>6 DEF ForwardInv

\* A commit takes a version above all that the history holds: the worktree's, which is not
\* the one at HEAD.
LEMMA HistoryStep ==
  ASSUME Types, ForwardInv, HistoryMovesForward, [Next]_vars
  PROVE  HistoryMovesForward'
<1>0. history \in [Repos -> Seq(Record(begun))] /\ entries \in Seq(Row(begun))
      /\ tree \in [Repos -> 0..begun] /\ begun \in Nat
  BY TypesAre DEF ScalarTypes
<1>1. CASE history' = history
  BY <1>1 DEF HistoryMovesForward
<1>2. ASSUME NEW q \in Repos, NEW e \in 1..Len(entries), entries[e].repo = q, tree[q] # HeadOf(q),
             history' = [history EXCEPT ![q] = Append(@, [by |-> entries[e].session,
                                                          holds |-> tree[q]])]
      PROVE  HistoryMovesForward'
  <2> DEFINE h == history[q]
             n == history'[q]
             new == [by |-> entries[e].session, holds |-> tree[q]]
  <2>1. h \in Seq(Record(begun)) /\ n = Append(h, new)
    <3>1. history \in [Repos -> Seq(Record(begun))]
      BY <1>0
    <3>2. QED
      BY <1>2, <3>1
  <2>2. Len(h) \in Nat /\ Len(n) = Len(h) + 1 /\ n[Len(h) + 1] = new
        /\ \A i \in 1..Len(h) : n[i] = h[i]
    BY <2>1, AppendProperties, LenProperties
  <2>3. \A i \in 1..Len(h) : h[i] \in Record(begun) /\ h[i].holds \in Nat
    <3>1. \A i \in 1..Len(h) : h[i] \in Record(begun)
      BY <2>1, ElementOfSeq
    <3>2. \A x \in Record(begun) : x.holds \in Nat
      BY <1>0 DEF Record
    <3>3. QED
      BY <3>1, <3>2
  <2>4. \A i \in 1..Len(h) : h[i].holds < tree[q]
    <3>1. SUFFICES ASSUME NEW i \in 1..Len(h)
                   PROVE  h[i].holds < tree[q]
      OBVIOUS
    <3>2. h[Len(h)].holds <= tree[q] /\ h[Len(h)].holds # tree[q]
      <4>1. Len(h) \in 1..Len(h) /\ h # <<>>
        BY <2>2, <3>1
      <4>2. h[Len(h)].holds = HeadOf(q)
        BY <4>1 DEF HeadOf
      <4>3. QED
        BY <1>2, <4>1, <4>2 DEF ForwardInv
    <3>3. i = Len(h) \/ h[i].holds < h[Len(h)].holds
      BY <2>2, <3>1 DEF HistoryMovesForward
    <3>4. tree[q] \in Nat /\ h[i].holds \in Nat /\ h[Len(h)].holds \in Nat
      BY <1>0, <2>2, <2>3, <3>1
    <3>5. QED
      BY <3>2, <3>3, <3>4
  <2>5. new.by <= new.holds
    <3>1. entries[e].session <= tree[q]
      BY <1>2 DEF ForwardInv
    <3>2. QED
      BY <3>1
  <2>6. \A i, j \in 1..Len(n) : i < j => n[i].holds < n[j].holds
    <3>1. SUFFICES ASSUME NEW i \in 1..Len(n), NEW j \in 1..Len(n), i < j
                   PROVE  n[i].holds < n[j].holds
      OBVIOUS
    <3>2. i \in 1..Len(h) /\ n[i] = h[i]
      BY <2>2, <3>1
    <3>3. CASE j \in 1..Len(h)
      BY <2>2, <3>1, <3>2, <3>3 DEF HistoryMovesForward
    <3>4. CASE j = Len(h) + 1
      BY <2>2, <2>4, <3>2, <3>4
    <3>5. QED
      BY <2>2, <3>1, <3>3, <3>4
  <2>7. \A i \in 1..Len(n) : n[i].by <= n[i].holds
    <3>1. SUFFICES ASSUME NEW i \in 1..Len(n)
                   PROVE  n[i].by <= n[i].holds
      OBVIOUS
    <3>2. CASE i \in 1..Len(h)
      BY <2>2, <3>2 DEF HistoryMovesForward
    <3>3. CASE i = Len(h) + 1
      BY <2>2, <2>5, <3>3
    <3>4. QED
      BY <2>2, <3>1, <3>2, <3>3
  <2>8. \A r \in Repos : r # q => history'[r] = history[r]
    BY <1>0, <1>2
  <2>9. QED
    BY <2>6, <2>7, <2>8 DEF HistoryMovesForward
<1>3. QED
  BY <1>1, <1>2, HistoryMove

\* An entry that is in the queue stays there, whatever becomes of it.
LEMMA QueuedStays ==
  ASSUME Types, ConductorInv, [Next]_vars, NEW s, NEW r, Queued(s, r)
  PROVE  Queued(s, r)'
<1>1. PICK i \in 1..Len(entries) : entries[i].session = s /\ entries[i].repo = r
  BY DEF Queued
<1>2. i \in 1..Len(entries') /\ entries'[i].session = s /\ entries'[i].repo = r
  BY <1>1, EntriesStep
<1>3. QED
  BY <1>2 DEF Queued

\* The conductor's entry is in the queue when enqueue() returns.
LEMMA EnqueueQueues ==
  ASSUME Types, [Next]_vars, Enqueue, This \in staged[session],
         NEW s, s = session, NEW r, r = This
  PROVE  Queued(s, r)'
<1>1. entries \in Seq(Row(begun)) /\ entries' = Append(entries, NewRow) /\ Len(entries) \in Nat
  BY TypesAre DEF Enqueue, NewRow
<1>2. Len(entries') = Len(entries) + 1 /\ entries'[Len(entries) + 1] = NewRow
  BY <1>1, AppendProperties, LenProperties
<1>3. Len(entries) + 1 \in 1..Len(entries') /\ NewRow.session = s /\ NewRow.repo = r
  BY <1>1, <1>2 DEF NewRow
<1>4. QED
  BY <1>2, <1>3 DEF Queued

\* QueuedInv is inductive.
LEMMA QueuedStep ==
  ASSUME Types, ConductorInv, QueuedInv, [Next]_vars
  PROVE  QueuedInv'
<1>0. /\ turn \in 1..Len(RepoOrder) /\ Len(RepoOrder) \in Nat /\ Len(RepoOrder) >= 1
      /\ staged \in [Sessions -> SUBSET Repos]
  BY TypesAre, RepoOrderIs DEF ScalarTypes
<1>1. CASE Enqueue
  <2>1. at = "enqueue" /\ UNCHANGED <<session, staged>>
    BY <1>1 DEF Enqueue, disk
  <2>2. session \in Sessions
    BY <2>1, TypesAre, CommitAssumption DEF ConductorInv, ScalarTypes, Sessions
  <2>3. PICK s : s = session
    OBVIOUS
  <2>4. ASSUME NEW i \in 1..turn, RepoOrder[i] \in staged[s]
        PROVE  Queued(s, RepoOrder[i])'
    <3>1. CASE i = turn
      BY <1>1, <2>3, <2>4, <3>1, EnqueueQueues DEF This
    <3>2. CASE i # turn
      <4>1. i \in 1..(turn - 1)
        BY <1>0, <3>2
      <4>2. Queued(s, RepoOrder[i])
        BY <2>1, <2>3, <2>4, <4>1 DEF QueuedInv
      <4>3. QED
        BY <4>2, QueuedStays
    <3>3. QED
      BY <3>1, <3>2
  <2>5. CASE turn < Len(RepoOrder)
    <3>1. at' = "enqueue" /\ turn' = turn + 1
      BY <1>1, <2>1, <2>5 DEF Enqueue, Advance
    <3>2. \A i \in 1..(turn' - 1) : RepoOrder[i] \in staged[s] => Queued(s, RepoOrder[i])'
      BY <1>0, <2>4, <3>1
    <3>3. QED
      BY <2>1, <2>3, <3>1, <3>2 DEF QueuedInv, Queued
  <2>6. CASE turn = Len(RepoOrder)
    <3>1. at' = "teardown" /\ turn' = 1
      BY <1>0, <1>1, <2>1, <2>6 DEF Enqueue, Advance
    <3>2. \A r \in staged[s] : Queued(s, r)'
      <4>1. SUFFICES ASSUME NEW r \in staged[s]
                     PROVE  Queued(s, r)'
        OBVIOUS
      <4>2. PICK i \in 1..Len(RepoOrder) : r = RepoOrder[i]
        BY <1>0, <2>2, <2>3, RepoOrderIs
      <4>3. QED
        BY <2>4, <2>6, <4>2
    <3>3. QED
      BY <2>1, <2>3, <3>1, <3>2 DEF QueuedInv, Queued
  <2>7. QED
    BY <1>0, <2>5, <2>6
<1>2. ASSUME at' \notin {"copy", "enqueue", "teardown"}, turn' = 1
      PROVE  QueuedInv'
  BY <1>2 DEF QueuedInv
<1>3. CASE BeginSession \/ Resume
  BY <1>2, <1>3 DEF BeginSession, Resume, QueuedInv
<1>4. CASE Prime
  BY <1>2, <1>4 DEF Prime, QueuedInv
<1>5. CASE Distribute
  BY <1>2, <1>5 DEF Distribute, QueuedInv
<1>6. CASE Work
  BY <1>6 DEF Work, QueuedInv
<1>7. CASE Copy
  <2>0. at = "copy" /\ \E next \in {"off", "advance"} : Advance(next)
    <3>1. (IF staged[session] = {} THEN "off" ELSE "advance") \in {"off", "advance"}
      OBVIOUS
    <3>2. QED
      BY <1>7, <3>1, Zenon DEF Copy
  <2>1. at' = "copy" \/ (at' \in {"off", "advance"} /\ turn' = 1)
    BY <2>0 DEF Advance
  <2>2. QED
    BY <1>2, <2>1 DEF QueuedInv
<1>8. CASE AdvanceSession
  BY <1>2, <1>8 DEF AdvanceSession, QueuedInv
<1>9. CASE TruncateFile \/ FillFile \/ TruncateIndex
  BY <1>2, <1>9 DEF TruncateFile, FillFile, TruncateIndex, QueuedInv
<1>10. CASE PointIndex
  <2>1. turn' = 1 /\ at' \in {"distribute", "enqueue"}
    BY <1>10 DEF PointIndex, QueuedInv
  <2>2. QED
    BY <2>1 DEF QueuedInv
<1>11. CASE Teardown
  BY <1>2, <1>11 DEF Teardown, QueuedInv
<1>12. CASE Leave
  BY <1>2, <1>12 DEF Leave
<1>13. CASE (\E r \in Repos : Land(r)) \/ Gate \/ UNCHANGED vars
  <2>1. UNCHANGED <<at, session, staged, turn>>
    BY <1>13, OthersStep
  <2>2. PICK s : s = session
    OBVIOUS
  <2>3. ASSUME NEW r, Queued(s, r)
        PROVE  Queued(s, r)'
    BY <2>3, QueuedStays
  <2>4. at' = "enqueue" => \A i \in 1..(turn' - 1) :
                             RepoOrder[i] \in staged'[s] => Queued(s, RepoOrder[i])'
    BY <2>1, <2>2, <2>3 DEF QueuedInv
  <2>5. at' = "teardown" => \A r \in staged'[s] : Queued(s, r)'
    BY <2>1, <2>2, <2>3 DEF QueuedInv
  <2>6. QED
    BY <2>1, <2>2, <2>4, <2>5 DEF QueuedInv, Queued
<1>14. QED
  BY <1>1, <1>3, <1>4, <1>5, <1>6, <1>7, <1>8, <1>9, <1>10, <1>11, <1>12, <1>13
     DEF Next, RunSession, CommitSession

\* A staging area goes in the tear-down only, which finds every entry in the queue.
LEMMA GoneStep ==
  ASSUME Types, ConductorInv, QueuedInv, GoneMeansQueued, [Next]_vars
  PROVE  GoneMeansQueued'
<1>0. staged \in [Sessions -> SUBSET Repos]
  BY TypesAre DEF ScalarTypes
<1>1. SUFFICES ASSUME NEW s \in Sessions \ staging', NEW r \in staged'[s]
               PROVE  Queued(s, r)'
  BY DEF GoneMeansQueued, Queued
<1>2. ASSUME s \notin staging, r \in staged[s]
      PROVE  Queued(s, r)'
  <2>1. Queued(s, r)
    BY <1>2 DEF GoneMeansQueued, Queued
  <2>2. QED
    BY <2>1, QueuedStays
<1>3. CASE Distribute
  BY <1>1, <1>2, <1>3 DEF Distribute
<1>4. CASE Work
  <2>1. staging' = staging /\ session \in staging
    BY <1>4 DEF Work, ConductorInv, Saved
  <2>2. PICK more \in SUBSET Repos : staged' = [staged EXCEPT ![session] = @ \cup more]
    BY <1>4 DEF Work
  <2>3. staged'[s] = staged[s]
    BY <1>0, <1>1, <2>1, <2>2
  <2>4. QED
    BY <1>1, <1>2, <2>1, <2>3
<1>5. CASE Teardown
  <2>1. staging' = staging \ {session} /\ staged' = staged /\ at = "teardown"
    BY <1>5 DEF Teardown
  <2>2. CASE s = session
    <3>1. Queued(s, r)
      BY <1>1, <2>1, <2>2 DEF QueuedInv
    <3>2. QED
      BY <3>1, QueuedStays
  <2>3. QED
    BY <1>1, <1>2, <2>1, <2>2
<1>6. CASE BeginSession \/ Resume \/ Prime \/ Copy \/ AdvanceSession \/ Enqueue \/ Leave
  BY <1>1, <1>2, <1>6 DEF BeginSession, Resume, Prime, Copy, AdvanceSession, Enqueue, Leave, disk
<1>7. CASE TruncateFile \/ FillFile \/ TruncateIndex \/ PointIndex
  BY <1>1, <1>2, <1>7 DEF TruncateFile, FillFile, TruncateIndex, PointIndex, disk
<1>8. CASE (\E q \in Repos : Land(q)) \/ Gate \/ UNCHANGED vars
  BY <1>1, <1>2, <1>8, OthersStep
<1>9. QED
  BY <1>3, <1>4, <1>5, <1>6, <1>7, <1>8 DEF Next, RunSession, CommitSession

\* Entries are finitely many.
LEMMA EntriesOfFinite ==
  ASSUME Types, NEW s, NEW r
  PROVE  IsFiniteSet(EntriesOf(s, r)) /\ Cardinality(EntriesOf(s, r)) \in Nat
<1>1. IsFiniteSet(1..Len(entries))
  BY TypesAre, FS_Interval
<1>2. EntriesOf(s, r) \subseteq 1..Len(entries)
  BY DEF EntriesOf
<1>3. QED
  BY <1>1, <1>2, FS_Subset, FS_CardinalityType

\* An entry of another session or repository leaves the count as it was.
LEMMA EntriesOfStep ==
  ASSUME Types, ConductorInv, [Next]_vars, NEW s, NEW r
  PROVE  /\ IsFiniteSet(EntriesOf(s, r)) /\ IsFiniteSet(EntriesOf(s, r)')
         /\ \/ EntriesOf(s, r)' = EntriesOf(s, r)
            \/ /\ Enqueues /\ s = session /\ r = This
               /\ EntriesOf(s, r)' = EntriesOf(s, r) \cup {Len(entries) + 1}
<1>0. Len(entries) \in Nat
  BY TypesAre
<1>f. IsFiniteSet(EntriesOf(s, r))
  BY EntriesOfFinite
<1>1. \A i \in 1..Len(entries) : /\ entries'[i].session = entries[i].session
                                 /\ entries'[i].repo = entries[i].repo
  BY EntriesStep
<1>2. CASE Len(entries') = Len(entries)
  <2>1. EntriesOf(s, r)' = EntriesOf(s, r)
    BY <1>1, <1>2 DEF EntriesOf
  <2>3. QED
    BY <1>f, <2>1
<1>3. CASE Enqueues /\ Len(entries') = Len(entries) + 1 /\ entries'[Len(entries) + 1] = NewRow
  <2>1. EntriesOf(s, r)' = EntriesOf(s, r) \cup
                             (IF s = session /\ r = This THEN {Len(entries) + 1} ELSE {})
    <3>1. NewRow.session = session /\ NewRow.repo = This
      BY DEF NewRow
    <3>2. 1..Len(entries') = (1..Len(entries)) \cup {Len(entries) + 1}
      BY <1>0, <1>3
    <3>3. QED
      BY <1>0, <1>1, <1>3, <3>1, <3>2 DEF EntriesOf
  <2>3. CASE s = session /\ r = This
    <3>1. EntriesOf(s, r)' = EntriesOf(s, r) \cup {Len(entries) + 1}
      BY <2>1, <2>3
    <3>2. IsFiniteSet(EntriesOf(s, r)')
      BY <1>f, <3>1, FS_AddElement
    <3>3. QED
      BY <1>3, <1>f, <2>3, <3>1, <3>2
  <2>4. CASE ~(s = session /\ r = This)
    <3>1. EntriesOf(s, r)' = EntriesOf(s, r)
      BY <2>1, <2>4
    <3>2. QED
      BY <1>f, <3>1
  <2>5. QED
    BY <2>3, <2>4
<1>4. QED
  BY <1>2, <1>3, EntriesStep

\* Only a conductor that goes away undoes what was finished, and a fault is what it costs.
LEMMA FinishedStays ==
  ASSUME Types, ConductorInv, [Next]_vars, NEW s \in Sessions, NEW i \in 1..Len(RepoOrder)
  PROVE  /\ faults' \in {faults, faults + 1}
         /\ Finished(s, i) => Finished(s, i)' \/ faults' = faults + 1
<1>0. turn \in 1..Len(RepoOrder) /\ Len(RepoOrder) \in Nat /\ begun \in Nat /\ s \in Nat
      /\ manifest \in Nat /\ session \in 0..begun
  BY TypesAre, RepoOrderIs, CommitAssumption DEF ScalarTypes, Sessions
<1>1. CASE Leave
  BY <1>1 DEF Leave
<1>2. CASE BeginSession
  BY <1>0, <1>2 DEF BeginSession, Finished, disk
<1>3. CASE Resume
  BY <1>0, <1>3 DEF Resume, Finished, disk
<1>4. CASE Prime
  BY <1>4 DEF Prime, Finished, disk
<1>5. CASE Distribute
  BY <1>5 DEF Distribute, Finished
<1>6. CASE Work
  BY <1>6 DEF Work, Finished
<1>7. CASE Copy
  <2>1. at = "copy" /\ UNCHANGED <<session, staging, begun, faults>>
    BY <1>7 DEF Copy, disk
  <2>2. QED
    BY <2>1 DEF Finished
<1>8. CASE AdvanceSession
  BY <1>8 DEF AdvanceSession, Finished, disk
<1>9. CASE TruncateFile \/ FillFile \/ TruncateIndex
  BY <1>9 DEF TruncateFile, FillFile, TruncateIndex, Finished, disk
<1>10. CASE PointIndex
  BY <1>10 DEF PointIndex, Finished, disk
<1>11. CASE Enqueue
  <2>1. /\ at = "enqueue" /\ UNCHANGED <<session, staging, begun, faults>>
        /\ (turn' = turn + 1 /\ at' = at) \/ at' = "teardown"
    BY <1>11 DEF Enqueue, Advance, disk
  <2>2. QED
    BY <1>0, <2>1 DEF Finished
<1>12. CASE Teardown
  BY <1>0, <1>12 DEF Teardown, Finished
<1>13. CASE (\E r \in Repos : Land(r)) \/ Gate \/ UNCHANGED vars
  BY <1>13, OthersStep DEF Finished
<1>14. QED
  BY <1>1, <1>2, <1>3, <1>4, <1>5, <1>6, <1>7, <1>8, <1>9, <1>10, <1>11, <1>12, <1>13
     DEF Next, RunSession, CommitSession

\* RepeatInv is inductive.
LEMMA RepeatStep ==
  ASSUME Types, ConductorInv, RepeatInv, [Next]_vars
  PROVE  RepeatInv'
<1>1. SUFFICES ASSUME NEW s \in Sessions, NEW i \in 1..Len(RepoOrder)
               PROVE  Cardinality(EntriesOf(s, RepoOrder[i])') <=
                        faults' + (IF Finished(s, i)' THEN 1 ELSE 0)
  BY DEF RepeatInv, EntriesOf, Finished
<1>2. PICK r : r = RepoOrder[i]
  OBVIOUS
<1> DEFINE n == Cardinality(EntriesOf(s, r))
           m == Cardinality(EntriesOf(s, r)')
<1>3. n <= faults + (IF Finished(s, i) THEN 1 ELSE 0)
  BY <1>2 DEF RepeatInv
<1>4. IsFiniteSet(EntriesOf(s, r)) /\ n \in Nat /\ faults \in Nat
  BY EntriesOfStep, FS_CardinalityType, TypesAre
<1>5. /\ faults' \in {faults, faults + 1}
      /\ Finished(s, i) => Finished(s, i)' \/ faults' = faults + 1
  BY FinishedStays
<1>6. CASE EntriesOf(s, r)' = EntriesOf(s, r)
  <2>1. m = n
    BY <1>6
  <2> HIDE DEF m, n
  <2>2. m <= faults' + (IF Finished(s, i)' THEN 1 ELSE 0)
    <3>1. CASE faults' = faults + 1
      BY <1>3, <1>4, <2>1, <3>1
    <3>2. CASE faults' = faults /\ ~Finished(s, i)
      BY <1>3, <1>4, <2>1, <3>2
    <3>3. CASE faults' = faults /\ Finished(s, i) /\ Finished(s, i)'
      BY <1>3, <1>4, <2>1, <3>3
    <3>4. QED
      BY <1>5, <3>1, <3>2, <3>3
  <2>3. QED
    BY <1>2, <2>2 DEF m
<1>7. CASE /\ Enqueues /\ s = session /\ r = This
           /\ EntriesOf(s, r)' = EntriesOf(s, r) \cup {Len(entries) + 1}
  <2>1. m \in {n, n + 1}
    <3>1. m = IF Len(entries) + 1 \in EntriesOf(s, r) THEN n ELSE n + 1
      BY <1>4, <1>7, FS_AddElement
    <3>2. QED
      BY <3>1, Zenon
  <2>2. at = "enqueue" /\ turn \in 1..Len(RepoOrder) /\ UNCHANGED <<faults, session>>
        /\ ((turn' = turn + 1 /\ at' = at) \/ at' = "teardown")
    BY <1>7, TypesAre DEF Enqueues, Enqueue, Advance, ScalarTypes
  <2>3. i = turn
    BY <1>2, <1>7, <2>2, CommitAssumption DEF This
  <2>4. ~Finished(s, i)
    BY <1>7, <2>2, <2>3 DEF Finished
  <2>5. Finished(s, i)'
    BY <1>7, <2>2, <2>3, RepoOrderIs DEF Finished
  <2> HIDE DEF m, n
  <2>6. m <= faults' + (IF Finished(s, i)' THEN 1 ELSE 0)
    BY <1>3, <1>4, <2>1, <2>2, <2>4, <2>5
  <2>7. QED
    BY <1>2, <2>6 DEF m
<1>8. QED
  BY <1>6, <1>7, EntriesOfStep

\* The store's types in the form the proofs below use.
LEMMA StoreIs ==
  ASSUME Types
  PROVE  /\ index \in Pointers(begun) /\ rotated \in Pointers(begun) /\ file \in Files
         /\ index.latest \in 0..begun /\ index.previous \in 0..begun
         /\ rotated.latest \in 0..begun /\ rotated.previous \in 0..begun
         /\ counter \in Nat /\ \A s \in Sessions : file[s].sequence \in 0..counter
         /\ 1..begun \subseteq Sessions /\ Sessions \subseteq Nat
<1>1. index \in Pointers(begun) /\ rotated \in Pointers(begun) /\ file \in Files /\ counter \in Nat
  BY DEF Types, TypeOK, Pointers, Files
<1>2. begun \in 0..MaxSessions /\ MaxSessions \in Nat
  BY CommitAssumption DEF Types, TypeOK
<1>3. 1..begun \subseteq Sessions /\ Sessions \subseteq Nat
  BY <1>2 DEF Sessions
<1>4. \A s \in Sessions : file[s].sequence \in 0..counter
  BY <1>1 DEF Files
<1>5. \A p \in Pointers(begun) : p.latest \in 0..begun /\ p.previous \in 0..begun
  BY DEF Pointers
<1>6. QED
  BY <1>1, <1>3, <1>4, <1>5

\* PointerInv is inductive, crashes included.
LEMMA PointerStep ==
  ASSUME Types, ConductorInv, PointerInv, [Next]_vars
  PROVE  PointerInv'
<1>0. /\ ScalarTypes /\ begun \in Nat /\ session \in Nat /\ session \in 0..begun
      /\ index.latest \in 0..begun /\ index.previous \in 0..begun
      /\ rotated.latest \in 0..begun /\ rotated.previous \in 0..begun
      /\ counter \in Nat /\ \A s \in Sessions : file[s].sequence \in 0..counter
      /\ 1..begun \subseteq Sessions /\ Sessions \subseteq Nat /\ file \in Files
      /\ index \in Pointers(begun)
  BY TypesAre, StoreIs DEF ScalarTypes
<1>1. at # "off" => session \in Sessions
  BY <1>0 DEF ConductorInv
<1>f. UNCHANGED file => (Ordered(index) /\ UNCHANGED index => Ordered(index)')
                        /\ (Ordered(rotated) /\ UNCHANGED rotated => Ordered(rotated)')
  BY DEF Ordered
<1>2. CASE BeginSession
  BY <1>0, <1>2, <1>f DEF BeginSession, PointerInv, store, disk
<1>3. CASE Resume
  BY <1>0, <1>3, <1>f DEF Resume, PointerInv, store, disk
<1>4. CASE Prime
  <2>1. UNCHANGED <<index, file, counter, rotated, session, manifest>> /\ at = "prime"
        /\ at' \in {"file", "distribute"} /\ (at' = "file" => index.latest = 0 /\ priming')
        /\ (priming' => index.latest = 0)
    BY <1>4 DEF Prime, store, disk
  <2>2. index.latest = 0 => index = NoIndex
    BY <1>0 DEF PointerInv, Pointers, NoIndex
  <2>3. rotated = NoIndex /\ NoIndex.previous = 0
    BY <2>1 DEF PointerInv, NoIndex
  <2>4. QED
    BY <2>1, <2>2, <2>3, <1>f DEF PointerInv
<1>5. CASE Distribute
  BY <1>5, <1>f DEF Distribute, PointerInv, store
<1>6. CASE Work
  BY <1>6, <1>f DEF Work, PointerInv, store
<1>7. CASE Copy
  <2>1. UNCHANGED <<index, file, counter, rotated, session, manifest, priming>> /\ at = "copy"
    BY <1>7 DEF Copy, store, disk
  <2>2. at' \in {"copy", "off", "advance"}
    BY <1>7 DEF Copy, Advance
  <2>3. QED
    BY <2>1, <2>2, <1>f DEF PointerInv
<1>8. CASE AdvanceSession
  <2>1. UNCHANGED <<index, file, rotated, session, manifest, priming>> /\ at = "advance"
        /\ at' = "file" /\ counter' = counter + 1
    BY <1>8 DEF AdvanceSession, disk
  <2>2. \A s \in Sessions : file[s].sequence < counter + 1
    BY <1>0
  <2>3. QED
    BY <2>1, <2>2, <1>f DEF PointerInv
<1>9. CASE TruncateFile
  <2>1. UNCHANGED <<index, counter, rotated, session, manifest, priming>> /\ at = "file"
        /\ at' = "fill" /\ file' = [file EXCEPT ![session] = NoFile]
    BY <1>9 DEF TruncateFile, disk
  <2>2. \A s \in Sessions : file'[s] = IF s = session THEN NoFile ELSE file[s]
    BY <1>0, <2>1 DEF Files
  <2>3. Ordered(index)'
    BY <1>0, <2>1, <2>2 DEF Ordered, PointerInv
  <2>4. QED
    BY <2>1, <2>2, <2>3 DEF PointerInv
<1>10. CASE FillFile
  <2>1. UNCHANGED <<index, counter, rotated, session, manifest, priming>>
        /\ at = "fill" /\ at' = "index"
    BY <1>10 DEF FillFile, disk
  <2>2. PICK new : new.sequence = counter /\ file' = [file EXCEPT ![session] = new]
    BY <1>10 DEF FillFile
  <2>3. \A s \in Sessions : file'[s] = IF s = session THEN new ELSE file[s]
    BY <1>0, <2>2 DEF Files
  <2>4. Ordered(index)'
    <3>1. CASE priming
      BY <2>1, <3>1 DEF Ordered, PointerInv, NoIndex
    <3>2. CASE ~priming /\ index.previous # 0
      <4>1. index.previous # session /\ index.previous \in Sessions
            /\ index.latest # 0 /\ index.latest \in Sessions
        BY <1>0, <2>1, <3>2 DEF PointerInv
      <4>2. file[index.previous].sequence < counter
        BY <2>1, <3>2, <4>1 DEF PointerInv
      <4>3. QED
        BY <2>1, <2>2, <2>3, <3>2, <4>1, <4>2 DEF Ordered, PointerInv
    <3>3. CASE index.previous = 0
      BY <2>1, <3>3 DEF Ordered
    <3>4. QED
      BY <3>1, <3>2, <3>3
  <2>5. file'[session].sequence = counter
    BY <1>1, <2>1, <2>2, <2>3
  <2>6. QED
    BY <2>1, <2>3, <2>4, <2>5 DEF PointerInv
<1>11. CASE TruncateIndex
  <2>1. UNCHANGED <<file, counter, session, manifest, priming>> /\ at = "index" /\ at' = "point"
        /\ rotated' = Rotation /\ index' = NoIndex
    BY <1>11 DEF TruncateIndex, disk
  <2> DEFINE p == Rotation.previous
  <2>2. Rotation.latest = session /\ p \in {index.previous, index.latest}
        /\ (p = index.latest => p # session \/ p = index.previous)
    BY DEF Rotation
  <2>3. p # session
    BY <1>1, <2>1, <1>0 DEF Rotation, PointerInv, Sessions
  <2>4. priming => p = 0
    BY DEF Rotation, PointerInv, NoIndex
  <2>5. p # 0 => file[p].sequence < file[session].sequence
    <3>1. SUFFICES ASSUME p # 0
                   PROVE  file[p].sequence < file[session].sequence
      OBVIOUS
    <3>2. p \in Sessions /\ ~priming
      BY <1>0, <2>2, <2>4, <3>1
    <3>3. QED
      BY <2>1, <2>3, <3>2 DEF PointerInv
  <2>6. Ordered(rotated)'
    BY <2>1, <2>2, <2>3, <2>5 DEF Ordered
  <2>7. Ordered(index)'
    BY <2>1 DEF Ordered, NoIndex
  <2>8. QED
    BY <2>1, <2>2, <2>3, <2>4, <2>6, <2>7 DEF PointerInv, NoIndex
<1>12. CASE PointIndex
  <2>1. UNCHANGED <<file, counter, session, manifest>> /\ at = "point" /\ index' = rotated
        /\ rotated' = NoIndex /\ at' \in {"distribute", "enqueue"} /\ priming' = FALSE
    BY <1>12 DEF PointIndex, disk
  <2>2. rotated.latest = session /\ session # 0 /\ rotated.previous # session
    BY <2>1 DEF PointerInv, ConductorInv
  <2>3. rotated.previous # 0 => rotated.previous # manifest
    <3>1. CASE priming
      BY <3>1 DEF PointerInv
    <3>2. CASE ~priming
      BY <2>1, <2>2, <3>2 DEF ConductorInv, Saved, Committing, Storing
    <3>3. QED
      BY <3>1, <3>2
  <2>4. Ordered(index)'
    BY <2>1 DEF Ordered, PointerInv
  <2>5. QED
    BY <2>1, <2>2, <2>3, <2>4 DEF PointerInv
<1>13. CASE Enqueue
  <2>1. UNCHANGED <<index, file, counter, rotated, session, manifest, priming>> /\ at = "enqueue"
    BY <1>13 DEF Enqueue, store, disk
  <2>2. at' \in {"enqueue", "teardown"}
    BY <1>13 DEF Enqueue, Advance
  <2>3. QED
    BY <2>1, <2>2, <1>f DEF PointerInv
<1>14. CASE Teardown
  BY <1>14, <1>f DEF Teardown, PointerInv, store
<1>15. CASE Leave
  BY <1>15, <1>f DEF Leave, PointerInv, store, disk
<1>16. CASE (\E r \in Repos : Land(r)) \/ Gate \/ UNCHANGED vars
  <2>1. UNCHANGED <<at, session, priming, rotated, manifest, counter, file, index>>
    BY <1>16, OthersStep
  <2>2. QED
    BY <2>1, <1>f DEF PointerInv
<1>17. QED
  BY <1>2, <1>3, <1>4, <1>5, <1>6, <1>7, <1>8, <1>9, <1>10, <1>11, <1>12, <1>13, <1>14, <1>15, <1>16
     DEF Next, RunSession, CommitSession

\* CalmInv is inductive.
LEMMA CalmStep ==
  ASSUME Types, ConductorInv, PointerInv, CalmInv, [Next]_vars
  PROVE  CalmInv'
<1>0. /\ ScalarTypes /\ begun \in Nat /\ session \in Nat /\ session \in 0..begun
      /\ index.latest \in 0..begun /\ index.previous \in 0..begun
      /\ rotated.latest \in 0..begun /\ rotated.previous \in 0..begun
      /\ counter \in Nat /\ \A s \in Sessions : file[s].sequence \in 0..counter
      /\ 1..begun \subseteq Sessions /\ Sessions \subseteq Nat /\ file \in Files
      /\ index \in Pointers(begun) /\ faults \in Nat
  BY TypesAre, StoreIs DEF ScalarTypes
<1>1. SUFFICES ASSUME faults' = 0
               PROVE  CalmInv'
  BY DEF CalmInv
<1>2. faults = 0 /\ ~Leave
  BY <1>1, FaultFree
<1>3. at # "off" => session \in Sessions
  BY <1>0 DEF ConductorInv
<1>f. UNCHANGED file => (OlderAhead(index) /\ UNCHANGED index => OlderAhead(index)')
                        /\ (OlderAhead(rotated) /\ UNCHANGED rotated => OlderAhead(rotated)')
  BY DEF OlderAhead
<1>4. CASE BeginSession
  <2>1. UNCHANGED <<index, file>> /\ at = "off" /\ at' = "prime"
        /\ session' = begun + 1 /\ begun' = begun + 1
    BY <1>4 DEF BeginSession, store
  <2>2. session <= session'
    BY <1>0, <2>1
  <2>3. \A s \in Sessions : file[s] # NoFile => s <= session'
    BY <1>0, <1>2, <2>1, <2>2 DEF CalmInv
  <2>4. QED
    BY <1>2, <2>1, <2>3, <1>f DEF CalmInv
<1>5. CASE Resume
  <2>1. UNCHANGED <<index, file, begun>> /\ at = "off" /\ at' = "prime" /\ session' = manifest
    BY <1>5 DEF Resume, store
  <2>2. QED
    BY <1>2, <2>1, <1>f DEF CalmInv
<1>6. CASE Prime
  <2>1. UNCHANGED <<index, file, session, begun>> /\ at = "prime" /\ at' \in {"file", "distribute"}
    BY <1>6 DEF Prime, store
  <2>2. QED
    BY <1>2, <2>1, <1>f DEF CalmInv
<1>7. CASE Distribute
  <2>1. UNCHANGED <<index, file, session, begun>> /\ at = "distribute" /\ at' = "work"
    BY <1>7 DEF Distribute, store
  <2>2. QED
    BY <1>2, <2>1, <1>f DEF CalmInv
<1>8. CASE Work
  <2>1. UNCHANGED <<index, file, session, begun>> /\ at = "work" /\ at' = "copy"
    BY <1>8 DEF Work, store
  <2>2. QED
    BY <1>2, <2>1, <1>f DEF CalmInv
<1>9. CASE Copy
  <2>1. UNCHANGED <<index, file, session, begun, manifest>> /\ at = "copy"
    BY <1>9 DEF Copy, store, disk
  <2>2. at' \in {"copy", "off", "advance"} /\ manifest = session
    BY <1>9, <2>1 DEF Copy, Advance, ConductorInv, Saved
  <2>3. QED
    BY <1>2, <2>1, <2>2, <1>f DEF CalmInv
<1>10. CASE AdvanceSession
  <2>1. UNCHANGED <<index, file, session, begun>> /\ at = "advance" /\ at' = "file"
    BY <1>10 DEF AdvanceSession
  <2>2. QED
    BY <1>2, <2>1, <1>f DEF CalmInv
<1>11. CASE TruncateFile
  <2>1. UNCHANGED <<index, session, begun>> /\ at = "file" /\ at' = "fill"
        /\ file' = [file EXCEPT ![session] = NoFile]
    BY <1>11 DEF TruncateFile
  <2>2. \A s \in Sessions : file'[s] = IF s = session THEN NoFile ELSE file[s]
    BY <1>0, <2>1 DEF Files
  <2>3. OlderAhead(index)'
    <3>1. SUFFICES ASSUME NEW s \in 1..(index.latest - 1), file'[s] # NoFile
                   PROVE  s <= index.previous
      BY <2>1 DEF OlderAhead
    <3>2. s \in Sessions
      BY <1>0, <3>1
    <3>3. QED
      BY <1>2, <2>2, <3>1, <3>2 DEF CalmInv, OlderAhead
  <2>4. QED
    BY <1>2, <2>1, <2>2, <2>3 DEF CalmInv
<1>12. CASE FillFile
  <2>1. UNCHANGED <<index, session, begun, priming>> /\ at = "fill" /\ at' = "index"
    BY <1>12 DEF FillFile
  <2>2. PICK new : new.sequence = counter /\ file' = [file EXCEPT ![session] = new]
    BY <1>12 DEF FillFile
  <2>3. \A s \in Sessions : file'[s] = IF s = session THEN new ELSE file[s]
    BY <1>0, <2>2 DEF Files
  <2>4. session \in Sessions /\ session = begun
    BY <1>2, <1>3, <2>1 DEF CalmInv
  <2>5. OlderAhead(index)'
    <3>1. SUFFICES ASSUME NEW s \in 1..(index.latest - 1), file'[s] # NoFile
                   PROVE  s <= index.previous
      BY <2>1 DEF OlderAhead
    <3>2. s \in Sessions /\ s # session
      BY <1>0, <2>4, <3>1
    <3>3. QED
      BY <1>2, <2>3, <3>1, <3>2 DEF CalmInv, OlderAhead
  <2>6. ASSUME NEW s \in Sessions, NEW t \in Sessions, s < t, NoFile \notin {file'[s], file'[t]}
        PROVE  file'[s].sequence < file'[t].sequence
    <3>1. t <= session /\ s # session
      BY <1>0, <1>2, <2>3, <2>4, <2>6 DEF CalmInv
    <3>2. CASE t # session
      BY <1>2, <2>3, <2>6, <3>1, <3>2 DEF CalmInv
    <3>3. CASE t = session
      <4>1. file[s] # NoFile /\ file'[s] = file[s] /\ file'[t] = new
        BY <2>3, <2>6, <3>1, <3>3
      <4>2. s <= index.latest
        BY <1>2, <2>1, <4>1 DEF CalmInv
      <4>3. ~priming
        BY <1>0, <4>2, <2>6 DEF PointerInv, NoIndex, Sessions
      <4>4. file[s].sequence < counter
        BY <2>1, <3>1, <4>3 DEF PointerInv
      <4>5. QED
        BY <2>2, <4>1, <4>4
    <3>4. QED
      BY <3>2, <3>3
  <2>7. \A s \in Sessions : file'[s] # NoFile => s <= session
    BY <1>0, <1>2, <2>3, <2>4 DEF CalmInv
  <2>8. \A s \in Sessions : file'[s] # NoFile /\ s # session => s <= index.latest
    BY <1>2, <2>1, <2>3 DEF CalmInv
  <2>9. QED
    BY <1>2, <2>1, <2>4, <2>5, <2>6, <2>7, <2>8 DEF CalmInv
<1>13. CASE TruncateIndex
  <2>1. UNCHANGED <<file, session, begun>> /\ at = "index" /\ at' = "point"
        /\ rotated' = Rotation /\ index' = NoIndex
    BY <1>13 DEF TruncateIndex
  <2>2. \A s \in 1..(session - 1) : file[s] # NoFile => s <= Rotation.previous
    <3>1. SUFFICES ASSUME NEW s \in 1..(session - 1), file[s] # NoFile
                   PROVE  s <= Rotation.previous
      OBVIOUS
    <3>2. s \in Sessions /\ s # session /\ s \in Nat
      BY <1>0, <3>1
    <3>3. s <= index.latest
      BY <1>2, <2>1, <3>1, <3>2 DEF CalmInv
    <3>4. CASE index.latest = session
      BY <1>2, <2>1, <3>1, <3>4 DEF CalmInv, OlderAhead, Rotation
    <3>5. CASE index.latest # session
      BY <1>0, <3>1, <3>3, <3>5 DEF Rotation
    <3>6. QED
      BY <3>4, <3>5
  <2>3. OlderAhead(rotated)'
    BY <2>1, <2>2 DEF OlderAhead, Rotation
  <2>4. OlderAhead(index)'
    BY <2>1 DEF OlderAhead, NoIndex
  <2>5. QED
    BY <1>2, <2>1, <2>3, <2>4 DEF CalmInv
<1>14. CASE PointIndex
  <2>1. UNCHANGED <<file, session, begun>> /\ at = "point" /\ index' = rotated
        /\ at' \in {"distribute", "enqueue"} /\ rotated.latest = session
    BY <1>14 DEF PointIndex, PointerInv
  <2>2. OlderAhead(index)'
    BY <1>2, <2>1 DEF CalmInv, OlderAhead
  <2>3. QED
    BY <1>2, <2>1, <2>2 DEF CalmInv
<1>15. CASE Enqueue
  <2>1. UNCHANGED <<index, file, session, begun>> /\ at = "enqueue"
    BY <1>15 DEF Enqueue, store
  <2>2. at' \in {"enqueue", "teardown"}
    BY <1>15 DEF Enqueue, Advance
  <2>3. QED
    BY <1>2, <2>1, <2>2, <1>f DEF CalmInv
<1>16. CASE Teardown
  <2>1. UNCHANGED <<index, file, session, begun, manifest>> /\ at = "teardown" /\ at' = "off"
    BY <1>16 DEF Teardown, store
  <2>2. manifest = session
    BY <2>1 DEF ConductorInv, Saved, Committing
  <2>3. QED
    BY <1>2, <2>1, <2>2, <1>f DEF CalmInv
<1>17. CASE (\E r \in Repos : Land(r)) \/ Gate \/ UNCHANGED vars
  <2>1. UNCHANGED <<at, session, begun, rotated, manifest, file, index>>
    BY <1>17, OthersStep
  <2>2. QED
    BY <1>2, <2>1, <1>f DEF CalmInv
<1>18. QED
  BY <1>2, <1>4, <1>5, <1>6, <1>7, <1>8, <1>9, <1>10, <1>11, <1>12, <1>13, <1>14, <1>15,
     <1>16, <1>17
     DEF Next, RunSession, CommitSession

\* Without faults, a session file that is past rewriting stays so.
LEMMA FixedStays ==
  ASSUME Types, ConductorInv, CalmInv, [Next]_vars, faults = 0, faults' = 0,
         NEW t \in 1..begun, Fixed(t)
  PROVE  Fixed(t)' /\ (t # session \/ ~(TruncateFile \/ FillFile))
<1>0. begun \in Nat /\ session = begun /\ (at = "off" => manifest = session)
  BY TypesAre DEF CalmInv
<1>1. CASE BeginSession
  BY <1>0, <1>1 DEF BeginSession, Fixed, TruncateFile, FillFile
<1>2. CASE Resume
  BY <1>0, <1>2 DEF Resume, Fixed, TruncateFile, FillFile
<1>3. CASE Prime \/ Distribute \/ Work \/ Copy \/ AdvanceSession \/ CommitSession
  <2>1. at \notin {"off", "enqueue", "teardown"} /\ begun' = begun
    BY <1>3 DEF Prime, Distribute, Work, Copy, AdvanceSession, CommitSession, TruncateFile,
       FillFile, TruncateIndex, PointIndex
  <2>2. QED
    BY <1>0, <2>1 DEF Fixed
<1>4. CASE Enqueue
  <2>1. at = "enqueue" /\ at' \in {"enqueue", "teardown"} /\ begun' = begun
    BY <1>4 DEF Enqueue, Advance
  <2>2. QED
    BY <2>1 DEF Fixed, TruncateFile, FillFile
<1>5. CASE Teardown
  BY <1>0, <1>5 DEF Teardown, Fixed, TruncateFile, FillFile
<1>6. CASE (\E r \in Repos : Land(r)) \/ Gate \/ UNCHANGED vars
  <2>1. UNCHANGED <<at, begun, staging, faults>>
    BY <1>6, OthersStep
  <2>2. Fixed(t)'
    BY <2>1 DEF Fixed
  <2>3. ~(TruncateFile \/ FillFile)
    BY <2>1 DEF TruncateFile, FillFile
  <2>4. QED
    BY <2>2, <2>3
<1>7. CASE Leave
  BY <1>7 DEF Leave
<1>8. QED
  BY <1>1, <1>2, <1>3, <1>4, <1>5, <1>6, <1>7 DEF Next, RunSession

\* Contracts that are there for the gate stay there for it.
LEMMA BehindStays ==
  ASSUME Types, ConductorInv, CalmInv, [Next]_vars, faults = 0, faults' = 0,
         NEW s, NEW m, Behind(s, m)
  PROVE  Behind(s, m)'
<1>1. PICK t \in Sessions : t >= s /\ m \in file[t].modules /\ Fixed(t)
  BY DEF Behind
<1>2. t \in 1..begun
  BY <1>1, TypesAre, CommitAssumption DEF CalmInv, NoFile, Sessions
<1>3. Fixed(t)' /\ (t # session \/ ~(TruncateFile \/ FillFile))
  BY <1>1, <1>2, FixedStays
<1>4. file'[t] = file[t]
  <2>1. file \in Files
    BY StoreIs
  <2>2. CASE UNCHANGED <<counter, file, index>>
    BY <2>2
  <2>3. CASE TruncateFile
    BY <1>3, <2>1, <2>3 DEF TruncateFile, Files
  <2>4. CASE FillFile
    BY <1>3, <2>1, <2>4 DEF FillFile, Files
  <2>5. CASE AdvanceSession \/ TruncateIndex \/ PointIndex
    BY <2>5 DEF AdvanceSession, TruncateIndex, PointIndex
  <2>6. QED
    BY <2>2, <2>3, <2>4, <2>5, StoreStep
<1>5. QED
  BY <1>1, <1>3, <1>4 DEF Behind

\* LatestInv is inductive.
LEMMA LatestStep ==
  ASSUME Types, ConductorInv, PointerInv, CalmInv, LatestInv, [Next]_vars
  PROVE  LatestInv'
<1>1. SUFFICES ASSUME faults' = 0
               PROVE  LatestInv'
  BY DEF LatestInv
<1>0. /\ faults = 0 /\ ~Leave /\ session = begun /\ begun \in Nat
      /\ entries \in Seq(Row(begun)) /\ Len(entries) \in Nat
      /\ entries' \in Seq(Row(begun'))
      /\ index.latest \in 0..begun
  BY <1>1, FaultFree, TypesAre, EntriesStep, StoreIs DEF CalmInv
<1>2. ASSUME UNCHANGED index
      PROVE  Fixed(index.latest) /\ index.latest # 0 => Fixed(index.latest)'
  <2>1. PICK t : t = index.latest
    OBVIOUS
  <2>2. ASSUME t # 0, Fixed(t)
        PROVE  Fixed(t)'
    <3>1. t \in 1..begun
      BY <1>0, <2>1, <2>2
    <3>2. QED
      BY <1>0, <1>1, <2>2, <3>1, FixedStays
  <2>3. QED
    BY <1>2, <2>1, <2>2 DEF Fixed
<1>3. ASSUME UNCHANGED <<index, entries>>
      PROVE  index'.latest # 0 =>
               \A i \in 1..Len(entries') :
                 entries'[i].session <= index'.latest /\ Fixed(index.latest)'
  BY <1>0, <1>2, <1>3 DEF LatestInv
<1>4. CASE BeginSession \/ Resume \/ Distribute \/ Work
  <2>1. UNCHANGED <<index, entries, priming>> /\ at # "point" /\ at' \in {"prime", "work", "copy"}
    BY <1>4 DEF BeginSession, Resume, Distribute, Work, store, queue
  <2>2. QED
    BY <1>0, <2>1, <1>3 DEF LatestInv
<1>5. CASE Prime
  <2>1. UNCHANGED <<index, entries>> /\ at = "prime" /\ at' \in {"file", "distribute"}
        /\ priming' = (index.latest = 0)
    BY <1>5 DEF Prime, store, queue
  <2>2. priming' => entries' = <<>>
    BY <1>0, <2>1 DEF LatestInv
  <2>3. QED
    BY <1>0, <2>1, <2>2, <1>3 DEF LatestInv
<1>6. CASE Copy
  <2>1. UNCHANGED <<index, entries, priming>> /\ at = "copy"
    BY <1>6 DEF Copy, store, queue
  <2>2. at' \in {"copy", "off", "advance"}
    BY <1>6 DEF Copy, Advance
  <2>3. QED
    BY <1>0, <2>1, <2>2, <1>3 DEF LatestInv
<1>7. CASE AdvanceSession \/ TruncateFile \/ FillFile
  <2>1. UNCHANGED <<index, entries, priming>> /\ at # "point" /\ at' \in {"file", "fill", "index"}
    BY <1>7 DEF AdvanceSession, TruncateFile, FillFile, queue
  <2>2. QED
    BY <1>0, <2>1, <1>3 DEF LatestInv
<1>8. CASE TruncateIndex
  <2>1. UNCHANGED <<entries, priming>> /\ at' = "point" /\ index' = NoIndex
    BY <1>8 DEF TruncateIndex, queue
  <2>2. QED
    BY <1>0, <2>1 DEF LatestInv, NoIndex
<1>9. CASE PointIndex
  <2>1. UNCHANGED <<entries, session, begun>> /\ at = "point"
        /\ index'.latest = session /\ priming' = FALSE
        /\ at' = IF priming THEN "distribute" ELSE "enqueue"
    BY <1>9 DEF PointIndex, PointerInv, queue
  <2>2. session # 0
    BY <2>1 DEF ConductorInv
  <2>3. \A i \in 1..Len(entries) : entries[i].session <= session
    <3>1. \A i \in 1..Len(entries) : entries[i] \in Row(begun)
      BY <1>0, ElementOfSeq
    <3>2. QED
      BY <1>0, <3>1 DEF Row
  <2>4. ~priming => Fixed(index.latest)'
    BY <2>1 DEF Fixed
  <2>5. priming => entries = <<>>
    BY <1>0 DEF LatestInv
  <2>6. \A i \in 1..Len(entries) : ~priming
    BY <2>5
  <2>7. at' \in {"enqueue", "teardown"} => index'.latest = session'
    BY <2>1
  <2>8. QED
    BY <2>1, <2>2, <2>3, <2>4, <2>6, <2>7 DEF LatestInv
<1>10. CASE Enqueue
  <2>1. UNCHANGED <<index, session, begun>> /\ at = "enqueue" /\ priming' = priming
    BY <1>10 DEF Enqueue, store
  <2>2. at' \in {"enqueue", "teardown"}
    BY <1>10, <2>1 DEF Enqueue, Advance
  <2>3. index.latest = session /\ session # 0 /\ ~priming
    BY <1>0, <2>1 DEF LatestInv, ConductorInv, Storing
  <2>4. \A i \in 1..Len(entries') : entries'[i].session <= session
    <3>1. \A i \in 1..Len(entries') : entries'[i] \in Row(begun')
      BY <1>0, ElementOfSeq
    <3>2. QED
      BY <1>0, <2>1, <3>1 DEF Row
  <2>5. Fixed(index.latest)'
    BY <2>2 DEF Fixed
  <2>6. QED
    BY <2>1, <2>3, <2>4, <2>5 DEF LatestInv
<1>11. CASE Teardown
  <2>1. UNCHANGED <<index, entries, priming>> /\ at = "teardown" /\ at' = "off"
    BY <1>11 DEF Teardown, store, queue
  <2>2. QED
    BY <1>0, <2>1, <1>3 DEF LatestInv
<1>12. CASE (\E r \in Repos : Land(r)) \/ Gate \/ UNCHANGED vars
  <2>1. UNCHANGED <<at, session, priming, index>>
    BY <1>12, OthersStep
  <2>3. Len(entries') = Len(entries)
        /\ \A i \in 1..Len(entries) : entries'[i].session = entries[i].session
    <3>1. CASE Enqueues
      <4>1. turn' # turn \/ at' # at
        BY <1>0, <3>1, TypesAre DEF Enqueues, Enqueue, Advance, ScalarTypes
      <4>2. QED
        BY <1>12, <4>1, OthersStep
    <3>2. QED
      BY <3>1, EntriesStep
  <2>5. entries' = <<>> <=> entries = <<>>
    BY <1>0, <2>3, EmptySeq
  <2>6. QED
    BY <1>0, <1>2, <2>1, <2>3, <2>5 DEF LatestInv
<1>13. QED
  BY <1>0, <1>4, <1>5, <1>6, <1>7, <1>8, <1>9, <1>10, <1>11, <1>12
     DEF Next, RunSession, CommitSession

\* The entry at the gate keeps its session while it is there.
LEMMA EntryAtGate ==
  ASSUME Types, ConductorInv, [Next]_vars, gate.entry # 0, NEW e, e = gate.entry
  PROVE  e \in 1..Len(entries) /\ entries'[e].session = entries[e].session
<1>1. e \in 1..Len(entries)
  BY DEF Types, TypeOK
<1>2. QED
  BY <1>1, EntriesStep

\* BehindInv is inductive.
LEMMA BehindStep ==
  ASSUME Types, ConductorInv, PointerInv, CalmInv, LatestInv, BehindInv, [Next]_vars
  PROVE  BehindInv'
<1>1. SUFFICES ASSUME faults' = 0
               PROVE  BehindInv'
  BY DEF BehindInv
<1>0. faults = 0 /\ ~Leave
  BY <1>1, FaultFree
<1>2. SUFFICES ASSUME gate'.entry # 0, NEW e, e = gate'.entry, NEW s, s = entries'[e].session,
                      NEW m \in gate'.todo \cup gate'.module
               PROVE  Behind(s, m)'
  BY DEF BehindInv, Behind
<1>3. CASE GateStarts
  <2>1. UNCHANGED <<file, begun, at, staging, entries>>
    BY <1>3, OthersStep DEF GateStarts, Gate, queue
  <2>2. PICK i \in 1..Len(entries) :
          gate' = [Idle EXCEPT !.entry = i, !.todo = FileOf(index.latest).modules]
    BY <1>3 DEF GateStarts
  <2>3. gate'.entry = i /\ gate'.todo = FileOf(index.latest).modules /\ gate'.module = {}
    BY <2>2 DEF Idle
  <2>4. index.latest # 0 /\ m \in file[index.latest].modules
    BY <1>2, <2>3 DEF FileOf, NoFile
  <2>5. index.latest \in Sessions
    BY <2>4, StoreIs, TypesAre
  <2>6. s <= index.latest /\ Fixed(index.latest)
    BY <1>0, <1>2, <2>1, <2>3, <2>4 DEF LatestInv
  <2>7. PICK t \in Sessions : t = index.latest
    BY <2>5
  <2>8. t >= s /\ m \in file[t].modules /\ Fixed(t)
    BY <2>4, <2>6, <2>7 DEF Fixed
  <2>9. Fixed(t)'
    BY <2>1, <2>8 DEF Fixed
  <2>10. QED
    BY <2>1, <2>8, <2>9 DEF Behind
<1>4. ASSUME gate.entry = gate'.entry, m \in gate.todo \cup gate.module
      PROVE  Behind(s, m)'
  <2>1. entries[e].session = s
    BY <1>2, <1>4, EntryAtGate
  <2>2. Behind(s, m)
    BY <1>0, <1>2, <1>4, <2>1 DEF BehindInv, Behind
  <2>3. QED
    BY <1>0, <1>1, <2>2, BehindStays
<1>5. CASE GateReadsLatest
  <2>1. gate \in GateRuns
    BY DEF Types
  <2>2. PICK n \in gate.todo :
       \/ \E x \in Load(index.latest, n) :
            gate' = [gate EXCEPT !.step = "previous", !.todo = @ \ {n}, !.module = {n},
                                 !.current = x]
       \/ gate' = [gate EXCEPT !.todo = @ \ {n}]
    BY <1>5 DEF GateReadsLatest
  <2>3. /\ gate'.entry = gate.entry
        /\ gate'.todo \cup gate'.module \subseteq gate.todo \cup gate.module
    <3>1. CASE gate' = [gate EXCEPT !.todo = @ \ {n}]
      BY <2>1, <3>1 DEF GateRuns
    <3>2. ASSUME NEW x, gate' = [gate EXCEPT !.step = "previous", !.todo = @ \ {n}, !.module = {n},
                                             !.current = x]
          PROVE  gate'.entry = gate.entry /\ gate'.todo = gate.todo \ {n} /\ gate'.module = {n}
      BY <2>1, <3>2 DEF GateRuns
    <3>3. QED
      BY <2>2, <3>1, <3>2
  <2>4. QED
    BY <1>2, <1>4, <2>3
<1>6. CASE GateReadsPrevious
  <2>1. gate \in GateRuns
    BY DEF Types
  <2>2. gate'.entry = gate.entry /\ gate'.todo = gate.todo /\ gate'.module = gate.module
    BY <1>6, <2>1 DEF GateReadsPrevious, GateRuns
  <2>3. QED
    BY <1>2, <1>4, <2>2
<1>7. CASE GateScores
  <2>1. gate \in GateRuns
    BY DEF Types
  <2>2. gate'.entry = gate.entry /\ gate'.todo = gate.todo /\ gate'.module = {}
    BY <1>7, <2>1 DEF GateScores, GateRuns
  <2>3. QED
    BY <1>2, <1>4, <2>2
<1>8. CASE GateAnswers
  BY <1>2, <1>8 DEF GateAnswers, Idle
<1>9. CASE UNCHANGED gate
  BY <1>2, <1>4, <1>9
<1>10. ASSUME ~Gate
       PROVE  UNCHANGED gate
  BY <1>10 DEF Next, BeginSession, Resume, RunSession, CommitSession, Prime, Distribute, Work, Copy,
     AdvanceSession, TruncateFile, FillFile, TruncateIndex, PointIndex, Enqueue, Teardown,
     Leave, Land, vars
<1>11. QED
  BY <1>3, <1>5, <1>6, <1>7, <1>8, <1>9, <1>10 DEF Gate

\* What the gate takes for current is of its entry's session or later: the index's latest
\* session is, and a scan takes the highest number, which no session before has.
LEMMA NeverStaleStep ==
  ASSUME Types, ConductorInv, CalmInv, LatestInv, BehindInv, GateNeverStale, [Next]_vars
  PROVE  GateNeverStale'
<1>1. SUFFICES ASSUME gate'.step \in {"previous", "score"}, faults' = 0,
                      NEW e, e = gate'.entry
               PROVE  gate'.current >= entries'[e].session
  BY DEF GateNeverStale
<1>0. faults = 0 /\ gate \in GateRuns
  BY <1>1, FaultFree DEF Types
<1>2. ASSUME gate'.entry = gate.entry, gate'.current = gate.current,
             gate.step \in {"previous", "score"}
      PROVE  gate'.current >= entries'[e].session
  <2>1. gate.entry # 0
    BY <1>2 DEF Types, TypeOK, Idle
  <2>2. entries'[e].session = entries[e].session
    BY <1>1, <1>2, <2>1, EntryAtGate
  <2>3. QED
    BY <1>0, <1>1, <1>2, <2>2 DEF GateNeverStale
<1>3. CASE GateReadsLatest
  <2>1. PICK m \in gate.todo :
       \/ \E x \in Load(index.latest, m) :
            gate' = [gate EXCEPT !.step = "previous", !.todo = @ \ {m}, !.module = {m},
                                 !.current = x]
       \/ gate' = [gate EXCEPT !.todo = @ \ {m}]
    BY <1>3 DEF GateReadsLatest
  <2>2. gate.step = "latest" /\ gate.entry # 0 /\ UNCHANGED entries
    BY <1>3 DEF GateReadsLatest, queue
  <2>3. PICK x \in Load(index.latest, m) :
            gate' = [gate EXCEPT !.step = "previous", !.todo = @ \ {m}, !.module = {m},
                                 !.current = x]
    BY <1>0, <1>1, <2>1, <2>2 DEF GateRuns
  <2>4. gate'.entry = gate.entry /\ gate'.current = x
    BY <1>0, <2>3 DEF GateRuns
  <2>5. e = gate.entry /\ e \in 1..Len(entries) /\ entries[e].session \in Nat
    <3>1. e = gate.entry /\ e \in 1..Len(entries)
      BY <1>1, <2>2, <2>4, EntryAtGate
    <3>2. entries[e] \in Row(begun)
      BY <3>1, TypesAre, ElementOfSeq
    <3>3. QED
      BY <3>1, <3>2, TypesAre DEF Row
  <2>6. PICK s : s = entries[e].session
    OBVIOUS
  <2>7. PICK t \in Sessions : t >= s /\ m \in file[t].modules
    BY <1>0, <2>1, <2>2, <2>5, <2>6 DEF BehindInv, Behind
  <2>8. x \in Sessions /\ x \in Nat /\ t \in Nat /\ Sessions \subseteq Nat
        /\ \A q \in Sessions : file[q].sequence \in Nat
    BY <2>3, LoadIs, StoreIs
  <2>9. CASE m \in FileOf(index.latest).modules
    <3>1. x = index.latest
      BY <2>3, <2>9 DEF Load
    <3>2. index.latest # 0
      BY <2>9 DEF FileOf, NoFile
    <3>3. s <= index.latest
      BY <1>0, <2>5, <2>6, <3>2 DEF LatestInv
    <3>4. QED
      BY <2>2, <2>4, <2>5, <2>6, <2>8, <3>1, <3>3
  <2>10. CASE m \notin FileOf(index.latest).modules
    <3>1. x \in Sessions /\ m \in file[x].modules /\ file[t].sequence <= file[x].sequence
      BY <2>3, <2>7, <2>10 DEF Load, Scan
    <3>2. ~(x < t)
      BY <1>0, <2>7, <2>8, <3>1 DEF CalmInv, NoFile
    <3>3. QED
      BY <2>2, <2>4, <2>5, <2>6, <2>7, <2>8, <3>2
  <2>11. QED
    BY <2>9, <2>10
<1>4. CASE GateReadsPrevious
  <2>1. gate.step = "previous" /\ gate'.entry = gate.entry /\ gate'.current = gate.current
    BY <1>0, <1>4 DEF GateReadsPrevious, GateRuns
  <2>2. QED
    BY <1>2, <2>1
<1>5. CASE GateStarts
  BY <1>1, <1>5 DEF GateStarts, Idle
<1>6. CASE GateScores
  BY <1>0, <1>1, <1>6 DEF GateScores, GateRuns
<1>7. CASE GateAnswers
  BY <1>1, <1>7 DEF GateAnswers, Idle
<1>8. CASE UNCHANGED gate
  BY <1>1, <1>2, <1>8
<1>9. ASSUME ~Gate
       PROVE  UNCHANGED gate
  BY <1>9 DEF Next, BeginSession, Resume, RunSession, CommitSession, Prime, Distribute, Work, Copy,
     AdvanceSession, TruncateFile, FillFile, TruncateIndex, PointIndex, Enqueue, Teardown,
     Leave, Land, vars
<1>10. QED
  BY <1>3, <1>4, <1>5, <1>6, <1>7, <1>8, <1>9 DEF Gate

----------------------------------------------------------------------------
(* The theorems *)

\* The first conductor finds nothing: no session, no store, an empty queue.
LEMMA InitHolds ==
  ASSUME Init
  PROVE  MoveInv /\ QueuedInv /\ GoneMeansQueued /\ HistoryMovesForward /\ StoreInv /\ GateInv
<1>0. Len(RepoOrder) \in Nat /\ Len(RepoOrder) >= 1 /\ MaxSessions \in Nat /\ MaxFaults \in Nat
  BY CommitAssumption, RepoOrderIs
<1>1. ScalarTypes /\ resume \in BOOLEAN /\ priming \in BOOLEAN
  <2>1. at \in At /\ turn \in 1..Len(RepoOrder) /\ counter \in Nat
    BY <1>0 DEF Init, At
  <2>2. session \in 0..begun /\ begun \in 0..MaxSessions /\ manifest \in 0..begun
        /\ faults \in 0..MaxFaults
    BY <1>0 DEF Init
  <2>3. staging \subseteq Sessions /\ staged \in [Sessions -> SUBSET Repos]
        /\ tree \in [Repos -> 0..begun]
    BY DEF Init
  <2>4. QED
    BY <2>1, <2>2, <2>3 DEF Init, ScalarTypes
<1>2. {index, rotated} \subseteq Pointers(begun) /\ file \in Files
  BY DEF Init, NoIndex, NoFile, Pointers, Files
<1>3. history \in [Repos -> Seq(Record(begun))] /\ entries \in Seq(Row(begun))
      /\ entries = <<>> /\ Len(entries) = 0 /\ \A r \in Repos : Len(history[r]) = 0
  BY EmptySeq DEF Init
<1>4. gate \in GateRuns /\ gate.entry = 0 /\ gate = Idle /\ gate.step = "latest"
  BY <1>0 DEF Init, GateRuns, Idle
<1>5. Types
  BY <1>1, <1>2, <1>3, <1>4
     DEF Types, TypeOK, ScalarTypes, Row, Status, Pointers, Files, Record
<1>6. ConductorInv /\ QueuedInv
  BY DEF Init, ConductorInv, Saved, Committing, Storing, QueuedInv
<1>7. ForwardInv /\ HistoryMovesForward /\ GoneMeansQueued
  BY <1>3 DEF Init, ForwardInv, Committing, Storing, HistoryMovesForward, GoneMeansQueued
<1>8. StoreInv
  BY DEF Init, StoreInv, PointerInv, CalmInv, Ordered, OlderAhead, NoIndex, NoFile
<1>9. GateInv
  BY <1>3, <1>4 DEF Init, GateInv, LatestInv, BehindInv, GateNeverStale, NoIndex
<1>10. QED
  BY <1>5, <1>6, <1>7, <1>8, <1>9 DEF MoveInv

\* The types, the conductor's place and the versions hold one another up.
LEMMA MoveInvariant == Spec => []MoveInv
<1>1. Init => MoveInv
  BY InitHolds
<1>2. MoveInv /\ [Next]_vars => MoveInv'
  BY TypesStep, ConductorStep, ForwardStep DEF MoveInv
<1>3. QED
  BY <1>1, <1>2, PTL DEF Spec

\* Every state is well typed, for any repositories, modules, sessions and
\* crashes: in particular every entry and every commit is of a session that was
\* begun, and the gate is at an entry that waits for it.
THEOREM TypeCorrect == Spec => []TypeOK
<1>1. MoveInv => TypeOK
  BY DEF MoveInv, Types
<1>2. QED
  BY <1>1, MoveInvariant, PTL

\* A staging area is gone only when the queue has an entry of its session for
\* each repository it had files for, wherever conductors go away and resume.
THEOREM GoneStagingIsQueued == Spec => []GoneMeansQueued
<1>1. Init => QueuedInv /\ GoneMeansQueued
  BY InitHolds
<1>2. MoveInv /\ QueuedInv /\ GoneMeansQueued /\ [Next]_vars => (QueuedInv /\ GoneMeansQueued)'
  BY QueuedStep, GoneStep DEF MoveInv
<1>3. QED
  BY <1>1, <1>2, MoveInvariant, PTL DEF Spec

\* The versions in a repository's history only go up and none is older than the
\* session of the entry that committed it, however sessions are resumed and
\* however late the workers are.
THEOREM HistoriesMoveForward == Spec => []HistoryMovesForward
<1>1. Init => HistoryMovesForward
  BY InitHolds
<1>2. MoveInv /\ HistoryMovesForward /\ [Next]_vars => HistoryMovesForward'
  BY HistoryStep DEF MoveInv
<1>3. QED
  BY <1>1, <1>2, MoveInvariant, PTL DEF Spec

\* A session has one entry for a repository and at most one more for each
\* conductor that went away.
THEOREM RepeatsAreCrashes == Spec => []RepeatsNeedCrashes
<1>1. Init => RepeatInv
  <2>1. SUFFICES ASSUME Init, NEW s \in Sessions, NEW i \in 1..Len(RepoOrder)
                 PROVE  Cardinality(EntriesOf(s, RepoOrder[i])) <=
                          faults + (IF Finished(s, i) THEN 1 ELSE 0)
    BY DEF RepeatInv
  <2>2. EntriesOf(s, RepoOrder[i]) = {} /\ faults = 0
    BY <2>1 DEF Init, EntriesOf
  <2>3. Cardinality(EntriesOf(s, RepoOrder[i])) = 0
    BY <2>2, FS_EmptySet
  <2>4. QED
    BY <2>2, <2>3
<1>2. MoveInv /\ RepeatInv /\ [Next]_vars => RepeatInv'
  BY RepeatStep DEF MoveInv
<1>3. MoveInv /\ RepeatInv => RepeatsNeedCrashes
  <2>1. SUFFICES ASSUME MoveInv, RepeatInv, NEW i \in 1..Len(entries)
                 PROVE  Cardinality(EntriesOf(entries[i].session, entries[i].repo)) <= 1 + faults
    BY DEF RepeatsNeedCrashes, EntriesOf
  <2>2. entries[i] \in Row(begun) /\ faults \in Nat /\ ScalarTypes
    BY <2>1, TypesAre, ElementOfSeq DEF MoveInv
  <2>3. PICK s \in Sessions, k \in 1..Len(RepoOrder) :
          s = entries[i].session /\ RepoOrder[k] = entries[i].repo
    <3>1. entries[i].session \in Sessions /\ entries[i].repo \in Repos
      BY <2>2, CommitAssumption DEF Row, ScalarTypes, Sessions
    <3>2. QED
      BY <3>1, RepoOrderIs
  <2>4. PICK n : n = Cardinality(EntriesOf(s, RepoOrder[k]))
    OBVIOUS
  <2>5. n \in Nat
    BY <2>1, <2>4, EntriesOfFinite DEF MoveInv
  <2>6. n <= faults + (IF Finished(s, k) THEN 1 ELSE 0)
    BY <2>1, <2>4 DEF RepeatInv
  <2>7. n <= 1 + faults
    BY <2>2, <2>5, <2>6
  <2>8. QED
    BY <2>3, <2>4, <2>7
<1>4. QED
  BY <1>1, <1>2, <1>3, MoveInvariant, PTL DEF Spec

\* The store keeps its pointers and numbers in order across crashes.
LEMMA StoreInvariant == Spec => []StoreInv
<1>1. Init => StoreInv
  BY InitHolds
<1>2. MoveInv /\ StoreInv /\ [Next]_vars => StoreInv'
  BY PointerStep, CalmStep DEF MoveInv, StoreInv
<1>3. QED
  BY <1>1, <1>2, MoveInvariant, PTL DEF Spec

\* The index names two different sessions, the one before with the lower
\* sequence number, whatever crashes tore; without crashes it is the one
\* committed last before the latest.
THEOREM PointersKeepOrder == Spec => []PointersInOrder
<1>1. StoreInv => PointersInOrder
  BY DEF StoreInv, PointerInv, CalmInv, Ordered, OlderAhead, PointersInOrder
<1>2. QED
  BY <1>1, StoreInvariant, PTL

\* Without faults the managed gate takes the contracts of an entry's own session
\* or a later one for the current ones, at each of its reads, for any number of
\* sessions, entries and modules.
THEOREM GateIsNeverStale == Spec => []GateNeverStale
<1>1. Init => GateInv
  BY InitHolds
<1>2. MoveInv /\ StoreInv /\ GateInv /\ [Next]_vars => GateInv'
  BY LatestStep, BehindStep, NeverStaleStep DEF MoveInv, StoreInv, GateInv
<1>3. GateInv => GateNeverStale
  BY DEF GateInv
<1>4. QED
  BY <1>1, <1>2, <1>3, MoveInvariant, StoreInvariant, PTL DEF Spec

=============================================================================
