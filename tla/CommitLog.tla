----------------------------- MODULE CommitLog -----------------------------
(***************************************************************************)
(* The commit log .cdmad/commit_log.jsonl and DEVLOG.md: append_entry() of *)
(* scripts/update_commit_log.py as the hooks call it                       *)
(* (hooks/post-commit, hooks/pre_commit.py), and the devlog writer of      *)
(* scripts/write_devlog_entry.py, which narrates what is not yet consumed  *)
(* and rewrites the log.                                                   *)
(*                                                                         *)
(* Nothing locks either file.  Developers commit behind the pre-commit     *)
(* hook, which has the chain judge HEAD, the new commit's parent; queue    *)
(* workers commit with --no-verify and have the chain judge the commit     *)
(* itself afterwards.  The post-commit hook fires for both, and git's own  *)
(* lock is gone by then.                                                   *)
(*                                                                         *)
(* Commits are numbered in the order git makes them; 0 was there before.   *)
(* gate_results.db is the sequence of what was saved in it, its timestamps *)
(* the places in it: a chain saves the rows of its gates one by one, in    *)
(* the order in which update_commit_log.py reads them (GATE_NAMES), and    *)
(* its token after the last.  A line of the log is the commit, what was    *)
(* found in gate_results.db for it and whether it is consumed; a section   *)
(* of DEVLOG.md is the set of commits it lists.                            *)
(***************************************************************************)
EXTENDS Naturals, Sequences, FiniteSets

CONSTANTS
  Developers, Workers,  \* who commits: behind the hook, and with --no-verify
  Writers,              \* invocations of write_devlog_entry.py
  Gates,                \* how many gates the chain has
  MaxCommits, MaxSaves, \* bounds: commits, and rows and tokens saved
  MaxFaults             \* bound: hooks and writers that are cut off

Committers == Developers \cup Workers

ASSUME LogAssumption ==
  /\ Developers \cap Workers = {} /\ Committers # {}
  /\ Gates \in Nat \ {0}
  /\ MaxCommits \in Nat /\ MaxSaves \in Nat /\ MaxFaults \in Nat

Token == Gates + 1       \* what a chain saves after the rows of its gates
NoSha == MaxCommits + 1  \* what a git rev-parse that fails leaves: the empty SHA

VARIABLES
  head,     \* the newest commit
  db,       \* gate_results.db: [sha, what], oldest first
  serving,  \* whether the orchestrator is at the chain of a committer's request
  judged,   \* the commit that chain judges
  saved,    \* how much of it has been saved
  mine,     \* where in db
  log,      \* the lines of the commit log
  devlog,   \* the sections of DEVLOG.md
  at,       \* where each committer stands
  parent,   \* HEAD when its git commit began
  sha,      \* the commit it logs
  early,    \* whether it is the pre-commit hook that logs
  run,      \* the commit whose rows it takes, and where in db those are it has found
  next,     \* the gate, or the token, it looks up next
  passed,   \* where the rows and the token are that have let its commit pass
  step,     \* where each writer stands
  picked,   \* the commits it narrates
  sections, \* the DEVLOG.md it has read
  lines,    \* the log it has read again to rewrite it
  \* history
  own,      \* what let a developer's commit pass; 0 is none
  logged,   \* the lines that were appended
  raced,    \* those of them appended while a writer had the log in hand
  doubled,  \* whether a commit was appended twice
  overlap,  \* whether two writers were ever under way at once
  faults

git     == <<head, own>>
chain   == <<serving, judged, saved, mine>>
hook    == <<at, parent, sha, early, run, next, passed>>
writer  == <<step, picked, sections, lines>>
history == <<logged, raced, doubled, overlap>>
vars    == <<git, db, chain, log, devlog, hook, writer, history, faults>>

----------------------------------------------------------------------------
Shas(s) == {s[i].sha : i \in 1..Len(s)}
Listed  == UNION {devlog[i] : i \in 1..Len(devlog)}

NoRows == [k \in 1..Token |-> 0]
NoRun  == [sha |-> NoSha, rows |-> NoRows]

Init ==
  /\ head = 0 /\ db = <<>> /\ own = [c \in 0..MaxCommits |-> NoRows]
  /\ serving = [p \in Committers |-> FALSE] /\ judged = [p \in Committers |-> 0]
  /\ saved = [p \in Committers |-> 0] /\ mine = [p \in Committers |-> NoRows]
  /\ log = <<>> /\ devlog = <<>>
  /\ at = [p \in Committers |-> "idle"] /\ parent = [p \in Committers |-> 0]
  /\ sha = [p \in Committers |-> 0] /\ early = [p \in Committers |-> FALSE]
  /\ run = [p \in Committers |-> NoRun] /\ next = [p \in Committers |-> 1]
  /\ passed = [p \in Committers |-> NoRows]
  /\ step = [w \in Writers |-> "off"] /\ picked = [w \in Writers |-> {}]
  /\ sections = [w \in Writers |-> <<>>] /\ lines = [w \in Writers |-> <<>>]
  /\ logged = {} /\ raced = {} /\ doubled = FALSE /\ overlap = FALSE
  /\ faults = 0

Goto(p, place) == at' = [at EXCEPT ![p] = place]

----------------------------------------------------------------------------
(* The orchestrator's chains *)

\* POST /commit: handle_commit() begins.
Request(p, c) ==
  /\ serving' = [serving EXCEPT ![p] = TRUE] /\ judged' = [judged EXCEPT ![p] = c]
  /\ saved' = [saved EXCEPT ![p] = 0] /\ mine' = [mine EXCEPT ![p] = NoRows]

\* save_result() and, after the last gate, save_token().
Save(p) ==
  /\ serving[p] /\ saved[p] < Token /\ Len(db) < MaxSaves
  /\ db' = Append(db, [sha |-> judged[p], what |-> saved[p] + 1])
  /\ saved' = [saved EXCEPT ![p] = @ + 1]
  /\ mine' = [mine EXCEPT ![p][saved[p] + 1] = Len(db) + 1]
  /\ UNCHANGED <<git, serving, judged, log, devlog, hook, writer, history, faults>>

\* handle_commit() returns, with the row of a gate that has failed or with the
\* token, or an exception ends it; nobody waits for it any more.
Ends(p) ==
  /\ serving' = [serving EXCEPT ![p] = FALSE] /\ judged' = [judged EXCEPT ![p] = 0]
  /\ saved' = [saved EXCEPT ![p] = 0] /\ mine' = [mine EXCEPT ![p] = NoRows]

EndsUnheard(p) ==
  /\ serving[p] /\ at[p] # "gates"
  /\ Ends(p)
  /\ UNCHANGED <<git, db, log, devlog, hook, writer, history, faults>>

----------------------------------------------------------------------------
(* Commits and their hooks *)

\* The end of git commit; its variables are gone.
Leave(p) ==
  /\ Goto(p, "idle")
  /\ parent' = [parent EXCEPT ![p] = 0] /\ sha' = [sha EXCEPT ![p] = 0]
  /\ early' = [early EXCEPT ![p] = FALSE]
  /\ run' = [run EXCEPT ![p] = NoRun] /\ next' = [next EXCEPT ![p] = 1]
  /\ passed' = [passed EXCEPT ![p] = NoRows]

\* git commit with the pre-commit hook, which has the chain judge HEAD.
BeginCommit(p) ==
  /\ p \in Developers /\ at[p] = "idle" /\ head < MaxCommits
  /\ ~serving[p] /\ Len(db) < MaxSaves
  /\ Goto(p, "gates")
  /\ parent' = [parent EXCEPT ![p] = head]
  /\ Request(p, head)
  /\ UNCHANGED <<git, db, log, devlog, sha, early, run, next, passed, writer, history, faults>>

\* The chain blocks a developer's commit, or has judged a worker's, of which
\* nothing more is logged; or the answer does not come in time.
Halts(p) ==
  /\ at[p] = "gates"
  /\ Ends(p) \/ UNCHANGED chain
  /\ Leave(p)
  /\ UNCHANGED <<git, db, log, devlog, writer, history, faults>>

\* It lets it pass.  pre_commit.py then logs what HEAD is by then, if it runs
\* from hooks/: a copy in .git/hooks finds no script, and hooks/pre-commit has none.
Passes(p) ==
  /\ p \in Developers /\ at[p] = "gates" /\ saved[p] = Token
  /\ passed' = [passed EXCEPT ![p] = mine[p]]
  /\ Ends(p)
  /\ \E logs \in BOOLEAN : /\ Goto(p, IF logs THEN "resolve" ELSE "commit")
                           /\ early' = [early EXCEPT ![p] = logs]
  /\ UNCHANGED <<git, db, log, devlog, parent, sha, run, next, writer, history, faults>>

\* git makes the commit, and refuses when HEAD has moved since it began.  Its
\* lock is released, and then the post-commit hook fires.
Commit(p) ==
  /\ p \in Developers /\ at[p] = "commit" /\ head < MaxCommits /\ head = parent[p]
  /\ head' = head + 1
  /\ own' = [own EXCEPT ![head + 1] = passed[p]]
  /\ Goto(p, "resolve")
  /\ UNCHANGED <<db, chain, log, devlog, parent, sha, early, run, next, passed, writer,
                 history, faults>>

CommitRefused(p) ==
  /\ p \in Developers /\ at[p] = "commit" /\ head # parent[p]
  /\ Leave(p)
  /\ UNCHANGED <<git, db, chain, log, devlog, writer, history, faults>>

WorkerCommits(p) ==
  /\ p \in Workers /\ at[p] = "idle" /\ head < MaxCommits
  /\ head' = head + 1
  /\ Goto(p, "resolve")
  /\ UNCHANGED <<own, db, chain, log, devlog, parent, sha, early, run, next, passed, writer,
                 history, faults>>

\* The worker's own rev-parse, when git commit and its hook have ended, and its request.
WorkerResolves(p) ==
  /\ p \in Workers /\ at[p] = "submit" /\ ~serving[p]
  /\ \/ Request(p, head) /\ UNCHANGED faults
     \/ Request(p, NoSha) /\ faults < MaxFaults /\ faults' = faults + 1
  /\ Goto(p, "gates")
  /\ UNCHANGED <<git, db, log, devlog, parent, sha, early, run, next, passed, writer, history>>

----------------------------------------------------------------------------
(* update_commit_log.py *)

\* Where a committer goes on when the script has ended.
AfterLogging(p) ==
  \/ /\ early[p] \/ p \in Workers
     /\ Goto(p, IF early[p] THEN "commit" ELSE "submit")
     /\ sha' = [sha EXCEPT ![p] = 0] /\ early' = [early EXCEPT ![p] = FALSE]
     /\ run' = [run EXCEPT ![p] = NoRun] /\ next' = [next EXCEPT ![p] = 1]
     /\ UNCHANGED <<parent, passed>>
  \/ /\ ~early[p] /\ p \in Developers
     /\ Leave(p)

\* _resolve_sha(): git rev-parse HEAD, whoever has committed last.
Resolve(p) ==
  /\ at[p] = "resolve"
  /\ sha' = [sha EXCEPT ![p] = head]
  /\ Goto(p, "read")
  /\ UNCHANGED <<git, db, chain, log, devlog, parent, early, run, next, passed, writer,
                 history, faults>>

\* _existing_shas(), and on to the rows of the commit itself.
ReadShas(p) ==
  /\ at[p] = "read"
  /\ IF sha[p] \in Shas(log) THEN AfterLogging(p)
     ELSE /\ Goto(p, "exact")
          /\ run' = [run EXCEPT ![p] = [sha |-> sha[p], rows |-> NoRows]]
          /\ UNCHANGED <<parent, sha, early, next, passed>>
  /\ UNCHANGED <<git, db, chain, log, devlog, writer, history, faults>>

\* Mutant of Newest: ORDER BY timestamp without DESC.
Oldest(S) == IF S = {} THEN 0 ELSE CHOOSE i \in S : \A j \in S : i <= j

\* ORDER BY timestamp DESC LIMIT 1; 0 when there is none.
Newest(S) == IF S = {} THEN 0 ELSE CHOOSE i \in S : \A j \in S : j <= i

Records(c, k) == {i \in 1..Len(db) : db[i] = [sha |-> c, what |-> k]}
GateRows      == {i \in 1..Len(db) : db[i].what # Token}

\* One query of _gates_for_sha(), or that of _token_for_sha(); each sees what is
\* saved by then.
ReadRow(p) ==
  /\ at[p] \in {"exact", "recent"}
  /\ at[p] = "recent" \/ next[p] < Token \/ run[p].rows # NoRows
  /\ run' = [run EXCEPT ![p].rows[next[p]] = Newest(Records(run[p].sha, next[p]))]
  /\ IF next[p] < Token THEN next' = [next EXCEPT ![p] = @ + 1] /\ UNCHANGED at
     ELSE next' = next /\ Goto(p, "append")
  /\ UNCHANGED <<git, db, chain, log, devlog, parent, sha, early, passed, writer, history, faults>>

\* _gate_fields() has found no row of the commit: the recency fallback takes the
\* commit of the newest row of all, if there is one.
Fallback(p) ==
  /\ at[p] = "exact" /\ next[p] = Token /\ run[p].rows = NoRows
  /\ IF GateRows = {} THEN Goto(p, "append") /\ run' = [run EXCEPT ![p] = NoRun]
     ELSE /\ Goto(p, "recent")
          /\ run' = [run EXCEPT ![p] = [sha |-> db[Newest(GateRows)].sha, rows |-> NoRows]]
  /\ next' = [next EXCEPT ![p] = 1]
  /\ UNCHANGED <<git, db, chain, log, devlog, parent, sha, early, passed, writer, history, faults>>

AppendEntry(p) ==
  /\ at[p] = "append"
  /\ LET line == [sha |-> sha[p], run |-> run[p], consumed |-> FALSE] IN
       /\ log' = Append(log, line)
       /\ logged' = logged \cup {line}
       /\ raced' = IF \E w \in Writers : step[w] = "fill log" THEN raced \cup {line} ELSE raced
       /\ doubled' = (doubled \/ sha[p] \in {l.sha : l \in logged})
  /\ AfterLogging(p)
  /\ UNCHANGED <<git, db, chain, devlog, writer, overlap, faults>>

\* The hooks are best-effort: one that is killed, or gets an error from git or
\* the database, ends without a line and the commit goes on.
HookFails(p) ==
  /\ at[p] \in {"resolve", "read", "exact", "recent", "append"} /\ faults < MaxFaults
  /\ faults' = faults + 1
  /\ AfterLogging(p)
  /\ UNCHANGED <<git, db, chain, log, devlog, writer, history>>

----------------------------------------------------------------------------
(* The devlog writer.  write_text() empties the file and then fills it; the  *)
(* reading and the emptying are one step here, since an append between them  *)
(* is gone as well.                                                          *)

StepTo(w, place) == step' = [step EXCEPT ![w] = place]

Finishes(w) ==
  /\ StepTo(w, "done") /\ picked' = [picked EXCEPT ![w] = {}]
  /\ lines' = [lines EXCEPT ![w] = <<>>] /\ sections' = [sections EXCEPT ![w] = <<>>]

Unconsumed == {i \in 1..Len(log) : ~log[i].consumed}

\* The unconsumed entries, or with --since the later ones of them.
Load(w) ==
  /\ step[w] = "off" /\ Unconsumed # {}
  /\ \E first \in Unconsumed :
       picked' = [picked EXCEPT ![w] = {log[i].sha : i \in {j \in Unconsumed : first <= j}}]
  /\ StepTo(w, "read devlog")
  /\ overlap' = (overlap \/ \E v \in Writers \ {w} : step[v] \notin {"off", "done"})
  /\ UNCHANGED <<git, db, chain, log, devlog, hook, sections, lines, logged, raced, doubled,
                 faults>>

ReadDevlog(w) ==
  /\ step[w] = "read devlog"
  /\ sections' = [sections EXCEPT ![w] = devlog]
  /\ devlog' = <<>>
  /\ StepTo(w, "fill devlog")
  /\ UNCHANGED <<git, db, chain, log, hook, picked, lines, history, faults>>

FillDevlog(w) ==
  /\ step[w] = "fill devlog"
  /\ devlog' = Append(sections[w], picked[w])
  /\ StepTo(w, "read log")
  /\ UNCHANGED <<git, db, chain, log, hook, picked, sections, lines, history, faults>>

ReadLog(w) ==
  /\ step[w] = "read log"
  /\ lines' = [lines EXCEPT ![w] = log]
  /\ log' = <<>>
  /\ StepTo(w, "fill log")
  /\ UNCHANGED <<git, db, chain, devlog, hook, picked, sections, history, faults>>

\* Mutant of Marked: everything in the log is marked, narrated or not.
MarkedAll(w) == [i \in 1..Len(lines[w]) |-> [lines[w][i] EXCEPT !.consumed = TRUE]]

\* Mutant of Marked: what was consumed before is dropped.
MarkedOnly(w) ==
  LET fresh(l) == ~l.consumed
      kept == SelectSeq(lines[w], fresh)
  IN [i \in 1..Len(kept) |-> [kept[i] EXCEPT !.consumed = @ \/ kept[i].sha \in picked[w]]]

\* Mutant of Marked: only the line that was narrated last is marked.
MarkedLast(w) ==
  [i \in 1..Len(lines[w]) |->
     [lines[w][i] EXCEPT !.consumed = @ \/ (i = Len(lines[w]) /\ lines[w][i].sha \in picked[w])]]

Marked(w) ==
  [i \in 1..Len(lines[w]) |->
     [lines[w][i] EXCEPT !.consumed = @ \/ lines[w][i].sha \in picked[w]]]

MarkConsumed(w) ==
  /\ step[w] = "fill log"
  /\ log' = Marked(w)
  /\ Finishes(w)
  /\ UNCHANGED <<git, db, chain, devlog, hook, history, faults>>

\* A writer that is killed, or cannot write: the file stays as it is by then.
WriterFails(w) ==
  /\ step[w] \notin {"off", "done"} /\ faults < MaxFaults
  /\ faults' = faults + 1
  /\ Finishes(w)
  /\ UNCHANGED <<git, db, chain, log, devlog, hook, history>>

----------------------------------------------------------------------------
Log(p) ==
  \/ Resolve(p) \/ ReadShas(p) \/ ReadRow(p) \/ Fallback(p) \/ AppendEntry(p)
  \/ HookFails(p)

Committing(p) ==
  \/ BeginCommit(p) \/ Halts(p) \/ Passes(p) \/ Commit(p) \/ CommitRefused(p)
  \/ WorkerCommits(p) \/ WorkerResolves(p)

Serve(p) == Save(p) \/ EndsUnheard(p)

Narrate(w) ==
  \/ Load(w) \/ ReadDevlog(w) \/ FillDevlog(w) \/ ReadLog(w) \/ MarkConsumed(w)
  \/ WriterFails(w)

Next ==
  \/ \E p \in Committers : Serve(p) \/ Committing(p) \/ Log(p)
  \/ \E w \in Writers : Narrate(w)

Spec == Init /\ [][Next]_vars

----------------------------------------------------------------------------
(* Properties *)

Judgeable == 0..MaxCommits \cup {NoSha}
RowsFound == [1..Token -> Nat]
Runs      == [sha : Judgeable, rows : RowsFound]
Lines     == [sha : 0..MaxCommits, run : Runs, consumed : BOOLEAN]

\* Every variable is of its type.
TypeOK ==
  /\ head \in 0..MaxCommits /\ own \in [0..MaxCommits -> RowsFound]
  /\ db \in Seq([sha : Judgeable, what : 1..Token])
  /\ serving \in [Committers -> BOOLEAN] /\ judged \in [Committers -> Judgeable]
  /\ saved \in [Committers -> 0..Token] /\ mine \in [Committers -> RowsFound]
  /\ log \in Seq(Lines) /\ devlog \in Seq(SUBSET (0..MaxCommits))
  /\ at \in [Committers -> {"idle", "gates", "commit", "submit",
                            "resolve", "read", "exact", "recent", "append"}]
  /\ parent \in [Committers -> 0..MaxCommits] /\ sha \in [Committers -> 0..MaxCommits]
  /\ early \in [Committers -> BOOLEAN]
  /\ run \in [Committers -> Runs] /\ next \in [Committers -> 1..Token]
  /\ passed \in [Committers -> RowsFound]
  /\ step \in [Writers -> {"off", "read devlog", "fill devlog", "read log", "fill log", "done"}]
  /\ picked \in [Writers -> SUBSET (0..MaxCommits)]
  /\ sections \in [Writers -> Seq(SUBSET (0..MaxCommits))]
  /\ lines \in [Writers -> Seq(Lines)]
  /\ logged \subseteq Lines /\ raced \subseteq logged
  /\ doubled \in BOOLEAN /\ overlap \in BOOLEAN /\ faults \in 0..MaxFaults

\* "Marks the entries consumed" after it has narrated them: a consumed entry is
\* in DEVLOG.md, however hooks append meanwhile, as long as writers take turns
\* and none is cut off; the file is empty while it is being written.
ConsumedIsNarrated ==
  ~overlap /\ faults = 0 /\ (\A w \in Writers : step[w] # "fill devlog") =>
    \A i \in 1..Len(log) : log[i].consumed => log[i].sha \in Listed

\* "Never overwrites" and "order preserved": a line that was appended stays in
\* the log, apart from the moment of a rewrite, unless it was appended while a
\* writer had the log in hand, two writers have met or one was cut off.
LostOnlyInRaces ==
  ~overlap /\ faults = 0 /\ (\A w \in Writers : step[w] # "fill log") =>
    \A l \in logged \ raced : \E i \in 1..Len(log) : log[i].sha = l.sha /\ log[i].run = l.run

\* A commit is narrated once: a second section that lists it takes a writer that
\* was cut off or another one beside it, or a commit that both hooks have logged.
NarratedOnce ==
  \A i, j \in 1..Len(devlog) :
    i # j /\ devlog[i] \cap devlog[j] # {} => faults > 0 \/ overlap \/ doubled

\* What is recorded with a developer's commit against the chain that let it pass.
\* The newest of its rows is never older than that chain's last row; what is
\* taken from the parent, which that chain has judged, is all of that chain or
\* saved later, gate by gate and with the token, whatever other chains have saved
\* of the same parent; and what is taken from the commit itself is all later.
RecordsOwnRunOrLater ==
  \A l \in logged :
    /\ \E k \in 1..Gates : own[l.sha][Gates] <= l.run.rows[k]
    /\ l.sha = l.run.sha + 1 => \A k \in 1..Token : own[l.sha][k] <= l.run.rows[k]
    /\ l.sha = l.run.sha =>
         \A k \in 1..Token : l.run.rows[k] = 0 \/ own[l.sha][Token] < l.run.rows[k]

\* What update_commit_log.py says of the fallback, "the run that just passed": the
\* rows and the token recorded with a developer's commit are those of the chain
\* that let it pass.  It does not hold: another chain may save a row between that
\* chain's end and the hook, and then what is taken is the latest row of each
\* gate of the commit that one judges, of several chains, with an older token.
RecordsOwnRun == \A l \in logged : own[l.sha] = NoRows \/ l.run.rows = own[l.sha]

\* "Idempotent": a commit has one line.  It does not hold with pre_commit.py, and
\* no run checks it: two hooks may look for the same commit before either appends.
LoggedOnce == ~doubled

=============================================================================
