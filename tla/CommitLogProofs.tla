-------------------------- MODULE CommitLogProofs --------------------------
(***************************************************************************)
(* Proofs about CommitLog: types; the rows recorded with a commit          *)
(* (RunInv); and, while writers take turns and none is cut off, that lines *)
(* stay in the log (KeptInv), that what is consumed is narrated            *)
(* (ConsumedInv) and that a commit is narrated once (OnceInv).  For any    *)
(* developers, workers, writers, gates, commits and rows.                  *)
(***************************************************************************)
EXTENDS CommitLog, SequenceTheorems, NaturalsInduction, WellFoundedInduction, TLAPS

----------------------------------------------------------------------------
(* The inductive invariants *)

Commits  == 0..MaxCommits
Consumed(s) == {s[i].sha : i \in {j \in 1..Len(s) : s[j].consumed}}
Pending(s)  == {s[i].sha : i \in {j \in 1..Len(s) : ~s[j].consumed}}
SetsOf(s)   == UNION {s[i] : i \in 1..Len(s)}
Calm == ~overlap /\ faults = 0
Active(w) == step[w] \notin {"off", "done"}

Places == {"idle", "gates", "commit", "submit", "resolve", "read", "exact", "recent", "append"}
Steps  == {"off", "read devlog", "fill devlog", "read log", "fill log", "done"}
Rows   == [sha : Judgeable, what : 1..Token]

\* gate_results.db has such a row there; it never loses one.
Row(i, c, k) == i \in 1..Len(db) /\ db[i] = [sha |-> c, what |-> k]
Points(rows, c) == \A k \in 1..Token : rows[k] # 0 => Row(rows[k], c, k)

\* A commit is judged only once it is there, and what has let it pass is of its
\* parent and older than all that is of the commit itself.
GitRuns ==
  /\ \A c \in Commits : /\ c > head => own[c] = NoRows
                        /\ Points(own[c], c - 1)
  /\ \A i \in 1..Len(db) : /\ db[i].sha <= head \/ db[i].sha = NoSha
                           /\ \A k \in 1..Token : db[i].sha \in Commits => own[db[i].sha][k] < i

\* What has let a commit pass is of the commit it is to follow.
HookRuns(p) ==
  /\ sha[p] <= head /\ parent[p] <= head
  /\ Points(passed[p], parent[p])
  /\ at[p] = "idle" => passed[p] = NoRows

\* A chain's rows are of the commit it judges, a developer's chain's the parent.
ChainRuns(p) ==
  /\ judged[p] <= head \/ judged[p] = NoSha
  /\ Points(mine[p], judged[p])
  /\ p \in Developers /\ at[p] = "gates" => judged[p] = parent[p]

\* A gate whose row is not older than the last one of the commit's own chain.
Late(p, g) ==
  IF g < next[p] THEN own[sha[p]][Gates] <= run[p].rows[g]
  ELSE \E i \in 1..Len(db) : Row(i, run[p].sha, g) /\ own[sha[p]][Gates] <= i

\* The property, of one line.
Fits(c, r) ==
  /\ \E k \in 1..Gates : own[c][Gates] <= r.rows[k]
  /\ c = r.sha + 1 => \A k \in 1..Token : own[c][k] <= r.rows[k]
  /\ c = r.sha => \A k \in 1..Token : r.rows[k] = 0 \/ own[c][Token] < r.rows[k]

\* What a hook has found so far, and what it will find.
Looks(p) ==
  /\ at[p] \in {"exact", "recent"} => Points(run[p].rows, run[p].sha)
  /\ at[p] = "exact" => run[p].sha = sha[p]
                        /\ \A k \in 1..Token : next[p] <= k => run[p].rows[k] = 0
  /\ at[p] = "recent" =>
       /\ \E g \in 1..Gates : Late(p, g)
       /\ sha[p] = run[p].sha + 1 =>
            \A k \in 1..Token : k < next[p] => own[sha[p]][k] <= run[p].rows[k]
  /\ at[p] = "append" => Fits(sha[p], run[p])

LineRuns == \A l \in logged : l.sha <= head /\ Fits(l.sha, l.run)

RunInv ==
  /\ GitRuns /\ LineRuns
  /\ \A p \in Committers : HookRuns(p) /\ ChainRuns(p) /\ Looks(p)

\* Nothing is in the log, in DEVLOG.md or in a writer's hands that was not appended.
LoggedInv ==
  LET appended == {l.sha : l \in logged} IN
    /\ Shas(log) \subseteq appended /\ Listed \subseteq appended
    /\ \A w \in Writers : /\ Shas(lines[w]) \subseteq appended
                          /\ picked[w] \subseteq appended
                          /\ SetsOf(sections[w]) \subseteq appended

\* Without faults, writers that have not met take turns.
TurnInv == ~overlap => \A v, w \in Writers : Active(v) /\ Active(w) => v = w

Has(s, l) == \E i \in 1..Len(s) : s[i].sha = l.sha /\ s[i].run = l.run

\* The lines that were appended are in the log, or with the writer that rewrites it.
KeptInv ==
  Calm =>
    /\ (\A w \in Writers : step[w] # "fill log") => \A l \in logged \ raced : Has(log, l)
    /\ \A w \in Writers : step[w] = "fill log" => \A l \in logged \ raced : Has(lines[w], l)

\* What is consumed is in DEVLOG.md, or with the writer that rewrites it.
ConsumedInv ==
  Calm =>
    /\ (\A w \in Writers : step[w] # "fill devlog") => Consumed(log) \subseteq Listed
    /\ \A w \in Writers :
         /\ step[w] = "fill devlog" => Consumed(log) \subseteq SetsOf(sections[w])
         /\ step[w] \in {"read log", "fill log"} => picked[w] \subseteq Listed
         /\ step[w] = "fill log" => Consumed(lines[w]) \subseteq Listed

Disjoint(s) == \A i, j \in 1..Len(s) : i # j => s[i] \cap s[j] = {}

\* What is listed is not picked again: it is consumed, or about to be.
OnceInv ==
  Calm /\ ~doubled =>
    /\ Disjoint(devlog)
    /\ (\A w \in Writers : step[w] \notin {"fill devlog", "read log", "fill log"}) =>
         Pending(log) \cap Listed = {}
    /\ \A w \in Writers :
         /\ step[w] = "read devlog" => picked[w] \cap Listed = {}
         /\ step[w] = "fill devlog" => /\ Disjoint(sections[w])
                                       /\ picked[w] \cap SetsOf(sections[w]) = {}
                                       /\ Pending(log) \cap SetsOf(sections[w]) = {}
         /\ step[w] = "read log" => Pending(log) \cap Listed \subseteq picked[w]
         /\ step[w] = "fill log" => Pending(lines[w]) \cap Listed \subseteq picked[w]
HookTypes ==
  /\ at \in [Committers -> Places]
  /\ parent \in [Committers -> Commits] /\ sha \in [Committers -> Commits]
  /\ early \in [Committers -> BOOLEAN]
  /\ run \in [Committers -> Runs] /\ next \in [Committers -> 1..Token]
  /\ passed \in [Committers -> RowsFound]
ChainTypes ==
  /\ serving \in [Committers -> BOOLEAN] /\ judged \in [Committers -> Judgeable]
  /\ saved \in [Committers -> 0..Token] /\ mine \in [Committers -> RowsFound]
GitTypes ==
  /\ head \in Commits /\ own \in [Commits -> RowsFound] /\ db \in Seq(Rows)
WriterTypes ==
  /\ step \in [Writers -> Steps] /\ picked \in [Writers -> SUBSET Commits]
  /\ sections \in [Writers -> Seq(SUBSET Commits)] /\ lines \in [Writers -> Seq(Lines)]
FileTypes ==
  /\ log \in Seq(Lines) /\ devlog \in Seq(SUBSET Commits)
  /\ logged \subseteq Lines /\ raced \subseteq logged
FlagTypes == doubled \in BOOLEAN /\ overlap \in BOOLEAN /\ faults \in 0..MaxFaults

\* TypeOK, by the group of variables.
LEMMA TypeParts ==
  TypeOK <=> HookTypes /\ ChainTypes /\ GitTypes /\ WriterTypes /\ FileTypes /\ FlagTypes
BY DEF TypeOK, HookTypes, ChainTypes, GitTypes, WriterTypes, FileTypes, FlagTypes, Places, Steps,
   Commits, Rows

\* The constants, and what has not been found.
LEMMA Constants ==
  /\ Gates \in Nat /\ Gates >= 1 /\ Token = Gates + 1 /\ Token \in Nat
  /\ MaxCommits \in Nat /\ NoSha = MaxCommits + 1 /\ MaxFaults \in Nat
  /\ NoRows \in RowsFound /\ NoRun \in Runs
  /\ \A k \in 1..Token : NoRows[k] = 0
  /\ 0 \in Commits /\ 0 \in Judgeable /\ NoSha \in Judgeable /\ Commits \subseteq Judgeable
  /\ Commits \subseteq Nat /\ Judgeable \subseteq Nat /\ 1 \in 1..Token /\ 0 \in 0..Token
<1>1. /\ Gates \in Nat /\ Gates >= 1 /\ Token = Gates + 1 /\ Token \in Nat
      /\ MaxCommits \in Nat /\ NoSha = MaxCommits + 1 /\ MaxFaults \in Nat
  BY LogAssumption DEF Token, NoSha
<1>2. NoRows \in RowsFound /\ \A k \in 1..Token : NoRows[k] = 0
  BY DEF NoRows, RowsFound
<1>3. /\ 0 \in Commits /\ 0 \in Judgeable /\ NoSha \in Judgeable /\ Commits \subseteq Judgeable
      /\ Commits \subseteq Nat /\ Judgeable \subseteq Nat /\ 1 \in 1..Token /\ 0 \in 0..Token
  BY <1>1 DEF Commits, Judgeable
<1>4. NoRun \in Runs
  BY <1>2, <1>3 DEF NoRun, Runs
<1>5. QED
  BY <1>1, <1>2, <1>3, <1>4

\* Every non-empty set of places in gate_results.db has a latest one: < is well founded.
LEMMA HasLatest ==
  ASSUME NEW n \in Nat, NEW S \in SUBSET (1..n), S # {}
  PROVE  \E x \in S : \A y \in S : y <= x
<1> DEFINE T == {n - x : x \in S}
<1>1. T \in SUBSET Nat /\ T # {}
  <2>1. ASSUME NEW x \in S PROVE n - x \in Nat
    OBVIOUS
  <2>2. QED
    BY <2>1
<1>2. \E d \in T : \A e \in T : d <= e
  <2> HIDE DEF T
  <2> DEFINE R == OpToRel(<, Nat)
  <2>1. IsWellFoundedOn(R, Nat)
    BY NatLessThanWellFounded
  <2>2. \A x, y \in Nat : x < y => <<x, y>> \in R
    BY DEF OpToRel
  <2> HIDE DEF R
  <2>3. PICK d \in T : \A e \in T : ~(<<e, d>> \in R)
    BY <1>1, <2>1, WFMin
  <2>4. ASSUME NEW e \in T PROVE d <= e
    <3>1. d \in Nat /\ e \in Nat /\ ~(e < d)
      BY <1>1, <2>2, <2>3
    <3>2. QED
      BY <3>1
  <2>5. QED
    BY <2>4
<1>3. PICK x \in S : \A e \in T : n - x <= e
  BY <1>2
<1>4. ASSUME NEW y \in S PROVE y <= x
  <2>1. n - x <= n - y
    BY <1>3
  <2>2. QED
    BY <2>1
<1>5. QED
  BY <1>4

\* ORDER BY timestamp DESC LIMIT 1.
LEMMA NewestIs ==
  ASSUME NEW n \in Nat, NEW S \in SUBSET (1..n)
  PROVE  /\ Newest(S) \in Nat /\ (S = {} => Newest(S) = 0) /\ (S # {} => Newest(S) \in S)
         /\ \A i \in S : i <= Newest(S)
<1>1. CASE S = {}
  BY <1>1 DEF Newest
<1>2. CASE S # {}
  <2>1. \E i \in S : \A j \in S : j <= i
    BY <1>2, HasLatest
  <2>2. Newest(S) \in S /\ \A j \in S : j <= Newest(S)
    BY <1>2, <2>1 DEF Newest
  <2>3. Newest(S) \in 1..n
    BY <2>2
  <2>4. Newest(S) \in Nat
    BY <2>3
  <2>5. QED
    BY <1>2, <2>2, <2>4
<1>3. QED
  BY <1>1, <1>2

\* A committer that a step leaves alone.
HookSame(p) ==
  UNCHANGED <<at[p], parent[p], sha[p], run[p], next[p], passed[p]>>

\* A hook or a commit that has ended.
HookLeft(p) ==
  /\ \A q \in Committers \ {p} : HookSame(q)
  /\ sha'[p] = 0
  /\ \/ at'[p] = "idle" /\ parent'[p] = 0 /\ passed'[p] = NoRows
     \/ at'[p] \in {"commit", "submit"} /\ parent'[p] = parent[p] /\ passed'[p] = passed[p]

\* The end of git commit.
LEMMA LeaveStep ==
  ASSUME HookTypes, NEW p \in Committers, Leave(p)
  PROVE  HookTypes' /\ HookLeft(p)
<1>1. "idle" \in Places
  BY DEF Places
<1>2. HookTypes'
  BY <1>1, Constants DEF Leave, Goto, HookTypes
<1>3. HookLeft(p)
  BY DEF Leave, Goto, HookTypes, HookLeft, HookSame
<1>4. QED
  BY <1>2, <1>3

\* update_commit_log.py ends and git commit goes on.
LEMMA AfterLoggingStep ==
  ASSUME HookTypes, NEW p \in Committers, AfterLogging(p)
  PROVE  HookTypes' /\ HookLeft(p)
<1>1. CASE Leave(p)
  BY <1>1, LeaveStep
<1>2. CASE ~Leave(p)
  <2>1. /\ early' = [early EXCEPT ![p] = FALSE] /\ run' = [run EXCEPT ![p] = NoRun]
        /\ sha' = [sha EXCEPT ![p] = 0] /\ next' = [next EXCEPT ![p] = 1]
        /\ UNCHANGED <<parent, passed>>
    BY <1>2 DEF AfterLogging
  <2>2. PICK place \in {"commit", "submit"} : at' = [at EXCEPT ![p] = place]
    <3>1. (IF early[p] THEN "commit" ELSE "submit") \in {"commit", "submit"}
      OBVIOUS
    <3>2. QED
      BY <1>2, <3>1, Zenon DEF AfterLogging, Goto
  <2>3. HookTypes'
    BY <2>1, <2>2, Constants DEF HookTypes, Places
  <2>4. HookLeft(p)
    BY <2>1, <2>2 DEF HookTypes, HookLeft, HookSame
  <2>5. QED
    BY <2>3, <2>4
<1>3. QED
  BY <1>1, <1>2

\* The beginning and the end of a chain.
LEMMA ChainStep ==
  ASSUME ChainTypes, NEW p \in Committers, NEW c \in Judgeable, Request(p, c) \/ Ends(p)
  PROVE  /\ ChainTypes' /\ mine'[p] = NoRows
         /\ Request(p, c) => judged'[p] = c
         /\ Ends(p) => judged'[p] = 0
         /\ \A q \in Committers \ {p} : UNCHANGED <<judged[q], mine[q]>>
<1>1. CASE Request(p, c)
  <2>1. ChainTypes'
    BY <1>1, Constants DEF Request, ChainTypes
  <2>2. mine'[p] = NoRows /\ judged'[p] = c
        /\ \A q \in Committers \ {p} : UNCHANGED <<judged[q], mine[q]>>
    BY <1>1 DEF Request, ChainTypes
  <2>3. Ends(p) => judged'[p] = 0
    BY DEF Ends, ChainTypes
  <2>4. QED
    BY <2>1, <2>2, <2>3
<1>2. CASE Ends(p)
  <2>1. ChainTypes'
    BY <1>2, Constants DEF Ends, ChainTypes
  <2>2. mine'[p] = NoRows /\ judged'[p] = 0
        /\ \A q \in Committers \ {p} : UNCHANGED <<judged[q], mine[q]>>
    BY <1>2 DEF Ends, ChainTypes
  <2>3. Request(p, c) => judged'[p] = c
    BY DEF Request, ChainTypes
  <2>4. QED
    BY <2>1, <2>2, <2>3
<1>3. QED
  BY <1>1, <1>2

----------------------------------------------------------------------------
(* Types *)

\* A chain's step keeps the types, and saves at most a row.
LEMMA ServeTypes ==
  ASSUME ChainTypes, GitTypes, NEW p \in Committers, Serve(p)
  PROVE  ChainTypes' /\ GitTypes'
<1>1. CASE Save(p)
  <2>1. saved[p] + 1 \in 1..Token /\ Len(db) + 1 \in Nat
    BY <1>1, Constants, LenProperties DEF Save, ChainTypes, GitTypes
  <2>2. [sha |-> judged[p], what |-> saved[p] + 1] \in Rows
    BY <2>1 DEF Rows, ChainTypes
  <2>3. db' \in Seq(Rows)
    BY <1>1, <2>2, AppendProperties DEF Save, GitTypes
  <2>4. saved' \in [Committers -> 0..Token]
    BY <1>1, <2>1 DEF Save, ChainTypes
  <2>5. mine' \in [Committers -> RowsFound]
    <3>1. [mine[p] EXCEPT ![saved[p] + 1] = Len(db) + 1] \in RowsFound
      BY <2>1 DEF ChainTypes, RowsFound
    <3>2. mine' = [mine EXCEPT ![p] = [mine[p] EXCEPT ![saved[p] + 1] = Len(db) + 1]]
      BY <1>1 DEF Save, ChainTypes
    <3>3. QED
      BY <3>1, <3>2 DEF ChainTypes
  <2>6. QED
    BY <1>1, <2>3, <2>4, <2>5 DEF Save, ChainTypes, GitTypes, git
<1>2. CASE EndsUnheard(p)
  BY <1>2, ChainStep, Constants DEF EndsUnheard, GitTypes, git
<1>3. QED
  BY <1>1, <1>2 DEF Serve

\* A committer's step keeps the types of its variables and of git's.
LEMMA CommittingTypes ==
  ASSUME HookTypes, ChainTypes, GitTypes, FlagTypes, NEW p \in Committers, Committing(p)
  PROVE  HookTypes' /\ ChainTypes' /\ GitTypes' /\ FlagTypes'
<1>0. MaxCommits \in Nat /\ MaxFaults \in Nat /\ head \in Nat /\ head \in Judgeable
  BY Constants DEF GitTypes
<1>1. CASE BeginCommit(p)
  <2>1. Request(p, head) /\ UNCHANGED <<head, own, db, doubled, overlap, faults>>
    BY <1>1 DEF BeginCommit, git, history
  <2>2. ChainTypes'
    BY <1>0, <2>1, ChainStep
  <2>3. HookTypes'
    BY <1>1 DEF BeginCommit, Goto, HookTypes, GitTypes, Places
  <2>4. QED
    BY <2>1, <2>2, <2>3 DEF GitTypes, FlagTypes
<1>2. CASE Halts(p)
  <2>1. Leave(p) /\ UNCHANGED <<head, own, db, doubled, overlap, faults>>
    BY <1>2 DEF Halts, git, history
  <2>2. ChainTypes'
    <3>1. CASE Ends(p)
      BY <3>1, ChainStep, Constants
    <3>2. CASE UNCHANGED chain
      BY <3>2 DEF chain, ChainTypes
    <3>3. QED
      BY <1>2, <3>1, <3>2 DEF Halts
  <2>3. QED
    BY <2>1, <2>2, LeaveStep DEF GitTypes, FlagTypes
<1>3. CASE Passes(p)
  <2>1. Ends(p) /\ UNCHANGED <<head, own, db, parent, sha, run, next, doubled, overlap, faults>>
    BY <1>3 DEF Passes, git, history
  <2>2. PICK logs \in BOOLEAN : Goto(p, IF logs THEN "resolve" ELSE "commit")
                                /\ early' = [early EXCEPT ![p] = logs]
    BY <1>3 DEF Passes
  <2>3. at' \in [Committers -> Places]
    BY <2>2 DEF HookTypes, Goto, Places
  <2>4. passed' = [passed EXCEPT ![p] = mine[p]] /\ mine[p] \in RowsFound
    BY <1>3 DEF Passes, ChainTypes
  <2>5. HookTypes'
    BY <2>1, <2>2, <2>3, <2>4 DEF HookTypes
  <2>6. ChainTypes'
    BY <2>1, ChainStep, Constants
  <2>7. QED
    BY <2>1, <2>5, <2>6 DEF GitTypes, FlagTypes
<1>4. CASE Commit(p)
  <2>1. head + 1 \in Commits /\ head' = head + 1 /\ passed[p] \in RowsFound
    BY <1>0, <1>4 DEF Commit, Commits, HookTypes
  <2>2. HookTypes'
    BY <1>4 DEF Commit, Goto, HookTypes, Places
  <2>3. GitTypes'
    BY <1>4, <2>1 DEF Commit, GitTypes
  <2>4. QED
    BY <1>4, <2>2, <2>3 DEF Commit, ChainTypes, FlagTypes, chain, history
<1>5. CASE CommitRefused(p)
  BY <1>5, LeaveStep DEF CommitRefused, ChainTypes, GitTypes, FlagTypes, git, chain, history
<1>6. CASE WorkerCommits(p)
  <2>1. head + 1 \in Commits /\ head' = head + 1
    BY <1>0, <1>6 DEF WorkerCommits, Commits
  <2>2. HookTypes'
    BY <1>6 DEF WorkerCommits, Goto, HookTypes, Places
  <2>3. QED
    BY <1>6, <2>1, <2>2 DEF WorkerCommits, GitTypes, ChainTypes, FlagTypes, chain, history
<1>7. CASE WorkerResolves(p)
  <2>1. ChainTypes'
    BY <1>0, <1>7, ChainStep, Constants DEF WorkerResolves
  <2>2. HookTypes'
    BY <1>7 DEF WorkerResolves, Goto, HookTypes, Places
  <2>3. faults' \in 0..MaxFaults
    BY <1>0, <1>7 DEF WorkerResolves, FlagTypes
  <2>4. QED
    BY <1>7, <2>1, <2>2, <2>3 DEF WorkerResolves, GitTypes, FlagTypes, git, history
<1>8. QED
  BY <1>1, <1>2, <1>3, <1>4, <1>5, <1>6, <1>7 DEF Committing

\* The line that a hook appends.
LineOf(p) == [sha |-> sha[p], run |-> run[p], consumed |-> FALSE]

\* A query reads a place of gate_results.db, or none.
LEMMA RowTypes ==
  ASSUME GitTypes, NEW c, NEW k
  PROVE  /\ Newest(Records(c, k)) \in Nat
         /\ Newest(Records(c, k)) # 0 => Row(Newest(Records(c, k)), c, k)
         /\ \A i : Row(i, c, k) => i <= Newest(Records(c, k))
<1>1. Len(db) \in Nat /\ Records(c, k) \in SUBSET (1..Len(db))
  BY LenProperties DEF GitTypes, Records
<1>2. \A i : i \in Records(c, k) <=> Row(i, c, k)
  BY DEF Records, Row
<1>3. QED
  BY <1>1, <1>2, NewestIs

\* The recency fallback reads the commit of a row.
LEMMA RecentTypes ==
  ASSUME GitTypes, GateRows # {}
  PROVE  /\ Newest(GateRows) \in 1..Len(db) /\ db[Newest(GateRows)] \in Rows
         /\ db[Newest(GateRows)].what # Token
         /\ \A i \in 1..Len(db) : db[i].what # Token => i <= Newest(GateRows)
<1>1. Len(db) \in Nat /\ GateRows \in SUBSET (1..Len(db))
  BY LenProperties DEF GitTypes, GateRows
<1>2. Newest(GateRows) \in GateRows /\ \A i \in GateRows : i <= Newest(GateRows)
  BY <1>1, NewestIs
<1>3. QED
  BY <1>2, ElementOfSeq DEF GateRows, GitTypes

\* A hook's step keeps the types, and appends its line when it comes to that.
LEMMA LogTypes ==
  ASSUME HookTypes, ChainTypes, GitTypes, FlagTypes, FileTypes, NEW p \in Committers, Log(p)
  PROVE  HookTypes' /\ ChainTypes' /\ GitTypes' /\ FlagTypes' /\ FileTypes'
<1>0. UNCHANGED <<head, own, db, serving, judged, saved, mine>>
  BY DEF Log, Resolve, ReadShas, ReadRow, Fallback, AppendEntry, HookFails, git, chain
<1>g. ChainTypes' /\ GitTypes'
  BY <1>0 DEF ChainTypes, GitTypes
<1>1. CASE Resolve(p)
  <2>1. HookTypes'
    BY <1>1 DEF Resolve, Goto, HookTypes, GitTypes, Places
  <2>2. QED
    BY <1>1, <1>g, <2>1 DEF Resolve, FlagTypes, FileTypes, history
<1>2. CASE ReadShas(p)
  <2>1. HookTypes'
    <3>1. CASE AfterLogging(p)
      BY <3>1, AfterLoggingStep
    <3>2. CASE ~AfterLogging(p)
      <4>1. /\ Goto(p, "exact") /\ UNCHANGED <<parent, sha, early, next, passed>>
            /\ run' = [run EXCEPT ![p] = [sha |-> sha[p], rows |-> NoRows]]
        BY <1>2, <3>2 DEF ReadShas
      <4>2. [sha |-> sha[p], rows |-> NoRows] \in Runs
        BY Constants DEF Runs, HookTypes
      <4>3. QED
        BY <4>1, <4>2 DEF Goto, HookTypes, Places
    <3>3. QED
      BY <3>1, <3>2
  <2>2. QED
    BY <1>2, <1>g, <2>1 DEF ReadShas, FlagTypes, FileTypes, history
<1>3. CASE ReadRow(p)
  <2>1. run' \in [Committers -> Runs]
    <3>1. next[p] \in 1..Token /\ run[p] \in Runs /\ run[p].rows \in RowsFound
      BY DEF HookTypes, Runs
    <3>2. DEFINE n == Newest(Records(run[p].sha, next[p]))
    <3>3. n \in Nat
      BY RowTypes
    <3> HIDE DEF n
    <3>4. [run[p] EXCEPT !.rows[next[p]] = n] \in Runs
      BY <3>1, <3>3 DEF Runs, RowsFound
    <3>5. run' = [run EXCEPT ![p] = [run[p] EXCEPT !.rows[next[p]] = n]]
      BY <1>3 DEF ReadRow, HookTypes, n
    <3>6. QED
      BY <3>4, <3>5 DEF HookTypes
  <2>2. next' \in [Committers -> 1..Token] /\ at' \in [Committers -> Places]
    BY <1>3, Constants DEF ReadRow, Goto, HookTypes, Places
  <2>3. HookTypes'
    BY <1>3, <2>1, <2>2 DEF ReadRow, HookTypes
  <2>4. QED
    BY <1>3, <1>g, <2>3 DEF ReadRow, FlagTypes, FileTypes, history
<1>4. CASE Fallback(p)
  <2>1. PICK r \in Runs, place \in {"append", "recent"} :
          run' = [run EXCEPT ![p] = r] /\ at' = [at EXCEPT ![p] = place]
    <3>1. CASE GateRows = {}
      BY <1>4, <3>1, Constants DEF Fallback, Goto
    <3>2. CASE GateRows # {}
      <4>1. [sha |-> db[Newest(GateRows)].sha, rows |-> NoRows] \in Runs
        BY <3>2, RecentTypes, Constants DEF Rows, Runs
      <4>2. QED
        BY <1>4, <3>2, <4>1 DEF Fallback, Goto
    <3>3. QED
      BY <3>1, <3>2
  <2>2. HookTypes'
    BY <1>4, <2>1, Constants DEF Fallback, HookTypes, Places
  <2>3. QED
    BY <1>4, <1>g, <2>2 DEF Fallback, FlagTypes, FileTypes, history
<1>5. CASE AppendEntry(p)
  <2>1. LineOf(p) \in Lines
    BY DEF LineOf, Lines, HookTypes, Commits
  <2>2. log' = Append(log, LineOf(p)) /\ logged' = logged \cup {LineOf(p)}
        /\ (raced' = raced \/ raced' = raced \cup {LineOf(p)})
        /\ AfterLogging(p) /\ UNCHANGED <<devlog, overlap, faults>>
    BY <1>5 DEF AppendEntry, LineOf
  <2>3. doubled' \in BOOLEAN
    BY <1>5, Zenon DEF AppendEntry
  <2>4. FileTypes'
    <3>1. log' \in Seq(Lines)
      BY <2>1, <2>2, AppendProperties DEF FileTypes
    <3>2. QED
      BY <2>1, <2>2, <3>1 DEF FileTypes
  <2>5. QED
    BY <1>g, <2>2, <2>3, <2>4, AfterLoggingStep DEF FlagTypes
<1>6. CASE HookFails(p)
  <2>1. AfterLogging(p) /\ faults' \in 0..MaxFaults
    BY <1>6, LogAssumption DEF HookFails, FlagTypes
  <2>2. QED
    BY <1>6, <1>g, <2>1, AfterLoggingStep DEF HookFails, FlagTypes, FileTypes, history
<1>7. QED
  BY <1>1, <1>2, <1>3, <1>4, <1>5, <1>6 DEF Log

\* mark_consumed() keeps the lines and only ever sets the flag.
LEMMA MarkedIs ==
  ASSUME NEW w \in Writers, lines[w] \in Seq(Lines)
  PROVE  /\ Marked(w) \in Seq(Lines) /\ Len(Marked(w)) = Len(lines[w])
         /\ \A i \in 1..Len(lines[w]) :
              /\ Marked(w)[i].sha = lines[w][i].sha /\ Marked(w)[i].run = lines[w][i].run
              /\ Marked(w)[i].consumed <=> lines[w][i].consumed \/ lines[w][i].sha \in picked[w]
<1>1. Len(lines[w]) \in Nat /\ \A i \in 1..Len(lines[w]) : lines[w][i] \in Lines
  BY LenProperties, ElementOfSeq
<1>2. ASSUME NEW l \in Lines, NEW b \in BOOLEAN
      PROVE  LET m == [l EXCEPT !.consumed = b]
             IN m \in Lines /\ m.sha = l.sha /\ m.run = l.run /\ m.consumed = b
  BY DEF Lines
<1> DEFINE b(i) == lines[w][i].consumed \/ lines[w][i].sha \in picked[w]
           m(i) == [lines[w][i] EXCEPT !.consumed = b(i)]
<1>3. Marked(w) = [i \in 1..Len(lines[w]) |-> m(i)]
  BY DEF Marked
<1>4. ASSUME NEW i \in 1..Len(lines[w])
      PROVE  m(i) \in Lines /\ m(i).sha = lines[w][i].sha /\ m(i).run = lines[w][i].run
             /\ (m(i).consumed = b(i))
  <2>1. b(i) \in BOOLEAN
    BY Zenon
  <2>2. QED
    BY <1>1, <1>2, <2>1
<1> HIDE DEF m
<1>5. Marked(w) \in Seq(Lines) /\ Len(Marked(w)) = Len(lines[w])
      /\ \A i \in 1..Len(lines[w]) : Marked(w)[i] = m(i)
  <2>1. Marked(w) \in [1..Len(lines[w]) -> Lines] /\ DOMAIN Marked(w) = 1..Len(lines[w])
        /\ \A i \in 1..Len(lines[w]) : Marked(w)[i] = m(i)
    BY <1>3, <1>4
  <2>2. Marked(w) \in Seq(Lines)
    BY <1>1, <2>1
  <2>3. QED
    BY <1>1, <2>1, <2>2, LenProperties
<1>6. QED
  BY <1>4, <1>5, Zenon

\* A writer's step keeps the types.
LEMMA NarrateTypes ==
  ASSUME WriterTypes, FlagTypes, FileTypes, NEW w \in Writers, Narrate(w)
  PROVE  WriterTypes' /\ FlagTypes' /\ FileTypes'
<1>0. <<>> \in Seq(Lines) /\ <<>> \in Seq(SUBSET Commits) /\ {} \in SUBSET Commits
  BY EmptySeq
<1>1. ASSUME Finishes(w) PROVE WriterTypes'
  BY <1>0, <1>1 DEF Finishes, StepTo, WriterTypes, Steps
<1>2. CASE Load(w)
  <2>1. \A i \in 1..Len(log) : log[i].sha \in Commits
    <3>1. \A i \in 1..Len(log) : log[i] \in Lines
      BY ElementOfSeq DEF FileTypes
    <3>2. QED
      BY <3>1 DEF Lines, Commits
  <2>2. PICK first \in Unconsumed :
          picked' = [picked EXCEPT ![w] = {log[i].sha : i \in {j \in Unconsumed : first <= j}}]
    BY <1>2 DEF Load
  <2>3. {log[i].sha : i \in {j \in Unconsumed : first <= j}} \in SUBSET Commits
    BY <2>1 DEF Unconsumed
  <2>4. step' = [step EXCEPT ![w] = "read devlog"]
        /\ UNCHANGED <<log, devlog, sections, lines, logged, raced, doubled, faults>>
    BY <1>2 DEF Load, StepTo
  <2>5. overlap' \in BOOLEAN
    BY <1>2, Zenon DEF Load
  <2>6. WriterTypes'
    BY <2>2, <2>3, <2>4 DEF WriterTypes, Steps
  <2>7. QED
    BY <2>4, <2>5, <2>6 DEF FlagTypes, FileTypes
<1>3. CASE ReadDevlog(w)
  BY <1>0, <1>3 DEF ReadDevlog, StepTo, WriterTypes, Steps, FlagTypes, FileTypes, history
<1>4. CASE FillDevlog(w)
  <2>1. step' = [step EXCEPT ![w] = "read log"] /\ devlog' = Append(sections[w], picked[w])
        /\ UNCHANGED <<log, picked, sections, lines, history, faults>>
    BY <1>4 DEF FillDevlog, StepTo
  <2>2. devlog' \in Seq(SUBSET Commits)
    BY <2>1, AppendProperties DEF WriterTypes
  <2>3. QED
    BY <2>1, <2>2 DEF WriterTypes, Steps, FlagTypes, FileTypes, history
<1>5. CASE ReadLog(w)
  BY <1>0, <1>5 DEF ReadLog, StepTo, WriterTypes, Steps, FlagTypes, FileTypes, history
<1>6. CASE MarkConsumed(w)
  <2>1. Finishes(w) /\ log' = Marked(w) /\ UNCHANGED <<devlog, logged, raced, doubled, overlap, faults>>
    BY <1>6 DEF MarkConsumed, history
  <2>2. log' \in Seq(Lines)
    BY <2>1, MarkedIs DEF WriterTypes
  <2>3. QED
    BY <1>1, <2>1, <2>2 DEF FlagTypes, FileTypes
<1>7. CASE WriterFails(w)
  <2>1. Finishes(w) /\ faults' \in 0..MaxFaults
    BY <1>7, LogAssumption DEF WriterFails, FlagTypes
  <2>2. QED
    BY <1>1, <1>7, <2>1 DEF WriterFails, FlagTypes, FileTypes, history
<1>8. QED
  BY <1>2, <1>3, <1>4, <1>5, <1>6, <1>7 DEF Narrate

\* Which variables the steps leave alone.
LEMMA Frames ==
  /\ \A p \in Committers : Serve(p) => UNCHANGED <<log, devlog, hook, writer, history, faults>>
  /\ \A p \in Committers : Committing(p) => UNCHANGED <<log, devlog, history, writer>>
  /\ \A p \in Committers : Log(p) => UNCHANGED writer
  /\ \A w \in Writers : Narrate(w) => UNCHANGED <<hook, git, chain, db, logged>>
<1>1. ASSUME NEW p \in Committers, Serve(p)
      PROVE  UNCHANGED <<log, devlog, hook, writer, history, faults>>
  BY <1>1 DEF Serve, Save, EndsUnheard
<1>2. ASSUME NEW p \in Committers, Committing(p)
      PROVE  UNCHANGED <<log, devlog, history, writer>>
  BY <1>2 DEF Committing, BeginCommit, Halts, Passes, Commit, CommitRefused, WorkerCommits,
     WorkerResolves
<1>3. ASSUME NEW p \in Committers, Log(p)
      PROVE  UNCHANGED writer
  BY <1>3 DEF Log, Resolve, ReadShas, ReadRow, Fallback, AppendEntry, HookFails
<1>4. ASSUME NEW w \in Writers, Narrate(w)
      PROVE  UNCHANGED <<hook, git, chain, db, logged>>
  BY <1>4 DEF Narrate, Load, ReadDevlog, FillDevlog, ReadLog, MarkConsumed, WriterFails, history
<1>5. QED
  BY <1>1, <1>2, <1>3, <1>4

\* Every step keeps the types.
LEMMA TypeStep ==
  ASSUME TypeOK, [Next]_vars
  PROVE  TypeOK'
<1>0. HookTypes /\ ChainTypes /\ GitTypes /\ WriterTypes /\ FileTypes /\ FlagTypes
  BY TypeParts
<1>g. HookTypes' /\ ChainTypes' /\ GitTypes' /\ WriterTypes' /\ FileTypes' /\ FlagTypes' => TypeOK'
  BY DEF TypeOK, HookTypes, ChainTypes, GitTypes, WriterTypes, FileTypes, FlagTypes, Places, Steps,
     Commits, Rows
<1>w. ASSUME UNCHANGED writer PROVE WriterTypes'
  BY <1>0, <1>w DEF writer, WriterTypes
<1>h. ASSUME UNCHANGED hook PROVE HookTypes'
  BY <1>0, <1>h DEF hook, HookTypes
<1>1. ASSUME NEW p \in Committers, Serve(p) PROVE TypeOK'
  <2>1. UNCHANGED <<log, devlog, hook, writer, history, faults>>
    BY <1>1, Frames
  <2>2. FileTypes' /\ FlagTypes'
    BY <1>0, <2>1 DEF FileTypes, FlagTypes, history
  <2>3. QED
    BY <1>0, <1>1, <1>g, <1>w, <1>h, <2>1, <2>2, ServeTypes
<1>2. ASSUME NEW p \in Committers, Committing(p) PROVE TypeOK'
  <2>1. UNCHANGED <<log, devlog, history, writer>>
    BY <1>2, Frames
  <2>2. FileTypes'
    BY <1>0, <2>1 DEF FileTypes, history
  <2>3. QED
    BY <1>0, <1>2, <1>g, <1>w, <2>1, <2>2, CommittingTypes
<1>3. ASSUME NEW p \in Committers, Log(p) PROVE TypeOK'
  BY <1>0, <1>3, <1>g, <1>w, LogTypes, Frames
<1>4. ASSUME NEW w \in Writers, Narrate(w) PROVE TypeOK'
  <2>1. UNCHANGED <<hook, git, chain, db>>
    BY <1>4, Frames
  <2>2. ChainTypes' /\ GitTypes'
    BY <1>0, <2>1 DEF git, chain, ChainTypes, GitTypes
  <2>3. QED
    BY <1>0, <1>4, <1>g, <1>h, <2>1, <2>2, NarrateTypes
<1>5. CASE UNCHANGED vars
  BY <1>5 DEF TypeOK, vars, git, chain, hook, writer, history
<1>6. QED
  BY <1>1, <1>2, <1>3, <1>4, <1>5 DEF Next

----------------------------------------------------------------------------
(* Runs *)

\* gate_results.db only gets longer, and history behind HEAD stays.
DbGrows ==
  /\ Len(db) \in Nat /\ Len(db') \in Nat /\ Len(db) <= Len(db')
  /\ \A i \in 1..Len(db) : db'[i] = db[i]
GitGrows ==
  /\ DbGrows /\ head \in Nat /\ head' \in Nat /\ head <= head'
  /\ \A c \in Commits : c <= head => own'[c] = own[c]

\* Nothing of git's and of the database's changes.
LEMMA GitStays ==
  ASSUME GitTypes, GitRuns, UNCHANGED <<git, db>>
  PROVE  GitGrows /\ GitRuns'
<1>1. Len(db) \in Nat /\ head \in Nat /\ UNCHANGED <<head, own, db>>
  BY LenProperties, Constants DEF GitTypes, git
<1>2. GitGrows
  BY <1>1 DEF GitGrows, DbGrows
<1>3. GitRuns'
  BY <1>1 DEF GitRuns, Points, Row
<1>4. QED
  BY <1>2, <1>3

\* A row that is there stays there.
LEMMA PointsStay ==
  ASSUME DbGrows, NEW r, NEW c, Points(r, c)
  PROVE  Points(r, c)'
BY DEF DbGrows, Points, Row

\* What is known of a hook that does not step stays true.
LEMMA HookStays ==
  ASSUME HookTypes, GitTypes, GitGrows, NEW q \in Committers, HookSame(q), HookRuns(q), Looks(q)
  PROVE  HookRuns(q)' /\ Looks(q)'
<1>1. /\ sha[q] \in Commits /\ sha[q] \in Nat /\ parent[q] \in Nat /\ own'[sha[q]] = own[sha[q]]
      /\ sha[q] <= head' /\ parent[q] <= head'
  BY Constants DEF HookTypes, HookRuns, GitGrows
<1>2. Points(passed[q], parent[q])'
  BY DEF HookSame, HookRuns, GitGrows, DbGrows, Points, Row
<1>3. HookRuns(q)'
  BY <1>1, <1>2 DEF HookRuns, HookSame
<1>4. at[q] \in {"exact", "recent"} => Points(run[q].rows, run[q].sha)'
  BY DEF HookSame, Looks, GitGrows, DbGrows, Points, Row
<1>5. ASSUME NEW g \in 1..Gates, Late(q, g) PROVE Late(q, g)'
  <2>1. CASE g < next[q]
    BY <1>1, <1>5, <2>1 DEF Late, HookSame
  <2>2. CASE ~(g < next[q])
    <3>1. PICK i \in 1..Len(db) : Row(i, run[q].sha, g) /\ own[sha[q]][Gates] <= i
      BY <1>5, <2>2 DEF Late
    <3>2. i \in 1..Len(db') /\ db'[i] = db[i]
      BY DEF GitGrows, DbGrows
    <3>3. Row(i, run[q].sha, g)' /\ own'[sha'[q]][Gates] <= i
      BY <1>1, <3>1, <3>2 DEF Row, HookSame
    <3>4. QED
      BY <2>2, <3>2, <3>3 DEF Late, HookSame
  <2>3. QED
    BY <2>1, <2>2
<1>6. at[q] = "append" => Fits(sha[q], run[q])'
  BY <1>1 DEF Looks, Fits, HookSame
<1>7. at[q] = "recent" => \E g \in 1..Gates : Late(q, g)'
  BY <1>5 DEF Looks
<1>8. QED
  BY <1>1, <1>3, <1>4, <1>6, <1>7 DEF Looks, HookSame

\* And of its chain.
LEMMA ChainStays ==
  ASSUME ChainTypes, HookTypes, GitGrows, NEW q \in Committers, ChainRuns(q),
         UNCHANGED <<judged[q], mine[q]>>,
         at'[q] = "gates" => at[q] = "gates" /\ parent'[q] = parent[q]
  PROVE  ChainRuns(q)'
<1>1. judged[q] \in Nat
  BY Constants DEF ChainTypes
<1>2. Points(mine[q], judged[q])'
  BY DEF ChainRuns, GitGrows, DbGrows, Points, Row
<1>3. judged'[q] <= head' \/ judged'[q] = NoSha
  BY <1>1 DEF ChainRuns, GitGrows
<1>4. QED
  BY <1>2, <1>3 DEF ChainRuns

\* A chain that begins or has ended has no rows.
LEMMA ChainFresh ==
  ASSUME NEW p \in Committers, mine'[p] = NoRows, judged'[p] <= head' \/ judged'[p] = NoSha,
         p \in Developers /\ at'[p] = "gates" => judged'[p] = parent'[p]
  PROVE  ChainRuns(p)'
<1>1. Points(mine[p], judged[p])'
  BY Constants DEF Points
<1>2. QED
  BY <1>1 DEF ChainRuns

\* A hook or a commit that has ended has nothing in hand but what let the commit pass.
LEMMA LeftRuns ==
  ASSUME HookTypes, GitTypes, GitGrows, NEW p \in Committers, HookLeft(p), HookRuns(p)
  PROVE  HookRuns(p)' /\ Looks(p)'
<1>1. at'[p] \notin {"exact", "recent", "append"} /\ sha'[p] = 0
  BY DEF HookLeft
<1>2. Looks(p)'
  BY <1>1 DEF Looks
<1>3. CASE at'[p] = "idle" /\ parent'[p] = 0 /\ passed'[p] = NoRows
  <2>1. Points(passed[p], parent[p])'
    BY <1>3, Constants DEF Points
  <2>2. QED
    BY <1>1, <1>2, <1>3, <2>1, Constants DEF HookRuns, GitGrows
<1>4. CASE at'[p] \in {"commit", "submit"} /\ parent'[p] = parent[p] /\ passed'[p] = passed[p]
  <2>1. Points(passed[p], parent[p])'
    BY <1>4 DEF HookRuns, GitGrows, DbGrows, Points, Row
  <2>2. parent[p] \in Nat
    BY Constants DEF HookTypes
  <2>3. QED
    BY <1>1, <1>2, <1>4, <2>1, <2>2 DEF HookRuns, GitGrows
<1>5. QED
  BY <1>3, <1>4 DEF HookLeft

\* What the lines record stays true.
LEMMA LinesStay ==
  ASSUME FileTypes, GitGrows, LineRuns, logged' = logged
  PROVE  LineRuns'
<1>1. ASSUME NEW l \in logged PROVE l.sha <= head' /\ Fits(l.sha, l.run)'
  <2>1. l.sha \in Commits /\ l.sha \in Nat /\ l.sha <= head /\ Fits(l.sha, l.run)
    BY Constants DEF FileTypes, Lines, LineRuns, Commits
  <2>2. own'[l.sha] = own[l.sha] /\ l.sha <= head'
    BY <2>1 DEF GitGrows
  <2>3. QED
    BY <2>1, <2>2 DEF Fits
<1>2. QED
  BY <1>1 DEF LineRuns

\* A chain saves a row of what it judges.
LEMMA SaveRuns ==
  ASSUME HookTypes, ChainTypes, GitTypes, GitRuns, NEW p \in Committers, Save(p), ChainRuns(p)
  PROVE  GitGrows /\ GitRuns' /\ ChainRuns(p)'
<1> DEFINE n == Len(db)
           row == [sha |-> judged[p], what |-> saved[p] + 1]
<1>1. /\ n \in Nat /\ db' = Append(db, row) /\ Len(db') = n + 1 /\ db'[n + 1] = row
      /\ \A i \in 1..n : db'[i] = db[i]
  BY LenProperties, AppendProperties DEF Save, GitTypes
<1>2. UNCHANGED <<head, own, judged, at, parent>> /\ head \in Nat
  BY Constants DEF Save, git, hook, GitTypes
<1>3. mine' = [mine EXCEPT ![p][saved[p] + 1] = n + 1]
  BY DEF Save
<1>4. saved[p] + 1 \in 1..Token /\ judged[p] \in Judgeable
  BY Constants DEF Save, ChainTypes
<1> HIDE DEF n
<1>5. row.sha = judged[p] /\ row.what = saved[p] + 1
  OBVIOUS
<1>6. GitGrows
  BY <1>1, <1>2 DEF GitGrows, DbGrows, n
<1>7. ASSUME NEW c \in Commits PROVE (c > head' => own'[c] = NoRows) /\ Points(own[c], c - 1)'
  <2>1. (c > head => own[c] = NoRows) /\ Points(own[c], c - 1)
    BY DEF GitRuns
  <2>2. Points(own[c], c - 1)'
    BY <1>2, <1>6, <2>1 DEF GitGrows, DbGrows, Points, Row
  <2>3. QED
    BY <1>2, <2>1, <2>2
<1>8. ASSUME NEW i \in 1..Len(db')
      PROVE  /\ db'[i].sha <= head' \/ db'[i].sha = NoSha
             /\ \A k \in 1..Token : db'[i].sha \in Commits => own'[db'[i].sha][k] < i
  <2>1. CASE i \in 1..n
    BY <1>1, <1>2, <2>1 DEF GitRuns, n
  <2>2. CASE i = n + 1
    <3>1. ASSUME NEW k \in 1..Token, judged[p] \in Commits PROVE own[judged[p]][k] < n + 1
      <4>1. own[judged[p]][k] \in Nat /\ (own[judged[p]][k] # 0 => own[judged[p]][k] \in 1..n)
        <5>1. own[judged[p]] \in [1..Token -> Nat] /\ Points(own[judged[p]], judged[p] - 1)
          BY <3>1 DEF GitTypes, RowsFound, GitRuns
        <5>2. QED
          BY <5>1 DEF Points, Row, n
      <4>2. QED
        BY <1>1, <4>1
    <3>2. QED
      BY <1>1, <1>2, <1>5, <2>2, <3>1 DEF ChainRuns
  <2>3. QED
    BY <1>1, <2>1, <2>2
<1>9. GitRuns'
  BY <1>7, <1>8 DEF GitRuns
<1>10. Points(mine[p], judged[p])'
  <2>1. ASSUME NEW k \in 1..Token, mine'[p][k] # 0
        PROVE  mine'[p][k] \in 1..Len(db') /\ db'[mine'[p][k]] = [sha |-> judged[p], what |-> k]
    <3>1. CASE k = saved[p] + 1
      <4>1. mine'[p][k] = n + 1
        BY <1>3, <1>4, <3>1 DEF ChainTypes, RowsFound
      <4>2. QED
        BY <1>1, <3>1, <4>1
    <3>2. CASE k # saved[p] + 1
      <4>1. mine'[p][k] = mine[p][k]
        BY <1>3, <1>4, <3>2 DEF ChainTypes, RowsFound
      <4>2. mine[p][k] \in 1..n /\ db[mine[p][k]] = [sha |-> judged[p], what |-> k]
        BY <2>1, <4>1 DEF ChainRuns, Points, Row, n
      <4>3. QED
        BY <1>1, <4>1, <4>2
    <3>3. QED
      BY <3>1, <3>2
  <2>2. QED
    BY <1>2, <2>1 DEF Points, Row
<1>11. ChainRuns(p)'
  BY <1>2, <1>10 DEF ChainRuns
<1>12. QED
  BY <1>6, <1>9, <1>11

\* What a step of one committer has to show: what it makes of its own variables.
LEMMA OneSteps ==
  ASSUME HookTypes, ChainTypes, GitTypes, FileTypes, RunInv, GitGrows, GitRuns', LineRuns',
         NEW p \in Committers, HookRuns(p)', ChainRuns(p)', Looks(p)',
         \A q \in Committers \ {p} : HookSame(q) /\ UNCHANGED <<judged[q], mine[q]>>
  PROVE  RunInv'
<1>1. ASSUME NEW q \in Committers \ {p} PROVE HookRuns(q)' /\ ChainRuns(q)' /\ Looks(q)'
  <2>1. HookSame(q) /\ UNCHANGED <<judged[q], mine[q]>> /\ at'[q] = at[q] /\ parent'[q] = parent[q]
    BY DEF HookSame
  <2>2. HookRuns(q) /\ ChainRuns(q) /\ Looks(q)
    BY DEF RunInv
  <2>3. QED
    BY <2>1, <2>2, HookStays, ChainStays
<1>2. QED
  BY <1>1 DEF RunInv

\* A new commit: nothing is of it yet.
LEMMA NewCommit ==
  ASSUME HookTypes, GitTypes, GitRuns, NEW p \in Committers, HookRuns(p),
         head < MaxCommits, head' = head + 1, db' = db,
         own' = own \/ (own' = [own EXCEPT ![head + 1] = passed[p]] /\ head = parent[p])
  PROVE  GitGrows /\ GitRuns'
<1>0. /\ MaxCommits \in Nat /\ head \in Nat /\ NoSha = MaxCommits + 1 /\ Len(db) \in Nat
      /\ Commits \subseteq Nat
  BY Constants, LenProperties DEF GitTypes
<1>1. \A c \in Commits : c # head + 1 => own'[c] = own[c]
  BY DEF GitTypes
<1>2. GitGrows
  <2>1. \A c \in Commits : c <= head => c # head + 1
    BY <1>0
  <2>2. DbGrows
    BY <1>0 DEF DbGrows
  <2>3. head' \in Nat /\ head <= head'
    BY <1>0
  <2>4. \A c \in Commits : c <= head => own'[c] = own[c]
    BY <1>1, <2>1, Zenon
  <2>5. QED
    BY <1>0, <2>2, <2>3, <2>4, Zenon DEF GitGrows
<1>3. ASSUME NEW c \in Commits PROVE (c > head' => own'[c] = NoRows) /\ Points(own[c], c - 1)'
  <2>1. CASE own'[c] = own[c]
    <3>1. Points(own[c], c - 1)'
      BY <2>1 DEF GitRuns, Points, Row
    <3>2. QED
      BY <1>0, <2>1, <3>1 DEF GitRuns
  <2>2. CASE own'[c] # own[c]
    <3>1. c = head + 1 /\ own'[c] = passed[p] /\ parent[p] = c - 1
      BY <1>0, <1>1, <2>2 DEF GitTypes
    <3>2. Points(own[c], c - 1)'
      BY <3>1 DEF HookRuns, Points, Row
    <3>3. QED
      BY <1>0, <3>1, <3>2
  <2>3. QED
    BY <2>1, <2>2
<1>4. ASSUME NEW i \in 1..Len(db')
      PROVE  /\ db'[i].sha <= head' \/ db'[i].sha = NoSha
             /\ \A k \in 1..Token : db'[i].sha \in Commits => own'[db'[i].sha][k] < i
  <2>1. db[i] \in Rows /\ db'[i] = db[i] /\ i \in 1..Len(db)
    BY ElementOfSeq DEF GitTypes
  <2>2. db[i].sha \in Nat /\ (db[i].sha <= head \/ db[i].sha = NoSha)
    BY <2>1, Constants DEF Rows, GitRuns
  <2>3. db[i].sha # head + 1
    BY <1>0, <2>2
  <2>4. db[i].sha \in Commits => own'[db[i].sha] = own[db[i].sha]
    BY <1>1, <2>3
  <2>5. \A k \in 1..Token : db[i].sha \in Commits => own[db[i].sha][k] < i
    BY <2>1 DEF GitRuns
  <2>6. QED
    BY <1>0, <2>1, <2>2, <2>4, <2>5
<1>5. GitRuns'
  BY <1>3, <1>4 DEF GitRuns
<1>6. QED
  BY <1>2, <1>5

\* A chain's step keeps the order of the rows.
LEMMA ServeRuns ==
  ASSUME HookTypes, ChainTypes, GitTypes, FileTypes, RunInv, NEW p \in Committers, Serve(p)
  PROVE  RunInv'
<1>1. \A q \in Committers : HookSame(q) /\ HookRuns(q) /\ ChainRuns(q) /\ Looks(q)
  BY Frames DEF hook, HookSame, RunInv
<1>2. logged' = logged /\ GitRuns /\ LineRuns
  BY Frames DEF history, RunInv
<1>3. CASE Save(p)
  <2>1. GitGrows /\ GitRuns' /\ ChainRuns(p)'
    BY <1>1, <1>2, <1>3, SaveRuns
  <2>2. \A q \in Committers \ {p} : UNCHANGED <<judged[q], mine[q]>>
    BY <1>3 DEF Save, ChainTypes
  <2>3. HookRuns(p)' /\ Looks(p)' /\ LineRuns'
    BY <1>1, <1>2, <2>1, HookStays, LinesStay
  <2>4. QED
    BY <1>1, <2>1, <2>2, <2>3, OneSteps
<1>4. CASE EndsUnheard(p)
  <2>1. Ends(p) /\ UNCHANGED <<git, db>> /\ at[p] # "gates" /\ at'[p] = at[p]
    BY <1>1, <1>4 DEF EndsUnheard, HookSame
  <2>2. GitGrows /\ GitRuns'
    BY <1>2, <2>1, GitStays
  <2>3. /\ mine'[p] = NoRows /\ judged'[p] = 0
        /\ \A q \in Committers \ {p} : UNCHANGED <<judged[q], mine[q]>>
    BY <2>1, ChainStep, Constants
  <2>4. ChainRuns(p)'
    BY <2>1, <2>2, <2>3, ChainFresh DEF GitGrows
  <2>5. HookRuns(p)' /\ Looks(p)' /\ LineRuns'
    BY <1>1, <1>2, <2>2, HookStays, LinesStay
  <2>6. QED
    BY <1>1, <2>2, <2>3, <2>4, <2>5, OneSteps
<1>5. QED
  BY <1>3, <1>4 DEF Serve

\* A committer's step does.
LEMMA CommittingRuns ==
  ASSUME HookTypes, ChainTypes, GitTypes, FileTypes, RunInv, NEW p \in Committers, Committing(p)
  PROVE  RunInv'
<1>0. /\ GitRuns /\ LineRuns /\ HookRuns(p) /\ ChainRuns(p) /\ Looks(p) /\ logged' = logged
      /\ head \in Nat /\ head <= head /\ 0 <= head /\ head \in Judgeable
  BY Frames, Constants DEF RunInv, history, GitTypes
<1>1. CASE BeginCommit(p)
  <2>1. /\ Request(p, head) /\ UNCHANGED <<git, db, head>> /\ UNCHANGED <<sha, run, next, passed>>
        /\ at' = [at EXCEPT ![p] = "gates"] /\ parent' = [parent EXCEPT ![p] = head]
        /\ at[p] = "idle"
    BY <1>1 DEF BeginCommit, Goto, git
  <2>2. GitGrows /\ GitRuns' /\ LineRuns'
    BY <1>0, <2>1, GitStays, LinesStay
  <2>3. /\ mine'[p] = NoRows /\ judged'[p] = head
        /\ \A q \in Committers \ {p} : UNCHANGED <<judged[q], mine[q]>>
    BY <1>0, <2>1, ChainStep
  <2>4. at'[p] = "gates" /\ parent'[p] = head /\ \A q \in Committers \ {p} : HookSame(q)
    BY <2>1 DEF HookTypes, HookSame
  <2>5. ChainRuns(p)'
    BY <1>0, <2>1, <2>3, <2>4, ChainFresh
  <2>6. Points(passed[p], parent[p])'
    BY <1>0, <2>1, Constants DEF HookRuns, Points
  <2>7. HookRuns(p)' /\ Looks(p)'
    BY <1>0, <2>1, <2>4, <2>6 DEF HookRuns, Looks
  <2>8. QED
    BY <2>2, <2>3, <2>4, <2>5, <2>7, OneSteps
<1>2. CASE Halts(p)
  <2>1. Leave(p) /\ UNCHANGED <<git, db>> /\ (Ends(p) \/ UNCHANGED chain)
    BY <1>2 DEF Halts
  <2>2. GitGrows /\ GitRuns' /\ LineRuns'
    BY <1>0, <2>1, GitStays, LinesStay
  <2>3. HookLeft(p) /\ at'[p] = "idle"
    BY <2>1, LeaveStep DEF Leave, Goto, HookTypes
  <2>4. HookRuns(p)' /\ Looks(p)'
    BY <1>0, <2>2, <2>3, LeftRuns
  <2>5. ChainRuns(p)' /\ \A q \in Committers \ {p} : UNCHANGED <<judged[q], mine[q]>>
    <3>1. CASE Ends(p)
      <4>1. /\ mine'[p] = NoRows /\ judged'[p] = 0
            /\ \A q \in Committers \ {p} : UNCHANGED <<judged[q], mine[q]>>
        BY <3>1, ChainStep, Constants
      <4>2. QED
        BY <2>2, <2>3, <4>1, ChainFresh DEF GitGrows
    <3>2. CASE UNCHANGED chain
      <4>1. \A q \in Committers : UNCHANGED <<judged[q], mine[q]>>
        BY <3>2 DEF chain
      <4>2. QED
        BY <1>0, <2>2, <2>3, <4>1, ChainStays
    <3>3. QED
      BY <2>1, <3>1, <3>2
  <2>6. QED
    BY <2>2, <2>3, <2>4, <2>5, OneSteps DEF HookLeft
<1>3. CASE Passes(p)
  <2>1. /\ Ends(p) /\ UNCHANGED <<git, db, head>> /\ UNCHANGED <<parent, sha, run, next>>
        /\ passed' = [passed EXCEPT ![p] = mine[p]] /\ p \in Developers /\ at[p] = "gates"
    BY <1>3 DEF Passes, git
  <2>2. PICK place \in {"resolve", "commit"} : at' = [at EXCEPT ![p] = place]
    BY <1>3, Zenon DEF Passes, Goto
  <2>3. GitGrows /\ GitRuns' /\ LineRuns'
    BY <1>0, <2>1, GitStays, LinesStay
  <2>4. /\ mine'[p] = NoRows /\ judged'[p] = 0
        /\ \A q \in Committers \ {p} : UNCHANGED <<judged[q], mine[q]>>
    BY <2>1, ChainStep, Constants
  <2>5. /\ at'[p] = place /\ passed'[p] = mine[p] /\ parent'[p] = judged[p]
        /\ \A q \in Committers \ {p} : HookSame(q)
    BY <1>0, <2>1, <2>2 DEF HookTypes, HookSame, ChainRuns
  <2>6. ChainRuns(p)'
    BY <2>3, <2>4, <2>5, ChainFresh DEF GitGrows
  <2>7. Points(passed[p], parent[p])'
    BY <1>0, <2>1, <2>5 DEF ChainRuns, Points, Row
  <2>8. HookRuns(p)' /\ Looks(p)'
    BY <1>0, <2>1, <2>5, <2>7 DEF HookRuns, Looks
  <2>9. QED
    BY <2>3, <2>4, <2>5, <2>6, <2>8, OneSteps
<1>4. CASE Commit(p) \/ WorkerCommits(p)
  <2>1. /\ head < MaxCommits /\ head' = head + 1 /\ db' = db
        /\ own' = own \/ (own' = [own EXCEPT ![head + 1] = passed[p]] /\ head = parent[p])
        /\ at' = [at EXCEPT ![p] = "resolve"]
        /\ UNCHANGED <<parent, sha, run, next, passed, judged, mine>>
    BY <1>4 DEF Commit, WorkerCommits, Goto, chain
  <2>2. GitGrows /\ GitRuns'
    BY <1>0, <2>1, NewCommit
  <2>3. LineRuns'
    BY <1>0, <2>2, LinesStay
  <2>4. /\ at'[p] = "resolve" /\ \A q \in Committers \ {p} : HookSame(q)
        /\ \A q \in Committers : UNCHANGED <<judged[q], mine[q]>>
    BY <2>1 DEF HookTypes, HookSame
  <2>5. ChainRuns(p)'
    BY <1>0, <2>2, <2>4, ChainStays
  <2>6. Points(passed[p], parent[p])'
    BY <1>0, <2>1 DEF HookRuns, Points, Row
  <2>7. sha[p] \in Nat /\ parent[p] \in Nat
    BY Constants DEF HookTypes
  <2>8. HookRuns(p)' /\ Looks(p)'
    BY <1>0, <2>1, <2>4, <2>6, <2>7 DEF HookRuns, Looks
  <2>9. QED
    BY <2>2, <2>3, <2>4, <2>5, <2>8, OneSteps
<1>5. CASE CommitRefused(p)
  <2>1. Leave(p) /\ UNCHANGED <<git, db, chain>>
    BY <1>5 DEF CommitRefused
  <2>2. GitGrows /\ GitRuns' /\ LineRuns'
    BY <1>0, <2>1, GitStays, LinesStay
  <2>3. HookLeft(p) /\ at'[p] = "idle"
    BY <2>1, LeaveStep DEF Leave, Goto, HookTypes
  <2>4. HookRuns(p)' /\ Looks(p)'
    BY <1>0, <2>2, <2>3, LeftRuns
  <2>5. \A q \in Committers : UNCHANGED <<judged[q], mine[q]>>
    BY <2>1 DEF chain
  <2>6. ChainRuns(p)'
    BY <1>0, <2>2, <2>3, <2>5, ChainStays
  <2>7. QED
    BY <2>2, <2>3, <2>4, <2>5, <2>6, OneSteps DEF HookLeft
<1>6. CASE WorkerResolves(p)
  <2>1. /\ Request(p, head) \/ Request(p, NoSha)
        /\ UNCHANGED <<git, db, head>> /\ UNCHANGED <<parent, sha, run, next, passed>>
        /\ at' = [at EXCEPT ![p] = "gates"] /\ p \notin Developers
    BY <1>6, LogAssumption DEF WorkerResolves, Goto, git
  <2>2. GitGrows /\ GitRuns' /\ LineRuns'
    BY <1>0, <2>1, GitStays, LinesStay
  <2>3. /\ mine'[p] = NoRows /\ (judged'[p] = head \/ judged'[p] = NoSha)
        /\ \A q \in Committers \ {p} : UNCHANGED <<judged[q], mine[q]>>
    BY <1>0, <2>1, ChainStep, Constants
  <2>4. at'[p] = "gates" /\ \A q \in Committers \ {p} : HookSame(q)
    BY <2>1 DEF HookTypes, HookSame
  <2>5. ChainRuns(p)'
    BY <1>0, <2>1, <2>3, ChainFresh
  <2>6. Points(passed[p], parent[p])'
    BY <1>0, <2>1 DEF HookRuns, Points, Row
  <2>7. HookRuns(p)' /\ Looks(p)'
    BY <1>0, <2>1, <2>4, <2>6 DEF HookRuns, Looks
  <2>8. QED
    BY <2>2, <2>3, <2>4, <2>5, <2>7, OneSteps
<1>7. QED
  BY <1>1, <1>2, <1>3, <1>4, <1>5, <1>6 DEF Committing

\* A row of a commit is newer than all that has let the commit pass.
LEMMA RowsAreLater ==
  ASSUME GitRuns, NEW i, NEW c \in Commits, NEW j, Row(i, c, j)
  PROVE  i \in 1..Len(db) /\ \A k \in 1..Token : own[c][k] < i
<1>1. i \in 1..Len(db) /\ db[i].sha = c
  BY DEF Row
<1>2. QED
  BY <1>1, Zenon DEF GitRuns

\* A query for a row of the commit itself, and the one for its token.
LEMMA ExactRow ==
  ASSUME HookTypes, GitTypes, GitRuns, NEW p \in Committers, HookRuns(p), Looks(p),
         ReadRow(p), at[p] = "exact"
  PROVE  Looks(p)'
<1> DEFINE k == next[p]
           n == Newest(Records(sha[p], k))
<1>1. /\ k \in 1..Token /\ run[p] \in Runs /\ run[p].rows \in [1..Token -> Nat]
      /\ run[p].sha = sha[p] /\ sha[p] \in Commits /\ own[sha[p]] \in [1..Token -> Nat]
  BY DEF HookTypes, GitTypes, Runs, RowsFound, Looks
<1>2. n \in Nat /\ (n # 0 => Row(n, sha[p], k))
  BY RowTypes
<1>3. /\ UNCHANGED <<head, own, db, sha>> /\ (k = Token => run[p].rows # NoRows)
      /\ run' = [run EXCEPT ![p].rows[k] = n]
      /\ k < Token => next' = [next EXCEPT ![p] = k + 1] /\ at' = at
      /\ k = Token => at' = [at EXCEPT ![p] = "append"]
  BY <1>1 DEF ReadRow, Goto, git
<1> HIDE DEF k, n
<1>4. run'[p].sha = sha[p] /\ run'[p].rows = [run[p].rows EXCEPT ![k] = n]
  BY <1>1, <1>3 DEF HookTypes, Runs
<1>5. ASSUME NEW j \in 1..Token, run'[p].rows[j] # 0 PROVE Row(run'[p].rows[j], sha[p], j)
  BY <1>1, <1>2, <1>4, <1>5 DEF Looks, Points
<1>6. CASE k < Token
  <2>1. at'[p] = "exact" /\ next'[p] = k + 1
    BY <1>3, <1>6 DEF HookTypes
  <2>2. \A j \in 1..Token : next'[p] <= j => run'[p].rows[j] = 0
    BY <1>1, <1>4, <2>1 DEF Looks, k
  <2>3. Points(run[p].rows, run[p].sha)'
    BY <1>3, <1>4, <1>5 DEF Points, Row
  <2>4. QED
    BY <1>3, <1>4, <2>1, <2>2, <2>3 DEF Looks
<1>7. CASE k = Token
  <2>1. at'[p] = "append"
    BY <1>3, <1>7 DEF HookTypes
  <2>2. ASSUME NEW j \in 1..Token, run'[p].rows[j] # 0
        PROVE  run'[p].rows[j] \in 1..Len(db) /\ \A i \in 1..Token : own[sha[p]][i] < run'[p].rows[j]
    BY <1>1, <1>5, <2>2, RowsAreLater
  <2>3. \E g \in 1..Gates : own[sha[p]][Gates] <= run'[p].rows[g]
    <3>1. PICK g \in 1..Token : run[p].rows[g] # 0
      BY <1>1, <1>3, <1>7 DEF NoRows
    <3>2. g \in 1..Gates /\ Gates \in 1..Token /\ g # k
      BY <1>1, <1>7, <3>1, Constants DEF Looks, k
    <3>3. run'[p].rows[g] # 0 /\ run'[p].rows[g] \in Nat /\ own[sha[p]][Gates] \in Nat
      BY <1>1, <1>4, <3>1, <3>2
    <3>4. own[sha[p]][Gates] < run'[p].rows[g]
      BY <2>2, <3>1, <3>2, <3>3
    <3>5. QED
      BY <3>2, <3>3, <3>4
  <2>4. sha[p] \in Nat /\ sha[p] # sha[p] + 1
    <3>1. sha[p] \in Nat
      BY <1>1, Constants
    <3>2. QED
      BY <3>1
  <2>5. Token \in 1..Token
    BY Constants
  <2>6. Fits(sha[p], run[p])'
    BY <1>3, <1>4, <2>2, <2>3, <2>4, <2>5 DEF Fits
  <2>7. QED
    BY <2>1, <2>6 DEF Looks
<1>8. QED
  BY <1>1, <1>6, <1>7, Constants

\* A query for a row of the commit of the newest row, and the one for its token.
LEMMA RecentRow ==
  ASSUME HookTypes, GitTypes, GitRuns, NEW p \in Committers, HookRuns(p), Looks(p),
         ReadRow(p), at[p] = "recent"
  PROVE  Looks(p)'
<1>a. PICK c : c = run[p].sha
  OBVIOUS
<1>b. PICK k : k = next[p]
  OBVIOUS
<1>c. PICK n : n = Newest(Records(c, k))
  OBVIOUS
<1>1. /\ k \in 1..Token /\ k \in Nat /\ run[p] \in Runs /\ run[p].rows \in [1..Token -> Nat]
      /\ sha[p] \in Commits /\ own[sha[p]] \in [1..Token -> Nat] /\ c \in Nat
  <2>1. /\ k \in 1..Token /\ run[p] \in Runs /\ run[p].rows \in [1..Token -> Nat]
        /\ c \in Judgeable
    BY <1>a, <1>b DEF HookTypes, Runs, RowsFound
  <2>2. sha[p] \in Commits /\ own[sha[p]] \in [1..Token -> Nat]
    BY DEF HookTypes, GitTypes, RowsFound
  <2>3. k \in Nat /\ c \in Nat
    BY <2>1, Constants
  <2>4. QED
    BY <2>1, <2>2, <2>3
<1>2. n \in Nat /\ (n # 0 => Row(n, c, k)) /\ \A i : Row(i, c, k) => i <= n
  BY <1>c, RowTypes
<1>3. /\ UNCHANGED <<head, own, db, sha>> /\ run' = [run EXCEPT ![p].rows[k] = n]
      /\ k < Token => next' = [next EXCEPT ![p] = k + 1] /\ at' = at
      /\ k = Token => at' = [at EXCEPT ![p] = "append"]
  BY <1>a, <1>b, <1>c, <1>1 DEF ReadRow, Goto, git
<1>4. run'[p].sha = c /\ run'[p].rows = [run[p].rows EXCEPT ![k] = n]
  BY <1>a, <1>1, <1>3 DEF HookTypes, Runs
<1>5. ASSUME NEW j \in 1..Token, run'[p].rows[j] # 0 PROVE Row(run'[p].rows[j], c, j)
  BY <1>a, <1>1, <1>2, <1>4, <1>5 DEF Looks, Points
<1>6. PICK g \in 1..Gates : Late(p, g)
  BY DEF Looks
<1>7. g \in 1..Token /\ g # Token /\ g \in Nat /\ Gates \in 1..Token
  BY Constants
<1>8. \/ g < k /\ own[sha[p]][Gates] <= run[p].rows[g]
      \/ ~(g < k) /\ \E i \in 1..Len(db) : Row(i, c, g) /\ own[sha[p]][Gates] <= i
  BY <1>a, <1>b, <1>6 DEF Late
<1>9. g < k + 1 => own[sha[p]][Gates] <= run'[p].rows[g]
  <2>1. CASE g < k
    BY <1>1, <1>4, <1>7, <1>8, <2>1
  <2>2. CASE g = k
    <3>1. PICK i \in 1..Len(db) : Row(i, c, g) /\ own[sha[p]][Gates] <= i
      BY <1>1, <1>8, <2>2
    <3>2. i <= n
      BY <1>2, <2>2, <3>1
    <3>3. i \in Nat /\ own[sha[p]][Gates] \in Nat
      <4>1. own[sha[p]][Gates] \in Nat
        BY <1>1, <1>7
      <4>2. Len(db) \in Nat
        BY LenProperties DEF GitTypes
      <4>3. i \in Nat
        BY <4>2
      <4>4. QED
        BY <4>1, <4>3
    <3>4. run'[p].rows[g] = n
      BY <1>1, <1>4, <2>2
    <3>5. QED
      BY <1>2, <3>1, <3>2, <3>3, <3>4
  <2>3. QED
    BY <1>1, <1>7, <2>1, <2>2
<1>10. ASSUME sha[p] = c + 1, NEW j \in 1..Token, j < k + 1
       PROVE  own[sha[p]][j] <= run'[p].rows[j]
  <2>1. CASE j < k
    BY <1>a, <1>b, <1>1, <1>4, <1>10, <2>1 DEF Looks
  <2>2. CASE j = k
    <3>1. own[sha[p]][j] # 0 => Row(own[sha[p]][j], c, j)
      <4>1. sha[p] - 1 = c /\ Points(own[sha[p]], sha[p] - 1)
        BY <1>1, <1>10 DEF GitRuns
      <4>2. QED
        BY <4>1 DEF Points
    <3>2. own[sha[p]][j] <= n
      BY <1>1, <1>2, <2>2, <3>1
    <3>3. QED
      BY <1>1, <1>4, <2>2, <3>2
  <2>3. j < k \/ j = k
    <3>1. j \in Nat
      BY Constants
    <3>2. QED
      BY <1>1, <1>10, <3>1
  <2>4. QED
    BY <2>1, <2>2, <2>3
<1>11. CASE k < Token
  <2>1. at'[p] = "recent" /\ next'[p] = k + 1
    BY <1>3, <1>11 DEF HookTypes
  <2>2. Late(p, g)'
    <3>1. CASE g < k + 1
      BY <1>3, <1>9, <2>1, <3>1 DEF Late
    <3>2. CASE ~(g < k + 1)
      <4>1. PICK i \in 1..Len(db) : Row(i, c, g) /\ own[sha[p]][Gates] <= i
        BY <1>1, <1>7, <1>8, <3>2
      <4>2. Row(i, run[p].sha, g)'
        BY <1>3, <1>4, <4>1 DEF Row
      <4>3. QED
        BY <1>3, <2>1, <3>2, <4>1, <4>2 DEF Late
    <3>3. QED
      BY <3>1, <3>2
  <2>3. Points(run[p].rows, run[p].sha)'
    BY <1>3, <1>4, <1>5 DEF Points, Row
  <2>4. sha'[p] = run'[p].sha + 1 =>
          \A j \in 1..Token : j < next'[p] => own'[sha'[p]][j] <= run'[p].rows[j]
    BY <1>3, <1>4, <1>10, <2>1
  <2>5. QED
    BY <2>1, <2>2, <2>3, <2>4 DEF Looks
<1>12. CASE k = Token
  <2>1. at'[p] = "append" /\ g < k + 1 /\ \A j \in 1..Token : j < k + 1
    BY <1>3, <1>12, <1>7, Constants DEF HookTypes
  <2>2. ASSUME sha[p] = c, NEW j \in 1..Token, run'[p].rows[j] # 0
        PROVE  own[sha[p]][Token] < run'[p].rows[j]
    <3>1. Row(run'[p].rows[j], sha[p], j) /\ Token \in 1..Token
      BY <1>5, <2>2, Constants
    <3>2. QED
      BY <1>1, <3>1, RowsAreLater
  <2>3. Fits(sha[p], run[p])'
    BY <1>3, <1>4, <1>9, <1>10, <2>1, <2>2 DEF Fits
  <2>4. QED
    BY <2>1, <2>3 DEF Looks
<1>13. QED
  BY <1>1, <1>11, <1>12, Constants

\* The recency fallback.
LEMMA FallbackRuns ==
  ASSUME HookTypes, GitTypes, GitRuns, NEW p \in Committers, HookRuns(p), Fallback(p)
  PROVE  Looks(p)'
<1>0. /\ sha[p] \in Commits /\ sha[p] \in Nat /\ sha[p] <= MaxCommits
      /\ own[sha[p]] \in [1..Token -> Nat] /\ Gates \in 1..Token /\ Gates # Token
      /\ UNCHANGED <<head, own, db, sha>>
  BY Constants DEF HookTypes, GitTypes, RowsFound, Commits, Fallback, git
<1>1. own[sha[p]][Gates] # 0 =>
        own[sha[p]][Gates] \in 1..Len(db) /\ db[own[sha[p]][Gates]].what = Gates
  <2>1. Points(own[sha[p]], sha[p] - 1)
    BY <1>0 DEF GitRuns
  <2>2. own[sha[p]][Gates] # 0 => Row(own[sha[p]][Gates], sha[p] - 1, Gates)
    BY <1>0, <2>1 DEF Points
  <2>3. QED
    BY <2>2 DEF Row
<1>2. CASE GateRows = {}
  <2>1. at'[p] = "append" /\ run'[p] = NoRun
    BY <1>2 DEF Fallback, Goto, HookTypes
  <2>2. own[sha[p]][Gates] = 0
    BY <1>0, <1>1, <1>2 DEF GateRows
  <2>3. sha[p] # NoSha /\ sha[p] # NoSha + 1 /\ 1 \in 1..Gates /\ Gates \in Nat
    BY <1>0, Constants
  <2>4. NoRun.sha = NoSha /\ NoRun.rows = NoRows
    BY DEF NoRun
  <2>5. NoRows[1] = 0
    BY Constants
  <2>6. Fits(sha[p], run[p])'
    BY <1>0, <2>1, <2>2, <2>3, <2>4, <2>5 DEF Fits
  <2>7. QED
    BY <2>1, <2>6 DEF Looks
<1>3. CASE GateRows # {}
  <2>1. PICK n \in 1..Len(db) :
          /\ n = Newest(GateRows) /\ db[n] \in Rows /\ db[n].what # Token
          /\ \A i \in 1..Len(db) : db[i].what # Token => i <= n
    BY <1>3, RecentTypes
  <2>2. PICK c, g : db[n] = [sha |-> c, what |-> g] /\ g \in 1..Gates
    <3>1. db[n] = [sha |-> db[n].sha, what |-> db[n].what] /\ db[n].what \in 1..Gates
      BY <2>1, Constants DEF Rows
    <3>2. QED
      BY <3>1
  <2>3. /\ at'[p] = "recent" /\ run'[p] = [sha |-> c, rows |-> NoRows] /\ next'[p] = 1
    BY <1>3, <2>1, <2>2 DEF Fallback, Goto, HookTypes
  <2>4. own[sha[p]][Gates] <= n
    BY <1>0, <1>1, <2>1
  <2>5. Late(p, g)'
    <3>1. ~(g < 1)
      BY <2>2
    <3>2. Row(n, run[p].sha, g)'
      BY <1>0, <2>1, <2>2, <2>3 DEF Row
    <3>3. QED
      BY <1>0, <2>1, <2>3, <2>4, <3>1, <3>2 DEF Late
  <2>6. Points(run[p].rows, run[p].sha)'
    BY <2>3, Constants DEF Points
  <2>7. \A k \in 1..Token : ~(k < 1)
    BY Constants
  <2>8. QED
    BY <2>2, <2>3, <2>5, <2>6, <2>7 DEF Looks
<1>4. QED
  BY <1>2, <1>3

\* A hook's step does: it only ever finds what is of the commit it looks for.
LEMMA LogRuns ==
  ASSUME HookTypes, ChainTypes, GitTypes, FileTypes, RunInv, NEW p \in Committers, Log(p)
  PROVE  RunInv'
<1>0. GitRuns /\ LineRuns /\ HookRuns(p) /\ ChainRuns(p) /\ Looks(p)
  BY DEF RunInv
<1>1. /\ UNCHANGED <<git, db>> /\ at'[p] # "gates" /\ head' = head
      /\ \A q \in Committers : UNCHANGED <<judged[q], mine[q]>>
  <2>1. UNCHANGED <<git, db, chain>>
    BY DEF Log, Resolve, ReadShas, ReadRow, Fallback, AppendEntry, HookFails
  <2>2. AfterLogging(p) => at'[p] # "gates"
    BY AfterLoggingStep DEF HookLeft
  <2>3. at'[p] # "gates"
    BY <2>2 DEF Log, Resolve, ReadShas, ReadRow, Fallback, AppendEntry, HookFails, Goto, HookTypes
  <2>4. QED
    BY <2>1, <2>3 DEF git, chain
<1>2. GitGrows /\ GitRuns'
  BY <1>0, <1>1, GitStays
<1>3. ChainRuns(p)'
  BY <1>0, <1>1, <1>2, ChainStays
<1>4. ASSUME LineRuns', HookRuns(p)', Looks(p)', \A q \in Committers \ {p} : HookSame(q)
      PROVE  RunInv'
  BY <1>1, <1>2, <1>3, <1>4, OneSteps
<1>5. ASSUME LineRuns', AfterLogging(p) PROVE RunInv'
  <2>1. HookLeft(p)
    BY <1>5, AfterLoggingStep
  <2>2. HookRuns(p)' /\ Looks(p)'
    BY <1>0, <1>2, <2>1, LeftRuns
  <2>3. QED
    BY <1>4, <1>5, <2>1, <2>2 DEF HookLeft
<1>6. logged' = logged => LineRuns'
  BY <1>0, <1>2, LinesStay
<1>7. ASSUME sha'[p] <= head', UNCHANGED <<parent, passed>>, at'[p] # "idle"
      PROVE  HookRuns(p)'
  <2>1. Points(passed[p], parent[p])'
    BY <1>0, <1>1, <1>7 DEF HookRuns, Points, Row
  <2>2. QED
    BY <1>0, <1>1, <1>7, <2>1 DEF HookRuns
<1>8. CASE Resolve(p)
  <2>1. /\ at' = [at EXCEPT ![p] = "read"] /\ sha' = [sha EXCEPT ![p] = head]
        /\ UNCHANGED <<parent, run, next, passed, logged>>
    BY <1>8 DEF Resolve, Goto, history
  <2>2. /\ at'[p] = "read" /\ sha'[p] = head /\ \A q \in Committers \ {p} : HookSame(q)
    BY <2>1 DEF HookTypes, HookSame
  <2>3. HookRuns(p)' /\ Looks(p)'
    BY <1>1, <1>2, <1>7, <2>1, <2>2 DEF Looks, GitGrows
  <2>4. QED
    BY <1>4, <1>6, <2>1, <2>2, <2>3
<1>9. CASE ReadShas(p)
  <2>1. LineRuns'
    BY <1>6, <1>9 DEF ReadShas, history
  <2>2. CASE ~AfterLogging(p)
    <3>1. /\ at' = [at EXCEPT ![p] = "exact"] /\ UNCHANGED <<parent, sha, next, passed>>
          /\ run' = [run EXCEPT ![p] = [sha |-> sha[p], rows |-> NoRows]]
      BY <1>9, <2>2 DEF ReadShas, Goto
    <3>2. /\ at'[p] = "exact" /\ run'[p] = [sha |-> sha[p], rows |-> NoRows]
          /\ \A q \in Committers \ {p} : HookSame(q)
      BY <3>1 DEF HookTypes, HookSame
    <3>3. Points(run[p].rows, run[p].sha)'
      BY <3>2, Constants DEF Points
    <3>4. HookRuns(p)' /\ Looks(p)'
      BY <1>0, <1>1, <1>7, <3>1, <3>2, <3>3, Constants DEF Looks, HookRuns
    <3>5. QED
      BY <1>4, <2>1, <3>2, <3>4
  <2>3. QED
    BY <1>5, <2>1, <2>2
<1>10. CASE ReadRow(p)
  <2>1. UNCHANGED <<parent, sha, passed, logged>>
    BY <1>10 DEF ReadRow, history
  <2>2. at'[p] # "idle" /\ \A q \in Committers \ {p} : HookSame(q)
    BY <1>10 DEF ReadRow, Goto, HookTypes, HookSame
  <2>3. HookRuns(p)'
    BY <1>0, <1>1, <1>7, <2>1, <2>2 DEF HookRuns
  <2>4. Looks(p)'
    BY <1>0, <1>10, ExactRow, RecentRow DEF ReadRow
  <2>5. QED
    BY <1>4, <1>6, <2>1, <2>2, <2>3, <2>4
<1>11. CASE Fallback(p)
  <2>1. UNCHANGED <<parent, sha, passed, logged>>
    BY <1>11 DEF Fallback, history
  <2>2. at'[p] # "idle" /\ \A q \in Committers \ {p} : HookSame(q)
    BY <1>11 DEF Fallback, Goto, HookTypes, HookSame
  <2>3. HookRuns(p)' /\ Looks(p)'
    BY <1>0, <1>1, <1>7, <1>11, <2>1, <2>2, FallbackRuns DEF HookRuns
  <2>4. QED
    BY <1>4, <1>6, <2>1, <2>2, <2>3
<1>12. CASE AppendEntry(p)
  <2>1. logged' = logged \cup {LineOf(p)} /\ AfterLogging(p) /\ at[p] = "append"
    BY <1>12 DEF AppendEntry, LineOf
  <2>2. UNCHANGED <<own, head>> /\ LineOf(p).sha = sha[p] /\ LineOf(p).run = run[p]
    BY <1>1 DEF git, LineOf
  <2>3. ASSUME NEW l \in logged' PROVE l.sha <= head' /\ Fits(l.sha, l.run)'
    <3>1. l.sha <= head /\ Fits(l.sha, l.run)
      BY <1>0, <2>1, <2>2 DEF LineRuns, HookRuns, Looks
    <3>2. QED
      BY <2>2, <3>1 DEF Fits
  <2>4. LineRuns'
    BY <2>3 DEF LineRuns
  <2>5. QED
    BY <1>5, <2>1, <2>4
<1>13. CASE HookFails(p)
  BY <1>5, <1>6, <1>13 DEF HookFails, history
<1>14. QED
  BY <1>8, <1>9, <1>10, <1>11, <1>12, <1>13 DEF Log

\* Every step keeps the rows as they are, and what is found of them.
LEMMA RunStep ==
  ASSUME TypeOK, RunInv, [Next]_vars
  PROVE  RunInv'
<1>0. HookTypes /\ ChainTypes /\ GitTypes /\ FileTypes
  BY TypeParts
<1>1. ASSUME UNCHANGED <<hook, git, chain, db, logged>> PROVE RunInv'
  <2>1. GitRuns /\ LineRuns
    BY DEF RunInv
  <2>2. GitGrows /\ GitRuns'
    BY <1>0, <1>1, <2>1, GitStays
  <2>3. LineRuns'
    BY <1>0, <1>1, <2>1, <2>2, LinesStay
  <2>4. ASSUME NEW q \in Committers PROVE HookRuns(q)' /\ ChainRuns(q)' /\ Looks(q)'
    <3>1. HookSame(q) /\ UNCHANGED <<judged[q], mine[q]>> /\ at'[q] = at[q] /\ parent'[q] = parent[q]
      BY <1>1 DEF hook, chain, HookSame
    <3>2. HookRuns(q) /\ ChainRuns(q) /\ Looks(q)
      BY DEF RunInv
    <3>3. QED
      BY <1>0, <2>2, <3>1, <3>2, HookStays, ChainStays
  <2>5. QED
    BY <2>2, <2>3, <2>4 DEF RunInv
<1>2. ASSUME NEW w \in Writers, Narrate(w) PROVE RunInv'
  BY <1>1, <1>2, Frames
<1>3. CASE UNCHANGED vars
  BY <1>1, <1>3 DEF vars, history
<1>4. QED
  BY <1>0, <1>2, <1>3, ServeRuns, CommittingRuns, LogRuns DEF Next

----------------------------------------------------------------------------
(* Lines and sections *)

\* What an empty file holds.
LEMMA EmptyLines == /\ Shas(<<>>) = {} /\ Consumed(<<>>) = {} /\ Pending(<<>>) = {}
                    /\ SetsOf(<<>>) = {} /\ Disjoint(<<>>)
<1>1. Len(<<>>) = 0 /\ 1..0 = {}
  BY EmptySeq
<1>2. Shas(<<>>) = {} /\ Consumed(<<>>) = {} /\ Pending(<<>>) = {} 
  BY <1>1 DEF Shas, Consumed, Pending
<1>3. SetsOf(<<>>) = {} /\ Disjoint(<<>>)
  BY <1>1 DEF SetsOf, Disjoint
<1>4. QED
  BY <1>2, <1>3

\* What an entry appended to the log adds; nothing has consumed it yet.
LEMMA AppendLines ==
  ASSUME NEW s \in Seq(Lines), NEW l \in Lines, l.consumed = FALSE
  PROVE  /\ Shas(Append(s, l)) = Shas(s) \cup {l.sha}
         /\ Consumed(Append(s, l)) = Consumed(s)
         /\ Pending(Append(s, l)) = Pending(s) \cup {l.sha}
         /\ Has(Append(s, l), l) /\ \A k : Has(s, k) => Has(Append(s, l), k)
<1> DEFINE n == Len(s)
           t == Append(s, l)
<1>1. /\ n \in Nat /\ Len(t) = n + 1 /\ t[n + 1] = l
      /\ \A i \in 1..n : t[i] = s[i]
  BY AppendProperties, LenProperties
<1>2. 1..(n + 1) = (1..n) \cup {n + 1} /\ n + 1 \notin 1..n
  BY <1>1
<1> HIDE DEF n, t
<1>3. Shas(t) = Shas(s) \cup {l.sha}
  BY <1>1, <1>2 DEF Shas, n
<1>4. {j \in 1..Len(t) : t[j].consumed} = {j \in 1..n : s[j].consumed}
  BY <1>1, <1>2
<1>5. {j \in 1..Len(t) : ~t[j].consumed} = {j \in 1..n : ~s[j].consumed} \cup {n + 1}
  BY <1>1, <1>2
<1>6. Consumed(t) = Consumed(s)
  BY <1>1, <1>4 DEF Consumed, n
<1>7. Pending(t) = Pending(s) \cup {l.sha}
  BY <1>1, <1>5 DEF Pending, n
<1>8. Has(t, l) /\ \A k : Has(s, k) => Has(t, k)
  BY <1>1, <1>2 DEF Has, n
<1>9. QED
  BY <1>3, <1>6, <1>7, <1>8 DEF t

\* What a section appended to DEVLOG.md adds.
LEMMA AppendSections ==
  ASSUME NEW s \in Seq(SUBSET Commits), NEW x \in SUBSET Commits
  PROVE  /\ SetsOf(Append(s, x)) = SetsOf(s) \cup x
         /\ Disjoint(s) /\ x \cap SetsOf(s) = {} => Disjoint(Append(s, x))
<1> DEFINE n == Len(s)
           t == Append(s, x)
<1>1. /\ n \in Nat /\ Len(t) = n + 1 /\ t[n + 1] = x
      /\ \A i \in 1..n : t[i] = s[i]
  BY AppendProperties, LenProperties
<1>2. 1..(n + 1) = (1..n) \cup {n + 1} /\ n + 1 \notin 1..n
  BY <1>1
<1> HIDE DEF n, t
<1>3. SetsOf(t) = SetsOf(s) \cup x
  <2>1. \A i \in 1..(n + 1) : t[i] \subseteq SetsOf(s) \cup x
    BY <1>1, <1>2 DEF SetsOf, n
  <2>2. \A e \in SetsOf(s) : \E i \in 1..(n + 1) : e \in t[i]
    BY <1>1, <1>2 DEF SetsOf, n
  <2>3. \A e \in x : \E i \in 1..(n + 1) : e \in t[i]
    BY <1>1, <1>2
  <2>4. QED
    BY <1>1, <2>1, <2>2, <2>3 DEF SetsOf
<1>4. ASSUME Disjoint(s), x \cap SetsOf(s) = {} PROVE Disjoint(t)
  <2>1. \A i \in 1..n : t[i] \cap x = {}
    BY <1>1, <1>4 DEF SetsOf, n
  <2>2. \A i, j \in 1..n : i # j => t[i] \cap t[j] = {}
    BY <1>1, <1>4 DEF Disjoint, n
  <2>3. QED
    BY <1>1, <1>2, <2>1, <2>2 DEF Disjoint
<1>5. QED
  BY <1>3, <1>4 DEF t

\* What mark_consumed() makes of the lines it has read.
LEMMA MarkedLines ==
  ASSUME NEW w \in Writers, lines[w] \in Seq(Lines)
  PROVE  /\ Shas(Marked(w)) = Shas(lines[w])
         /\ Consumed(Marked(w)) \subseteq Consumed(lines[w]) \cup picked[w]
         /\ Pending(Marked(w)) \subseteq Pending(lines[w]) \ picked[w]
         /\ \A k : Has(lines[w], k) => Has(Marked(w), k)
<1> DEFINE s == lines[w]
           t == Marked(w)
           n == Len(s)
<1>1. /\ Len(t) = n
      /\ \A i \in 1..n : /\ t[i].sha = s[i].sha /\ t[i].run = s[i].run
                         /\ t[i].consumed <=> s[i].consumed \/ s[i].sha \in picked[w]
  BY MarkedIs
<1> HIDE DEF s, t, n
<1>2. Shas(t) = Shas(s)
  BY <1>1 DEF Shas, n
<1>3. ASSUME NEW e \in Consumed(t) PROVE e \in Consumed(s) \cup picked[w]
  <2>1. PICK i \in 1..n : t[i].consumed /\ e = t[i].sha
    BY <1>1 DEF Consumed
  <2>2. QED
    BY <1>1, <2>1 DEF Consumed, n
<1>4. ASSUME NEW e \in Pending(t) PROVE e \in Pending(s) \ picked[w]
  <2>1. PICK i \in 1..n : ~t[i].consumed /\ e = t[i].sha
    BY <1>1 DEF Pending
  <2>2. QED
    BY <1>1, <2>1 DEF Pending, n
<1>5. \A k : Has(s, k) => Has(t, k)
  BY <1>1 DEF Has, n
<1>6. QED
  BY <1>2, <1>3, <1>4, <1>5 DEF s, t

\* A line is consumed or pending, and its commit is in the log.
LEMMA LinesAreShas ==
  ASSUME NEW s
  PROVE  Pending(s) \subseteq Shas(s) /\ Consumed(s) \subseteq Shas(s)
BY DEF Pending, Consumed, Shas

----------------------------------------------------------------------------
(* Turns *)

\* While writers have not met, the one that steps is the only one under way.
LEMMA Alone ==
  ASSUME WriterTypes, TurnInv, NEW w \in Writers, Narrate(w), ~overlap'
  PROVE  /\ ~overlap
         /\ \A v \in Writers \ {w} : step[v] \in {"off", "done"} /\ step'[v] = step[v]
<1>1. CASE Load(w)
  BY <1>1 DEF Load, StepTo, WriterTypes
<1>2. CASE ~Load(w)
  <2>1. step[w] \notin {"off", "done"} /\ overlap' = overlap
    BY <1>2 DEF Narrate, ReadDevlog, FillDevlog, ReadLog, MarkConsumed, WriterFails, history
  <2>2. \E place \in Steps : step' = [step EXCEPT ![w] = place]
    BY <1>2, Zenon DEF Narrate, ReadDevlog, FillDevlog, ReadLog, MarkConsumed, WriterFails, Finishes,
       StepTo, Steps
  <2>3. \A v \in Writers \ {w} : step[v] \in {"off", "done"}
    BY <2>1 DEF TurnInv, Active
  <2>4. QED
    BY <2>1, <2>2, <2>3 DEF WriterTypes
<1>3. QED
  BY <1>1, <1>2

\* Writers that have not met take turns: the one that loads beside another meets it.
LEMMA TurnStep ==
  ASSUME WriterTypes, TurnInv, [Next]_vars
  PROVE  TurnInv'
<1>1. ASSUME NEW w \in Writers, Narrate(w) PROVE TurnInv'
  <2>1. SUFFICES ASSUME ~overlap' PROVE \A v, u \in Writers : Active(v)' /\ Active(u)' => v = u
    BY DEF TurnInv
  <2>2. \A v \in Writers \ {w} : ~Active(v)'
    BY <1>1, <2>1, Alone DEF Active
  <2>3. QED
    BY <2>2
<1>2. ASSUME UNCHANGED <<step, overlap>> PROVE TurnInv'
  BY <1>2 DEF TurnInv, Active
<1>3. ASSUME NEW p \in Committers, Serve(p) \/ Committing(p) \/ Log(p)
      PROVE  UNCHANGED <<step, overlap>>
  BY <1>3, Frames DEF writer, history, Log, Resolve, ReadShas, ReadRow, Fallback, AppendEntry,
     HookFails
<1>4. CASE UNCHANGED vars
  BY <1>2, <1>4 DEF vars, writer, history
<1>5. QED
  BY <1>1, <1>2, <1>3, <1>4 DEF Next

----------------------------------------------------------------------------
(* The steps of the writer and of the hooks, on the files *)

\* What a hook's step does to the log.
LEMMA LogIs ==
  ASSUME HookTypes, FileTypes, NEW p \in Committers, Log(p)
  PROVE  /\ devlog' = devlog /\ overlap' = overlap /\ faults' \in {faults, faults + 1}
         /\ UNCHANGED <<step, picked, sections, lines>>
         /\ \/ UNCHANGED <<log, logged, raced, doubled>>
            \/ /\ LineOf(p) \in Lines /\ LineOf(p).consumed = FALSE
               /\ log' = Append(log, LineOf(p)) /\ logged' = logged \cup {LineOf(p)}
               /\ raced' = IF \E w \in Writers : step[w] = "fill log"
                           THEN raced \cup {LineOf(p)} ELSE raced
               /\ doubled' = (doubled \/ LineOf(p).sha \in {l.sha : l \in logged})
<1>1. LineOf(p) \in Lines /\ LineOf(p).consumed = FALSE /\ LineOf(p).sha = sha[p]
  BY DEF LineOf, Lines, HookTypes, Commits
<1>2. devlog' = devlog /\ overlap' = overlap /\ faults' \in {faults, faults + 1}
      /\ UNCHANGED <<step, picked, sections, lines>>
  BY DEF Log, Resolve, ReadShas, ReadRow, Fallback, AppendEntry, HookFails, writer, history
<1>3. CASE AppendEntry(p)
  BY <1>1, <1>2, <1>3 DEF AppendEntry, LineOf
<1>4. CASE ~AppendEntry(p)
  BY <1>2, <1>4 DEF Log, Resolve, ReadShas, ReadRow, Fallback, HookFails, history
<1>5. QED
  BY <1>3, <1>4

\* What a writer loads is pending.
LEMMA LoadIs ==
  ASSUME WriterTypes, NEW w \in Writers, Load(w)
  PROVE  /\ step[w] = "off" /\ step' = [step EXCEPT ![w] = "read devlog"]
         /\ picked'[w] \subseteq Pending(log) /\ \A v \in Writers \ {w} : picked'[v] = picked[v]
         /\ UNCHANGED <<log, devlog, sections, lines, logged, raced, doubled, faults>>
<1>1. PICK first \in Unconsumed :
        picked' = [picked EXCEPT ![w] = {log[i].sha : i \in {j \in Unconsumed : first <= j}}]
  BY DEF Load
<1>2. {log[i].sha : i \in {j \in Unconsumed : first <= j}} \subseteq Pending(log)
  BY DEF Unconsumed, Pending
<1>3. picked'[w] \subseteq Pending(log) /\ \A v \in Writers \ {w} : picked'[v] = picked[v]
  BY <1>1, <1>2 DEF WriterTypes
<1>4. QED
  BY <1>3 DEF Load, StepTo

\* A writer that ends has nothing in hand any more.
LEMMA FinishesIs ==
  ASSUME WriterTypes, NEW w \in Writers, Finishes(w)
  PROVE  /\ step'[w] = "done" /\ lines'[w] = <<>> /\ sections'[w] = <<>> /\ picked'[w] = {}
         /\ \A v \in Writers \ {w} :
              /\ lines'[v] = lines[v] /\ sections'[v] = sections[v] /\ picked'[v] = picked[v]
              /\ step'[v] = step[v]
BY DEF Finishes, StepTo, WriterTypes

----------------------------------------------------------------------------
(* Nothing comes from nowhere *)

Appended == {l.sha : l \in logged}

\* LoggedInv, of the variables as they are and as they become.
LEMMA LoggedParts ==
  /\ LoggedInv <=> /\ Shas(log) \subseteq Appended /\ SetsOf(devlog) \subseteq Appended
                   /\ \A w \in Writers : /\ Shas(lines[w]) \subseteq Appended
                                         /\ picked[w] \subseteq Appended
                                         /\ SetsOf(sections[w]) \subseteq Appended
  /\ /\ Shas(log') \subseteq Appended' /\ SetsOf(devlog') \subseteq Appended'
     /\ \A w \in Writers : /\ Shas(lines'[w]) \subseteq Appended'
                           /\ picked'[w] \subseteq Appended'
                           /\ SetsOf(sections'[w]) \subseteq Appended'
     => LoggedInv'
<1>1. LoggedInv <=> /\ Shas(log) \subseteq Appended /\ SetsOf(devlog) \subseteq Appended
                    /\ \A w \in Writers : /\ Shas(lines[w]) \subseteq Appended
                                          /\ picked[w] \subseteq Appended
                                          /\ SetsOf(sections[w]) \subseteq Appended
  BY Zenon DEF LoggedInv, SetsOf, Appended, Listed
<1>2. /\ Shas(log') \subseteq Appended' /\ SetsOf(devlog') \subseteq Appended'
      /\ \A w \in Writers : /\ Shas(lines'[w]) \subseteq Appended'
                            /\ picked'[w] \subseteq Appended'
                            /\ SetsOf(sections'[w]) \subseteq Appended'
      => LoggedInv'
  BY Zenon DEF LoggedInv, SetsOf, Appended, Listed, Shas
<1>3. QED
  BY <1>1, <1>2

\* A writer moves what was appended from one file to another.
LEMMA LoggedNarrate ==
  ASSUME WriterTypes, FileTypes, LoggedInv, NEW w \in Writers, Narrate(w)
  PROVE  LoggedInv'
<1>0. /\ Shas(log) \subseteq Appended /\ SetsOf(devlog) \subseteq Appended
      /\ \A v \in Writers : /\ Shas(lines[v]) \subseteq Appended /\ picked[v] \subseteq Appended
                            /\ SetsOf(sections[v]) \subseteq Appended
  BY LoggedParts
<1>1. logged' = logged /\ Appended' = Appended
  BY DEF Narrate, Load, ReadDevlog, FillDevlog, ReadLog, MarkConsumed, WriterFails, history,
     Appended
<1> HIDE DEF Appended
<1> DEFINE Held(v) == /\ Shas(lines'[v]) \subseteq Appended /\ picked'[v] \subseteq Appended
                      /\ SetsOf(sections'[v]) \subseteq Appended
<1>2. SUFFICES /\ Shas(log') \subseteq Appended /\ SetsOf(devlog') \subseteq Appended
               /\ \A v \in Writers : Held(v)
  BY <1>1, LoggedParts, Zenon
<1>3. CASE Load(w)
  <2>1. Pending(log) \subseteq Appended
    BY <1>0, LinesAreShas
  <2>2. \A v \in Writers : picked'[v] \subseteq Appended
    BY <1>0, <1>3, <2>1, LoadIs
  <2>3. UNCHANGED <<log, devlog, lines, sections>>
    BY <1>3, LoadIs
  <2>4. QED
    BY <1>0, <2>2, <2>3
<1>4. CASE ReadDevlog(w)
  <2>1. devlog' = <<>> /\ UNCHANGED <<log, lines, picked>>
        /\ sections' = [sections EXCEPT ![w] = devlog]
    BY <1>4 DEF ReadDevlog
  <2>2. \A v \in Writers : SetsOf(sections'[v]) \subseteq Appended
    BY <1>0, <2>1 DEF WriterTypes
  <2>3. QED
    BY <1>0, <2>1, <2>2, EmptyLines
<1>5. CASE FillDevlog(w)
  <2>1. devlog' = Append(sections[w], picked[w]) /\ UNCHANGED <<log, lines, picked, sections>>
    BY <1>5 DEF FillDevlog
  <2>2. SetsOf(devlog') = SetsOf(sections[w]) \cup picked[w]
    BY <2>1, AppendSections DEF WriterTypes
  <2>3. QED
    BY <1>0, <2>1, <2>2
<1>6. CASE ReadLog(w)
  <2>1. log' = <<>> /\ UNCHANGED <<devlog, sections, picked>>
        /\ lines' = [lines EXCEPT ![w] = log]
    BY <1>6 DEF ReadLog
  <2>2. \A v \in Writers : Shas(lines'[v]) \subseteq Appended
    BY <1>0, <2>1 DEF WriterTypes
  <2>3. QED
    BY <1>0, <2>1, <2>2, EmptyLines
<1>7. CASE MarkConsumed(w)
  <2>1. Finishes(w) /\ log' = Marked(w) /\ devlog' = devlog
    BY <1>7 DEF MarkConsumed
  <2>2. Shas(Marked(w)) = Shas(lines[w])
    BY MarkedLines DEF WriterTypes
  <2>3. \A v \in Writers : Held(v)
    BY <1>0, <2>1, FinishesIs, EmptyLines
  <2>4. QED
    BY <1>0, <2>1, <2>2, <2>3
<1>8. CASE WriterFails(w)
  <2>1. Finishes(w) /\ log' = log /\ devlog' = devlog
    BY <1>8 DEF WriterFails
  <2>2. \A v \in Writers : Held(v)
    BY <1>0, <2>1, FinishesIs, EmptyLines
  <2>3. QED
    BY <1>0, <2>1, <2>2
<1>9. QED
  BY <1>3, <1>4, <1>5, <1>6, <1>7, <1>8 DEF Narrate

\* Every step keeps what is in the files among what was appended.
LEMMA LoggedStep ==
  ASSUME TypeOK, LoggedInv, [Next]_vars
  PROVE  LoggedInv'
<1>0. HookTypes /\ WriterTypes /\ FileTypes
  BY TypeParts
<1>1. ASSUME NEW p \in Committers, Log(p) PROVE LoggedInv'
  <2>1. CASE UNCHANGED <<log, logged>>
    <3>1. UNCHANGED <<devlog, log, logged, picked, sections, lines>>
      BY <1>0, <1>1, <2>1, LogIs
    <3>2. Appended' = Appended
      BY <3>1 DEF Appended
    <3>3. QED
      BY <3>1, <3>2, LoggedParts
  <2>2. CASE ~ UNCHANGED <<log, logged>>
    <3>1. /\ LineOf(p) \in Lines /\ LineOf(p).consumed = FALSE
          /\ log' = Append(log, LineOf(p)) /\ logged' = logged \cup {LineOf(p)}
          /\ UNCHANGED <<devlog, picked, sections, lines>>
      BY <1>0, <1>1, <2>2, LogIs
    <3>2. Appended' = Appended \cup {LineOf(p).sha}
      BY <3>1 DEF Appended
    <3>3. Shas(log') = Shas(log) \cup {LineOf(p).sha}
      BY <1>0, <3>1, AppendLines DEF FileTypes
    <3>4. QED
      BY <3>1, <3>2, <3>3, LoggedParts
  <2>3. QED
    BY <2>1, <2>2
<1>2. ASSUME UNCHANGED <<devlog, log, logged, picked, sections, lines>> PROVE LoggedInv'
  <2>1. Appended' = Appended
    BY <1>2 DEF Appended
  <2>2. QED
    BY <1>2, <2>1, LoggedParts
<1>3. ASSUME NEW p \in Committers, Serve(p) \/ Committing(p) PROVE LoggedInv'
  BY <1>2, <1>3, Frames DEF writer, history
<1>4. CASE UNCHANGED vars
  BY <1>2, <1>4 DEF vars, writer, history
<1>5. QED
  BY <1>0, <1>1, <1>3, <1>4, LoggedNarrate DEF Next

----------------------------------------------------------------------------
(* Lines that stay *)

\* The writer that steps without a fault is alone.
LEMMA CalmNarrate ==
  ASSUME WriterTypes, FlagTypes, TurnInv, NEW w \in Writers, Narrate(w), Calm'
  PROVE  /\ Calm /\ ~WriterFails(w)
         /\ \A v \in Writers \ {w} : step[v] \in {"off", "done"} /\ step'[v] = step[v]
<1>1. ~overlap' /\ faults' = 0
  BY DEF Calm
<1>2. faults \in Nat
  BY LogAssumption DEF FlagTypes
<1>3. faults = 0 /\ ~WriterFails(w)
  <2>1. WriterFails(w) => faults' = faults + 1
    BY DEF WriterFails
  <2>2. ~WriterFails(w) => faults' = faults
    BY DEF Narrate, Load, ReadDevlog, FillDevlog, ReadLog, MarkConsumed
  <2>3. QED
    BY <1>1, <1>2, <2>1, <2>2
<1>4. ~overlap' => ~overlap /\ \A v \in Writers \ {w} : step[v] \in {"off", "done"}
                                                       /\ step'[v] = step[v]
  BY Alone
<1>5. Calm
  BY <1>1, <1>3, <1>4, Zenon DEF Calm
<1>6. QED
  BY <1>1, <1>3, <1>4, <1>5, Zenon

\* A hook that is not cut off is no fault.
LEMMA CalmLog ==
  ASSUME HookTypes, FileTypes, FlagTypes, NEW p \in Committers, Log(p), Calm'
  PROVE  Calm
<1>1. faults \in Nat /\ ~overlap' /\ faults' = 0
  BY LogAssumption DEF FlagTypes, Calm
<1>2. overlap' = overlap /\ faults' \in {faults, faults + 1}
  BY LogIs, Zenon
<1>3. faults = 0
  BY <1>1, <1>2
<1>4. QED
  BY <1>1, <1>2, <1>3, Zenon DEF Calm

Kept(s) == \A l \in logged \ raced : Has(s, l)

\* KeptInv, of the variables as they are and as they become.
LEMMA KeptParts ==
  /\ KeptInv <=>
       (Calm => /\ (\A w \in Writers : step[w] # "fill log") => Kept(log)
                /\ \A w \in Writers : step[w] = "fill log" => Kept(lines[w]))
  /\ (Calm' => /\ (\A w \in Writers : step'[w] # "fill log") =>
                    \A l \in logged' \ raced' : Has(log', l)
               /\ \A w \in Writers : step'[w] = "fill log" =>
                    \A l \in logged' \ raced' : Has(lines'[w], l))
     => KeptInv'
<1>1. KeptInv <=>
       (Calm => /\ (\A w \in Writers : step[w] # "fill log") => Kept(log)
                /\ \A w \in Writers : step[w] = "fill log" => Kept(lines[w]))
  BY Zenon DEF KeptInv, Kept
<1>2. (Calm' => /\ (\A w \in Writers : step'[w] # "fill log") =>
                     \A l \in logged' \ raced' : Has(log', l)
                /\ \A w \in Writers : step'[w] = "fill log" =>
                     \A l \in logged' \ raced' : Has(lines'[w], l))
      => KeptInv'
  BY Zenon DEF KeptInv, Has
<1>3. QED
  BY <1>1, <1>2

\* A writer that is alone puts back every line it has read.
LEMMA KeptNarrate ==
  ASSUME WriterTypes, FlagTypes, FileTypes, TurnInv, KeptInv, NEW w \in Writers, Narrate(w)
  PROVE  KeptInv'
<1> DEFINE Stay(s) == \A l \in logged' \ raced' : Has(s, l)
<1>1. SUFFICES ASSUME Calm'
               PROVE  /\ (\A v \in Writers : step'[v] # "fill log") => Stay(log')
                      /\ \A v \in Writers : step'[v] = "fill log" => Stay(lines'[v])
  BY KeptParts, Zenon
<1>2. /\ Calm /\ ~WriterFails(w)
      /\ \A v \in Writers \ {w} : step[v] # "fill log" /\ step'[v] # "fill log"
  BY <1>1, CalmNarrate
<1>3. /\ (\A v \in Writers : step[v] # "fill log") => Kept(log)
      /\ \A v \in Writers : step[v] = "fill log" => Kept(lines[v])
  BY <1>2, KeptParts, Zenon
<1>4. logged' = logged /\ raced' = raced
  BY DEF Narrate, Load, ReadDevlog, FillDevlog, ReadLog, MarkConsumed, WriterFails, history
<1>5. ASSUME NEW s PROVE Stay(s) <=> Kept(s)
  BY <1>4 DEF Kept
<1> HIDE DEF Stay
<1>6. CASE Load(w) \/ ReadDevlog(w) \/ FillDevlog(w)
  <2>1. log' = log /\ step[w] # "fill log" /\ step'[w] # "fill log"
    BY <1>6 DEF Load, ReadDevlog, FillDevlog, StepTo, WriterTypes
  <2>2. QED
    BY <1>2, <1>3, <1>5, <2>1
<1>7. CASE ReadLog(w)
  <2>1. lines'[w] = log /\ step[w] # "fill log" /\ step'[w] = "fill log"
    BY <1>7 DEF ReadLog, StepTo, WriterTypes
  <2>2. QED
    BY <1>2, <1>3, <1>5, <2>1
<1>8. CASE MarkConsumed(w)
  <2>1. log' = Marked(w) /\ step[w] = "fill log" /\ Finishes(w)
    BY <1>8 DEF MarkConsumed
  <2>2. \A k : Has(lines[w], k) => Has(Marked(w), k)
    BY MarkedLines DEF WriterTypes
  <2>3. Kept(Marked(w))
    BY <1>3, <2>1, <2>2 DEF Kept
  <2>4. QED
    BY <1>2, <1>5, <2>1, <2>3, FinishesIs
<1>9. QED
  BY <1>2, <1>6, <1>7, <1>8 DEF Narrate

\* A hook appends behind what is there; a line that meets a rewrite is raced.
LEMMA KeptLog ==
  ASSUME HookTypes, WriterTypes, FlagTypes, FileTypes, KeptInv, NEW p \in Committers, Log(p)
  PROVE  KeptInv'
<1> DEFINE Stay(s) == \A l \in logged' \ raced' : Has(s, l)
<1>1. SUFFICES ASSUME Calm'
               PROVE  /\ (\A v \in Writers : step'[v] # "fill log") => Stay(log')
                      /\ \A v \in Writers : step'[v] = "fill log" => Stay(lines'[v])
  BY KeptParts, Zenon
<1>2. Calm /\ UNCHANGED <<step, lines>>
  BY <1>1, CalmLog, LogIs
<1>3. /\ (\A v \in Writers : step[v] # "fill log") => Kept(log)
      /\ \A v \in Writers : step[v] = "fill log" => Kept(lines[v])
  BY <1>2, KeptParts, Zenon
<1>4. CASE UNCHANGED <<log, logged, raced>>
  BY <1>2, <1>3, <1>4 DEF Kept
<1>5. CASE ~ UNCHANGED <<log, logged, raced>>
  <2>1. /\ LineOf(p) \in Lines /\ LineOf(p).consumed = FALSE
        /\ log' = Append(log, LineOf(p)) /\ logged' = logged \cup {LineOf(p)}
        /\ raced' = IF \E v \in Writers : step[v] = "fill log"
                    THEN raced \cup {LineOf(p)} ELSE raced
    BY <1>5, LogIs
  <2>2. Has(log', LineOf(p)) /\ \A k : Has(log, k) => Has(log', k)
    BY <2>1, AppendLines DEF FileTypes
  <2>3. CASE \E v \in Writers : step[v] = "fill log"
    <3>1. logged' \ raced' \subseteq logged \ raced
      BY <2>1, <2>3
    <3>2. QED
      BY <1>2, <1>3, <2>3, <3>1 DEF Kept
  <2>4. CASE \A v \in Writers : step[v] # "fill log"
    <3>1. raced' = raced /\ Kept(log)
      BY <1>3, <2>1, <2>4
    <3>2. Stay(log')
      BY <2>1, <2>2, <3>1 DEF Kept
    <3>3. QED
      BY <1>2, <2>4, <3>2
  <2>5. QED
    BY <2>3, <2>4
<1>6. QED
  BY <1>4, <1>5

\* A commit's step and a chain's leave the files and the writers alone.
LEMMA OtherSteps ==
  ASSUME FlagTypes,
         (\E p \in Committers : Serve(p) \/ Committing(p)) \/ UNCHANGED vars
  PROVE  /\ UNCHANGED <<log, devlog, logged, raced, step, picked, sections, lines, overlap, doubled>>
         /\ Calm' => Calm
<1>0. faults \in Nat
  BY Constants DEF FlagTypes
<1>1. /\ UNCHANGED <<log, devlog, logged, raced, step, picked, sections, lines, overlap, doubled>>
      /\ faults' = faults \/ faults' = faults + 1
  <2>1. ASSUME NEW p \in Committers, Serve(p)
        PROVE  UNCHANGED <<log, devlog, writer, history, faults>>
    BY <2>1, Frames
  <2>2. ASSUME NEW p \in Committers, Committing(p)
        PROVE  UNCHANGED <<log, devlog, writer, history>> /\ (faults' = faults \/ faults' = faults + 1)
    BY <2>2, Frames DEF Committing, BeginCommit, Halts, Passes, Commit, CommitRefused,
       WorkerCommits, WorkerResolves
  <2>3. QED
    BY <2>1, <2>2 DEF vars, writer, history
<1>2. Calm' => Calm
  BY <1>0, <1>1 DEF Calm
<1>3. QED
  BY <1>1, <1>2

\* Every step keeps the lines.
LEMMA KeptStep ==
  ASSUME TypeOK, TurnInv, KeptInv, [Next]_vars
  PROVE  KeptInv'
<1>0. HookTypes /\ WriterTypes /\ FileTypes /\ FlagTypes
  BY TypeParts
<1>1. ASSUME UNCHANGED <<log, logged, raced, step, lines>>, Calm' => Calm PROVE KeptInv'
  BY <1>1, KeptParts DEF Kept
<1>2. QED
  BY <1>0, <1>1, OtherSteps, KeptLog, KeptNarrate DEF Next

----------------------------------------------------------------------------
(* Entries that are consumed *)

\* ConsumedInv, of the variables as they are and as they become.
LEMMA ConsumedParts ==
  /\ ConsumedInv <=>
       (Calm =>
          /\ (\A w \in Writers : step[w] # "fill devlog") => Consumed(log) \subseteq SetsOf(devlog)
          /\ \A w \in Writers :
               /\ step[w] = "fill devlog" => Consumed(log) \subseteq SetsOf(sections[w])
               /\ step[w] \in {"read log", "fill log"} => picked[w] \subseteq SetsOf(devlog)
               /\ step[w] = "fill log" => Consumed(lines[w]) \subseteq SetsOf(devlog))
  /\ (Calm' =>
        /\ (\A w \in Writers : step'[w] # "fill devlog") => Consumed(log') \subseteq SetsOf(devlog')
        /\ \A w \in Writers :
             /\ step'[w] = "fill devlog" => Consumed(log') \subseteq SetsOf(sections'[w])
             /\ step'[w] \in {"read log", "fill log"} => picked'[w] \subseteq SetsOf(devlog')
             /\ step'[w] = "fill log" => Consumed(lines'[w]) \subseteq SetsOf(devlog'))
     => ConsumedInv'
<1>1. ConsumedInv <=>
       (Calm =>
          /\ (\A w \in Writers : step[w] # "fill devlog") => Consumed(log) \subseteq SetsOf(devlog)
          /\ \A w \in Writers :
               /\ step[w] = "fill devlog" => Consumed(log) \subseteq SetsOf(sections[w])
               /\ step[w] \in {"read log", "fill log"} => picked[w] \subseteq SetsOf(devlog)
               /\ step[w] = "fill log" => Consumed(lines[w]) \subseteq SetsOf(devlog))
  BY Zenon DEF ConsumedInv, Listed, SetsOf
<1>2. (Calm' =>
        /\ (\A w \in Writers : step'[w] # "fill devlog") => Consumed(log') \subseteq SetsOf(devlog')
        /\ \A w \in Writers :
             /\ step'[w] = "fill devlog" => Consumed(log') \subseteq SetsOf(sections'[w])
             /\ step'[w] \in {"read log", "fill log"} => picked'[w] \subseteq SetsOf(devlog')
             /\ step'[w] = "fill log" => Consumed(lines'[w]) \subseteq SetsOf(devlog'))
     => ConsumedInv'
  BY Zenon DEF ConsumedInv, Listed, SetsOf, Consumed
<1>3. QED
  BY <1>1, <1>2

\* A writer that is alone marks only what it has narrated.
LEMMA ConsumedNarrate ==
  ASSUME WriterTypes, FlagTypes, FileTypes, TurnInv, ConsumedInv, NEW w \in Writers, Narrate(w)
  PROVE  ConsumedInv'
<1>1. SUFFICES ASSUME Calm'
      PROVE
        /\ (\A v \in Writers : step'[v] # "fill devlog") => Consumed(log') \subseteq SetsOf(devlog')
        /\ \A v \in Writers :
             /\ step'[v] = "fill devlog" => Consumed(log') \subseteq SetsOf(sections'[v])
             /\ step'[v] \in {"read log", "fill log"} => picked'[v] \subseteq SetsOf(devlog')
             /\ step'[v] = "fill log" => Consumed(lines'[v]) \subseteq SetsOf(devlog')
  BY ConsumedParts, Zenon
<1>2. /\ Calm /\ ~WriterFails(w)
      /\ \A v \in Writers \ {w} : step[v] \in {"off", "done"} /\ step'[v] \in {"off", "done"}
  BY <1>1, CalmNarrate
<1>3. /\ step[w] # "fill devlog" => Consumed(log) \subseteq SetsOf(devlog)
      /\ step[w] = "fill devlog" => Consumed(log) \subseteq SetsOf(sections[w])
      /\ step[w] \in {"read log", "fill log"} => picked[w] \subseteq SetsOf(devlog)
      /\ step[w] = "fill log" => Consumed(lines[w]) \subseteq SetsOf(devlog)
  BY <1>2, ConsumedParts
<1>4. SUFFICES
        /\ step'[w] # "fill devlog" => Consumed(log') \subseteq SetsOf(devlog')
        /\ step'[w] = "fill devlog" => Consumed(log') \subseteq SetsOf(sections'[w])
        /\ step'[w] \in {"read log", "fill log"} => picked'[w] \subseteq SetsOf(devlog')
        /\ step'[w] = "fill log" => Consumed(lines'[w]) \subseteq SetsOf(devlog')
  BY <1>2
<1>5. CASE Load(w)
  <2>1. step[w] = "off" /\ step'[w] = "read devlog" /\ UNCHANGED <<log, devlog>>
    BY <1>5, LoadIs DEF WriterTypes
  <2>2. QED
    BY <1>3, <2>1
<1>6. CASE ReadDevlog(w)
  <2>1. step[w] = "read devlog" /\ step'[w] = "fill devlog" /\ log' = log /\ sections'[w] = devlog
    BY <1>6 DEF ReadDevlog, StepTo, WriterTypes
  <2>2. QED
    BY <1>3, <2>1
<1>7. CASE FillDevlog(w)
  <2>1. /\ step[w] = "fill devlog" /\ step'[w] = "read log" /\ log' = log /\ picked' = picked
        /\ devlog' = Append(sections[w], picked[w])
    BY <1>7 DEF FillDevlog, StepTo, WriterTypes
  <2>2. SetsOf(devlog') = SetsOf(sections[w]) \cup picked[w]
    BY <2>1, AppendSections DEF WriterTypes
  <2>3. QED
    BY <1>3, <2>1, <2>2
<1>8. CASE ReadLog(w)
  <2>1. /\ step[w] = "read log" /\ step'[w] = "fill log" /\ log' = <<>> /\ lines'[w] = log
        /\ picked' = picked /\ devlog' = devlog
    BY <1>8 DEF ReadLog, StepTo, WriterTypes
  <2>2. Consumed(log') = {}
    BY <2>1, EmptyLines
  <2>3. QED
    BY <1>3, <2>1, <2>2
<1>9. CASE MarkConsumed(w)
  <2>1. step[w] = "fill log" /\ step'[w] = "done" /\ log' = Marked(w) /\ devlog' = devlog
    BY <1>9, FinishesIs DEF MarkConsumed
  <2>2. Consumed(Marked(w)) \subseteq Consumed(lines[w]) \cup picked[w]
    BY MarkedLines DEF WriterTypes
  <2>3. QED
    BY <1>3, <2>1, <2>2
<1>10. QED
  BY <1>2, <1>5, <1>6, <1>7, <1>8, <1>9 DEF Narrate

\* No step consumes what is not narrated: what a hook appends is not consumed.
LEMMA ConsumedStep ==
  ASSUME TypeOK, TurnInv, ConsumedInv, [Next]_vars
  PROVE  ConsumedInv'
<1>0. HookTypes /\ WriterTypes /\ FileTypes /\ FlagTypes
  BY TypeParts
<1>1. ASSUME Calm' => Calm, Consumed(log') = Consumed(log),
             UNCHANGED <<devlog, step, picked, sections, lines>>
      PROVE  ConsumedInv'
  BY <1>1, ConsumedParts
<1>2. ASSUME NEW p \in Committers, Log(p) PROVE ConsumedInv'
  <2>1. (Calm' => Calm) /\ UNCHANGED <<devlog, step, picked, sections, lines>>
    BY <1>0, <1>2, CalmLog, LogIs
  <2>2. Consumed(log') = Consumed(log)
    <3>1. \/ log' = log
          \/ LineOf(p) \in Lines /\ LineOf(p).consumed = FALSE /\ log' = Append(log, LineOf(p))
      BY <1>0, <1>2, LogIs
    <3>2. QED
      BY <1>0, <3>1, AppendLines DEF FileTypes
  <2>3. QED
    BY <1>1, <2>1, <2>2
<1>3. ASSUME UNCHANGED <<log, devlog, step, picked, sections, lines>>, Calm' => Calm
      PROVE  ConsumedInv'
  BY <1>1, <1>3
<1>4. QED
  BY <1>0, <1>2, <1>3, OtherSteps, ConsumedNarrate DEF Next

----------------------------------------------------------------------------
(* Commits that are narrated once *)

\* OnceInv, of the variables as they are and as they become.
LEMMA OnceParts ==
  /\ OnceInv <=>
       (Calm /\ ~doubled =>
          /\ Disjoint(devlog)
          /\ (\A w \in Writers : step[w] \notin {"fill devlog", "read log", "fill log"}) =>
               Pending(log) \cap SetsOf(devlog) = {}
          /\ \A w \in Writers :
               /\ step[w] = "read devlog" => picked[w] \cap SetsOf(devlog) = {}
               /\ step[w] = "fill devlog" => /\ Disjoint(sections[w])
                                             /\ picked[w] \cap SetsOf(sections[w]) = {}
                                             /\ Pending(log) \cap SetsOf(sections[w]) = {}
               /\ step[w] = "read log" => Pending(log) \cap SetsOf(devlog) \subseteq picked[w]
               /\ step[w] = "fill log" => Pending(lines[w]) \cap SetsOf(devlog) \subseteq picked[w])
  /\ (Calm' /\ ~doubled' =>
        /\ Disjoint(devlog')
        /\ (\A w \in Writers : step'[w] \notin {"fill devlog", "read log", "fill log"}) =>
             Pending(log') \cap SetsOf(devlog') = {}
        /\ \A w \in Writers :
             /\ step'[w] = "read devlog" => picked'[w] \cap SetsOf(devlog') = {}
             /\ step'[w] = "fill devlog" => /\ Disjoint(sections'[w])
                                            /\ picked'[w] \cap SetsOf(sections'[w]) = {}
                                            /\ Pending(log') \cap SetsOf(sections'[w]) = {}
             /\ step'[w] = "read log" => Pending(log') \cap SetsOf(devlog') \subseteq picked'[w]
             /\ step'[w] = "fill log" =>
                  Pending(lines'[w]) \cap SetsOf(devlog') \subseteq picked'[w])
     => OnceInv'
<1>1. OnceInv <=>
       (Calm /\ ~doubled =>
          /\ Disjoint(devlog)
          /\ (\A w \in Writers : step[w] \notin {"fill devlog", "read log", "fill log"}) =>
               Pending(log) \cap SetsOf(devlog) = {}
          /\ \A w \in Writers :
               /\ step[w] = "read devlog" => picked[w] \cap SetsOf(devlog) = {}
               /\ step[w] = "fill devlog" => /\ Disjoint(sections[w])
                                             /\ picked[w] \cap SetsOf(sections[w]) = {}
                                             /\ Pending(log) \cap SetsOf(sections[w]) = {}
               /\ step[w] = "read log" => Pending(log) \cap SetsOf(devlog) \subseteq picked[w]
               /\ step[w] = "fill log" => Pending(lines[w]) \cap SetsOf(devlog) \subseteq picked[w])
  BY Zenon DEF OnceInv, Listed, SetsOf
<1>2. (Calm' /\ ~doubled' =>
        /\ Disjoint(devlog')
        /\ (\A w \in Writers : step'[w] \notin {"fill devlog", "read log", "fill log"}) =>
             Pending(log') \cap SetsOf(devlog') = {}
        /\ \A w \in Writers :
             /\ step'[w] = "read devlog" => picked'[w] \cap SetsOf(devlog') = {}
             /\ step'[w] = "fill devlog" => /\ Disjoint(sections'[w])
                                            /\ picked'[w] \cap SetsOf(sections'[w]) = {}
                                            /\ Pending(log') \cap SetsOf(sections'[w]) = {}
             /\ step'[w] = "read log" => Pending(log') \cap SetsOf(devlog') \subseteq picked'[w]
             /\ step'[w] = "fill log" =>
                  Pending(lines'[w]) \cap SetsOf(devlog') \subseteq picked'[w])
     => OnceInv'
  BY Zenon DEF OnceInv, Listed, SetsOf, Pending, Disjoint
<1>3. QED
  BY <1>1, <1>2

\* A writer that is alone narrates what is in no section, and marks it.
LEMMA OnceNarrate ==
  ASSUME WriterTypes, FlagTypes, FileTypes, TurnInv, OnceInv, NEW w \in Writers, Narrate(w)
  PROVE  OnceInv'
<1>1. SUFFICES ASSUME Calm' /\ ~doubled'
      PROVE
        /\ Disjoint(devlog')
        /\ (\A v \in Writers : step'[v] \notin {"fill devlog", "read log", "fill log"}) =>
             Pending(log') \cap SetsOf(devlog') = {}
        /\ \A v \in Writers :
             /\ step'[v] = "read devlog" => picked'[v] \cap SetsOf(devlog') = {}
             /\ step'[v] = "fill devlog" => /\ Disjoint(sections'[v])
                                            /\ picked'[v] \cap SetsOf(sections'[v]) = {}
                                            /\ Pending(log') \cap SetsOf(sections'[v]) = {}
             /\ step'[v] = "read log" => Pending(log') \cap SetsOf(devlog') \subseteq picked'[v]
             /\ step'[v] = "fill log" =>
                  Pending(lines'[v]) \cap SetsOf(devlog') \subseteq picked'[v]
  BY OnceParts, Zenon
<1>d. doubled' = doubled
  BY DEF Narrate, Load, ReadDevlog, FillDevlog, ReadLog, MarkConsumed, WriterFails, history
<1>2. /\ Calm /\ ~doubled /\ ~WriterFails(w)
      /\ \A v \in Writers \ {w} : step[v] \in {"off", "done"} /\ step'[v] \in {"off", "done"}
  BY <1>1, <1>d, CalmNarrate
<1>3. /\ Disjoint(devlog)
      /\ step[w] \notin {"fill devlog", "read log", "fill log"} =>
           Pending(log) \cap SetsOf(devlog) = {}
      /\ step[w] = "read devlog" => picked[w] \cap SetsOf(devlog) = {}
      /\ step[w] = "fill devlog" => /\ Disjoint(sections[w])
                                    /\ picked[w] \cap SetsOf(sections[w]) = {}
                                    /\ Pending(log) \cap SetsOf(sections[w]) = {}
      /\ step[w] = "read log" => Pending(log) \cap SetsOf(devlog) \subseteq picked[w]
      /\ step[w] = "fill log" => Pending(lines[w]) \cap SetsOf(devlog) \subseteq picked[w]
  <2>1. /\ Disjoint(devlog)
        /\ (\A v \in Writers : step[v] \notin {"fill devlog", "read log", "fill log"}) =>
             Pending(log) \cap SetsOf(devlog) = {}
        /\ step[w] = "read devlog" => picked[w] \cap SetsOf(devlog) = {}
        /\ step[w] = "fill devlog" => /\ Disjoint(sections[w])
                                      /\ picked[w] \cap SetsOf(sections[w]) = {}
                                      /\ Pending(log) \cap SetsOf(sections[w]) = {}
        /\ step[w] = "read log" => Pending(log) \cap SetsOf(devlog) \subseteq picked[w]
        /\ step[w] = "fill log" => Pending(lines[w]) \cap SetsOf(devlog) \subseteq picked[w]
    BY <1>2, OnceParts, Zenon
  <2>2. QED
    BY <1>2, <2>1
<1>4. SUFFICES
        /\ Disjoint(devlog')
        /\ step'[w] \notin {"fill devlog", "read log", "fill log"} =>
             Pending(log') \cap SetsOf(devlog') = {}
        /\ step'[w] = "read devlog" => picked'[w] \cap SetsOf(devlog') = {}
        /\ step'[w] = "fill devlog" => /\ Disjoint(sections'[w])
                                       /\ picked'[w] \cap SetsOf(sections'[w]) = {}
                                       /\ Pending(log') \cap SetsOf(sections'[w]) = {}
        /\ step'[w] = "read log" => Pending(log') \cap SetsOf(devlog') \subseteq picked'[w]
        /\ step'[w] = "fill log" => Pending(lines'[w]) \cap SetsOf(devlog') \subseteq picked'[w]
  BY <1>2
<1>5. CASE Load(w)
  <2>1. /\ step[w] = "off" /\ step'[w] = "read devlog" /\ UNCHANGED <<log, devlog>>
        /\ picked'[w] \subseteq Pending(log)
    BY <1>5, LoadIs DEF WriterTypes
  <2>2. QED
    BY <1>3, <2>1
<1>6. CASE ReadDevlog(w)
  <2>1. /\ step[w] = "read devlog" /\ step'[w] = "fill devlog" /\ log' = log /\ picked' = picked
        /\ sections'[w] = devlog /\ devlog' = <<>>
    BY <1>6 DEF ReadDevlog, StepTo, WriterTypes
  <2>2. QED
    BY <1>3, <2>1, EmptyLines
<1>7. CASE FillDevlog(w)
  <2>1. /\ step[w] = "fill devlog" /\ step'[w] = "read log" /\ log' = log /\ picked' = picked
        /\ devlog' = Append(sections[w], picked[w])
    BY <1>7 DEF FillDevlog, StepTo, WriterTypes
  <2>2. SetsOf(devlog') = SetsOf(sections[w]) \cup picked[w] /\ Disjoint(devlog')
    BY <1>3, <2>1, AppendSections DEF WriterTypes
  <2>3. QED
    BY <1>3, <2>1, <2>2
<1>8. CASE ReadLog(w)
  <2>1. /\ step[w] = "read log" /\ step'[w] = "fill log" /\ log' = <<>> /\ lines'[w] = log
        /\ picked' = picked /\ devlog' = devlog
    BY <1>8 DEF ReadLog, StepTo, WriterTypes
  <2>2. QED
    BY <1>3, <2>1
<1>9. CASE MarkConsumed(w)
  <2>1. step[w] = "fill log" /\ step'[w] = "done" /\ log' = Marked(w) /\ devlog' = devlog
    BY <1>9, FinishesIs DEF MarkConsumed
  <2>2. Pending(Marked(w)) \subseteq Pending(lines[w]) \ picked[w]
    BY MarkedLines DEF WriterTypes
  <2>3. Pending(log') \cap SetsOf(devlog') = {}
    BY <1>3, <2>1, <2>2
  <2>4. QED
    BY <1>3, <2>1, <2>3
<1>10. QED
  BY <1>2, <1>5, <1>6, <1>7, <1>8, <1>9 DEF Narrate

\* A commit that is appended for the first time is in no section yet.
LEMMA OnceLog ==
  ASSUME HookTypes, FlagTypes, FileTypes, LoggedInv, OnceInv, NEW p \in Committers, Log(p)
  PROVE  OnceInv'
<1>1. SUFFICES ASSUME Calm' /\ ~doubled'
      PROVE
        /\ Disjoint(devlog')
        /\ (\A v \in Writers : step'[v] \notin {"fill devlog", "read log", "fill log"}) =>
             Pending(log') \cap SetsOf(devlog') = {}
        /\ \A v \in Writers :
             /\ step'[v] = "read devlog" => picked'[v] \cap SetsOf(devlog') = {}
             /\ step'[v] = "fill devlog" => /\ Disjoint(sections'[v])
                                            /\ picked'[v] \cap SetsOf(sections'[v]) = {}
                                            /\ Pending(log') \cap SetsOf(sections'[v]) = {}
             /\ step'[v] = "read log" => Pending(log') \cap SetsOf(devlog') \subseteq picked'[v]
             /\ step'[v] = "fill log" =>
                  Pending(lines'[v]) \cap SetsOf(devlog') \subseteq picked'[v]
  BY OnceParts, Zenon
<1>2. Calm /\ UNCHANGED <<devlog, step, picked, sections, lines>>
  BY <1>1, CalmLog, LogIs
<1>3. /\ ~doubled
      /\ \/ log' = log
         \/ /\ LineOf(p) \in Lines /\ LineOf(p).consumed = FALSE /\ log' = Append(log, LineOf(p))
            /\ LineOf(p).sha \notin Appended
  BY <1>1, LogIs, Zenon DEF Appended
<1>4. PICK new :
        /\ Pending(log') \subseteq Pending(log) \cup new
        /\ new \cap Appended = {}
  <2>1. CASE log' = log
    <3>1. Pending(log') \subseteq Pending(log) \cup {} /\ {} \cap Appended = {}
      BY <2>1
    <3>2. QED
      BY <3>1
  <2>2. CASE ~(log' = log)
    <3>1. Pending(log') = Pending(log) \cup {LineOf(p).sha}
      BY <1>3, <2>2, AppendLines DEF FileTypes
    <3>2. {LineOf(p).sha} \cap Appended = {}
      BY <1>3, <2>2
    <3>3. QED
      BY <3>1, <3>2
  <2>3. QED
    BY <2>1, <2>2
<1>5. SetsOf(devlog) \cap new = {} /\ \A v \in Writers : SetsOf(sections[v]) \cap new = {}
  BY <1>4, LoggedParts
<1>6. /\ Disjoint(devlog)
      /\ (\A v \in Writers : step[v] \notin {"fill devlog", "read log", "fill log"}) =>
           Pending(log) \cap SetsOf(devlog) = {}
      /\ \A v \in Writers :
           /\ step[v] = "read devlog" => picked[v] \cap SetsOf(devlog) = {}
           /\ step[v] = "fill devlog" => /\ Disjoint(sections[v])
                                         /\ picked[v] \cap SetsOf(sections[v]) = {}
                                         /\ Pending(log) \cap SetsOf(sections[v]) = {}
           /\ step[v] = "read log" => Pending(log) \cap SetsOf(devlog) \subseteq picked[v]
           /\ step[v] = "fill log" => Pending(lines[v]) \cap SetsOf(devlog) \subseteq picked[v]
  BY <1>2, <1>3, OnceParts, Zenon
<1>7. (\A v \in Writers : step[v] \notin {"fill devlog", "read log", "fill log"}) =>
        Pending(log') \cap SetsOf(devlog) = {}
  BY <1>4, <1>5, <1>6
<1>8. ASSUME NEW v \in Writers
      PROVE  /\ step[v] = "fill devlog" => Pending(log') \cap SetsOf(sections[v]) = {}
             /\ step[v] = "read log" => Pending(log') \cap SetsOf(devlog) \subseteq picked[v]
  BY <1>4, <1>5, <1>6
<1>9. QED
  BY <1>2, <1>6, <1>7, <1>8

\* No step narrates again what is narrated.
LEMMA OnceStep ==
  ASSUME TypeOK, TurnInv, LoggedInv, OnceInv, [Next]_vars
  PROVE  OnceInv'
<1>0. HookTypes /\ WriterTypes /\ FileTypes /\ FlagTypes
  BY TypeParts
<1>1. ASSUME UNCHANGED <<log, devlog, step, picked, sections, lines, doubled>>, Calm' => Calm
      PROVE  OnceInv'
  BY <1>1, OnceParts
<1>2. QED
  BY <1>0, <1>1, OtherSteps, OnceLog, OnceNarrate DEF Next

----------------------------------------------------------------------------
(* The theorems *)

\* The initial states satisfy every invariant.
LEMMA InitHolds ==
  ASSUME Init
  PROVE  TypeOK /\ RunInv /\ LoggedInv /\ TurnInv /\ KeptInv /\ ConsumedInv /\ OnceInv
<1>1. /\ Len(<<>>) = 0 /\ 1..0 = {} /\ <<>> \in Seq(Rows) /\ <<>> \in Seq(Lines)
      /\ <<>> \in Seq(SUBSET Commits)
  BY EmptySeq
<1>2. {} \in SUBSET Commits /\ 0 \in 0..MaxFaults
  BY Constants
<1>3. HookTypes /\ ChainTypes
  BY Constants DEF Init, HookTypes, ChainTypes, Places
<1>4. GitTypes
  BY <1>1, Constants DEF Init, GitTypes, Commits
<1>5. WriterTypes
  BY <1>1, <1>2 DEF Init, WriterTypes, Steps
<1>6. FileTypes /\ FlagTypes
  BY <1>1, <1>2 DEF Init, FileTypes, FlagTypes
<1>7. RunInv
  <2>1. \A c : Points(NoRows, c)
    BY Constants DEF Points
  <2>2. GitRuns
    BY <1>1, <2>1, Constants DEF Init, GitRuns, Commits
  <2>3. LineRuns
    BY DEF Init, LineRuns
  <2>4. ASSUME NEW p \in Committers PROVE HookRuns(p) /\ ChainRuns(p) /\ Looks(p)
    BY <2>1, Constants DEF Init, HookRuns, ChainRuns, Looks
  <2>5. QED
    BY <2>2, <2>3, <2>4 DEF RunInv
<1>8. /\ log = <<>> /\ devlog = <<>> /\ logged = {}
      /\ \A w \in Writers : /\ step[w] = "off" /\ lines[w] = <<>> /\ sections[w] = <<>>
                            /\ picked[w] = {}
  BY DEF Init
<1>9. LoggedInv
  BY <1>8, EmptyLines, LoggedParts
<1>10. TurnInv
  BY <1>8 DEF TurnInv, Active
<1>11. KeptInv
  BY <1>8 DEF KeptInv
<1>12. ConsumedInv
  BY <1>8, EmptyLines, ConsumedParts
<1>13. OnceInv
  BY <1>8, EmptyLines, OnceParts
<1>14. QED
  BY <1>3, <1>4, <1>5, <1>6, <1>7, <1>9, <1>10, <1>11, <1>12, <1>13, TypeParts

\* update_commit_log.py, the hooks and the devlog writer keep every variable of
\* its type: no step writes a line or a section of another shape.
THEOREM TypeCorrect == Spec => []TypeOK
<1>1. Init => TypeOK
  BY InitHolds
<1>2. TypeOK /\ [Next]_vars => TypeOK'
  BY TypeStep
<1>3. QED
  BY <1>1, <1>2, PTL DEF Spec

\* What _gate_fields() and _token_for_sha() find for a developer's commit, row by
\* row and with other chains saving meanwhile: the newest row is never older than
\* the last one of the chain that let the commit pass, and what is taken from its
\* parent is that chain's or newer throughout (RunInv): gate_results.db only
\* grows, and what let a commit pass was saved before anything of the commit.
THEOREM RunsAreOwnOrLater == Spec => []RecordsOwnRunOrLater
<1>1. Init => RunInv
  BY InitHolds
<1>2. TypeOK /\ RunInv /\ [Next]_vars => RunInv'
  BY RunStep
<1>3. RunInv => RecordsOwnRunOrLater
  BY Zenon DEF RunInv, LineRuns, Fits, RecordsOwnRunOrLater
<1>4. QED
  BY <1>1, <1>2, <1>3, TypeCorrect, PTL DEF Spec

\* Writers that have not met take turns.
LEMMA TurnsAreTaken == Spec => []TurnInv
<1>1. Init => TurnInv
  BY InitHolds
<1>2. TypeOK /\ TurnInv /\ [Next]_vars => TurnInv'
  BY TypeParts, TurnStep
<1>3. QED
  BY <1>1, <1>2, TypeCorrect, PTL DEF Spec

\* A line that append_entry() has written stays in the log, apart from the moment
\* of a rewrite, unless it was written while a writer had the log in hand, two
\* writers have met or one was cut off (KeptInv, TurnInv).
THEOREM LinesAreKept == Spec => []LostOnlyInRaces
<1>1. Init => KeptInv
  BY InitHolds
<1>2. TypeOK /\ TurnInv /\ KeptInv /\ [Next]_vars => KeptInv'
  BY KeptStep
<1>3. KeptInv => LostOnlyInRaces
  BY Zenon DEF KeptInv, LostOnlyInRaces, Calm, Has
<1>4. QED
  BY <1>1, <1>2, <1>3, TypeCorrect, TurnsAreTaken, PTL DEF Spec

\* An entry that mark_consumed() has marked is in DEVLOG.md, whatever hooks append
\* meanwhile, while writers take turns and none is cut off (ConsumedInv, TurnInv).
THEOREM ConsumedMeansNarrated == Spec => []ConsumedIsNarrated
<1>1. Init => ConsumedInv
  BY InitHolds
<1>2. TypeOK /\ TurnInv /\ ConsumedInv /\ [Next]_vars => ConsumedInv'
  BY ConsumedStep
<1>3. ConsumedInv => ConsumedIsNarrated
  <2>1. SUFFICES ASSUME ConsumedInv, ~overlap, faults = 0,
                        \A w \in Writers : step[w] # "fill devlog",
                        NEW i \in 1..Len(log), log[i].consumed
                 PROVE  log[i].sha \in Listed
    BY Zenon DEF ConsumedIsNarrated
  <2>2. Consumed(log) \subseteq Listed
    BY <2>1, Zenon DEF ConsumedInv, Calm
  <2>3. log[i].sha \in Consumed(log)
    BY <2>1, Zenon DEF Consumed
  <2>4. QED
    BY <2>2, <2>3
<1>4. QED
  BY <1>1, <1>2, <1>3, TypeCorrect, TurnsAreTaken, PTL DEF Spec

\* No commit is in two sections of DEVLOG.md, while writers take turns, none is
\* cut off and no commit was appended twice: what is narrated is consumed before
\* the next writer loads (OnceInv), and a commit that is appended for the first
\* time is in no section (LoggedInv).
THEOREM CommitsAreNarratedOnce == Spec => []NarratedOnce
<1>1. Init => LoggedInv /\ OnceInv
  BY InitHolds
<1>2. TypeOK /\ TurnInv /\ LoggedInv /\ OnceInv /\ [Next]_vars => LoggedInv' /\ OnceInv'
  BY LoggedStep, OnceStep
<1>3. TypeOK /\ OnceInv => NarratedOnce
  <2>1. SUFFICES ASSUME TypeOK, OnceInv, ~(faults > 0), ~overlap, ~doubled
                 PROVE  Disjoint(devlog)
    BY Zenon DEF NarratedOnce, Disjoint
  <2>2. faults = 0
    <3>1. faults \in 0..MaxFaults
      BY <2>1, TypeParts DEF FlagTypes
    <3>2. QED
      BY <2>1, <3>1, LogAssumption
  <2>3. QED
    BY <2>1, <2>2, Zenon DEF OnceInv, Calm
<1>4. QED
  BY <1>1, <1>2, <1>3, TypeCorrect, TurnsAreTaken, PTL DEF Spec
=============================================================================
