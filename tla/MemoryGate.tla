----------------------------- MODULE MemoryGate -----------------------------
(***************************************************************************)
(* The memory gate in solo mode: _execute_solo() of memory/memory_gate.py  *)
(* over both contract stores of memory/contract_store.py, with the pass    *)
(* cache, schema-first extraction (memory/schema_capture.py) and the       *)
(* scoring of DriftScore.                                                  *)
(*                                                                         *)
(* A run of the gate has no suspension point, and its process serves one   *)
(* after the other; files change beside it, and it may end between any two *)
(* steps, by an exception or with its process.  write_text() truncates     *)
(* and then writes, so the file being written may be left torn.            *)
(*                                                                         *)
(* Versions stand for what a module's code or its declared schema says.    *)
(* A generation is known by its sequence number: gen_{sequence}.json of    *)
(* each module in the JSON store, the session file of one run in the       *)
(* vector store, whose session id is new in every run.  Checkpoints are    *)
(* written and never read by the gate; managed mode is in SessionCommit.   *)
(***************************************************************************)
EXTENDS DriftScore

CONSTANTS
  Modules,        \* numbers, in the order of the modules' names
  CodeVersions,   \* what may be extracted from a module's syntax tree
  SchemaVersions, \* what an agent may declare of a module
  Summary,        \* the contract summary of each version
  Thresholds,     \* what CDMAD_DRIFT_THRESHOLD may say, or the default 5000
  Base, Widest,   \* 10 and 9999: file names pad to the digits of Widest
  MaxRuns,        \* bound: sequence numbers
  MaxEdits,       \* bound: changes to the working tree
  MaxFaults       \* bound: runs that end early

CONSTANTS Absent, Torn

Versions == CodeVersions \cup SchemaVersions

ASSUME GateAssumption ==
  /\ Modules \subseteq Nat /\ IsFiniteSet(Modules) /\ Modules # {}
  /\ CodeVersions # {} /\ {Absent, Torn} \cap Versions = {} /\ Absent # Torn
  /\ Absent \notin Nat /\ Torn \notin Nat
  /\ DOMAIN Summary = Versions
  /\ \A v \in Versions :
       /\ IsFiniteSet(DOMAIN Summary[v].contracts)
       /\ IsFiniteSet(Summary[v].assumptions) /\ IsFiniteSet(Summary[v].dependencies)
  /\ \A v \in CodeVersions : Summary[v].assumptions = {}
  /\ Thresholds \subseteq Int /\ Thresholds # {}
  /\ Base \in Nat \ {0, 1} /\ Widest \in Nat \ {0}
  /\ MaxRuns \in 1..(Widest * Base + Base - 1)
  /\ MaxEdits \in Nat /\ MaxFaults \in Nat

VARIABLES
  backend,    \* CDMAD_STORE: one for all runs
  threshold,  \* of the gate of this run, in ten-thousandths rounded up
  code,       \* the source files of the working tree, by module
  schema,     \* session_schema.json, by module; not in the cache's hash
  session,    \* current_sequence in the session file
  file,       \* the generations on disk
  latest,     \* latest_session of index.json; 0 when it is absent or torn
  cache,      \* the source tree whose hash memory_cache.json has; {} is none, or a torn file
  at,         \* where the run stands
  taken,      \* the source tree it has discovered
  todo,       \* modules it has not begun
  module,     \* the module it is at
  found,      \* what it has extracted
  base,       \* the generation each module was compared with; 0 is none
  verdict,    \* the answer of the last run
  \* history
  judged,     \* generations whose run has given its answer
  accepted,   \* source trees that have passed their comparison
  refused,    \* what the last judged run has blocked
  declared,   \* whether a schema has ever been there
  edits, faults

tree  == <<code, schema, edits, declared>>
store == <<session, file, latest, cache>>
run   == <<at, taken, todo, module, found, base>>
past  == <<judged, accepted, refused>>
vars  == <<backend, threshold, tree, store, run, verdict, past, faults>>

----------------------------------------------------------------------------
Sequences   == 1..MaxRuns
NoTree      == [m \in Modules |-> Absent]
NoBase      == [m \in Modules |-> 0]
Present(t)  == {m \in Modules : t[m] # Absent}
Largest(S)  == CHOOSE n \in S : \A k \in S : k <= n
Smallest(S) == CHOOSE n \in S : \A k \in S : n <= k

Init ==
  /\ backend \in {"json", "vdb"} /\ threshold \in Thresholds
  /\ code \in [Modules -> CodeVersions] /\ schema = NoTree
  /\ session = Absent /\ file = [n \in Sequences |-> NoTree] /\ latest = 0
  /\ cache = {}
  /\ at = "idle" /\ taken = NoTree /\ todo = {} /\ module = Smallest(Modules)
  /\ found = NoTree /\ base = NoBase /\ verdict = "none"
  /\ judged = {} /\ accepted = {} /\ refused = NoTree /\ declared = FALSE
  /\ edits = 0 /\ faults = 0

----------------------------------------------------------------------------
(* The working tree *)

EditCode ==
  /\ edits < MaxEdits
  /\ \E m \in Modules, v \in CodeVersions \cup {Absent} : code' = [code EXCEPT ![m] = v]
  /\ edits' = edits + 1
  /\ UNCHANGED <<backend, threshold, schema, declared, store, run, verdict, past, faults>>

EditSchema ==
  /\ edits < MaxEdits
  /\ \E m \in Modules, v \in SchemaVersions \cup {Absent} : schema' = [schema EXCEPT ![m] = v]
  /\ edits' = edits + 1 /\ declared' = TRUE
  /\ UNCHANGED <<backend, threshold, code, store, run, verdict, past, faults>>

----------------------------------------------------------------------------
(* One run *)

\* The order of "gen_" and the padded number: a number with one digit more
\* comes right after its prefix.
NameRank(n) == IF n <= Widest THEN n * (Base + 1)
               ELSE (n \div Base) * (Base + 1) + 1 + (n % Base)

LastByName(S) == CHOOSE n \in S : \A k \in S : NameRank(k) <= NameRank(n)

\* Mutant of Baseline: the vector store looks in the latest session only.
BaselineInIndex(m) ==
  IF backend = "json"
  THEN LET older == {n \in 1..(session - 1) : file[n][m] # Absent}
       IN IF older = {} THEN 0 ELSE LastByName(older)
  ELSE IF latest # 0 /\ file[latest][m] # Absent THEN latest ELSE 0

\* load_previous_contract() of the JSON store, load_latest_contract() of the
\* vector store with its scan for the highest sequence.
Baseline(m) ==
  LET saved == {n \in Sequences : file[n][m] # Absent}
      older == {n \in saved : n < session}
  IN IF backend = "json" THEN IF older = {} THEN 0 ELSE LastByName(older)
     ELSE IF latest # 0 /\ file[latest][m] # Absent THEN latest
     ELSE IF saved = {} THEN 0 ELSE Largest(saved)

\* The JSON store reads every generation of the module, and a torn one raises.
Unreadable(m) == \E n \in Sequences : file[n][m] = Torn

Drift(m) == IF base[m] = 0 THEN 0 ELSE Score(Summary[file[base[m]][m]], Summary[found[m]])
\* The highest drift starts at 0 and has to be below the threshold.
Blocked  == threshold <= 0 \/ \E m \in Present(found) : Drift(m) >= threshold

End(answer) == at' = "idle" /\ verdict' = answer

\* The gate is made and reads its threshold; _discover_source_files() and the
\* cache, which may be switched off.
Begin ==
  /\ at = "idle"
  /\ threshold' \in Thresholds
  /\ taken' = code /\ found' = NoTree /\ base' = NoBase
  /\ \/ Present(code) = {} /\ End("nothing")
     \/ Present(code) # {} /\ code \in cache /\ End("cached")
     \/ Present(code) # {} /\ at' = "load" /\ verdict' = "none"
  /\ UNCHANGED <<backend, tree, store, todo, module, past, faults>>

\* Mutant of Load: a session file that cannot be parsed counts as none.
LoadAnyway ==
  /\ at = "load"
  /\ session \in Nat => session < MaxRuns
  /\ session' = IF session \in Nat THEN session ELSE 0
  /\ at' = "advance" /\ verdict' = verdict
  /\ UNCHANGED <<backend, threshold, tree, file, latest, cache, taken, todo, module,
                 found, base, past, faults>>

\* get_or_create_session(): a file that cannot be parsed raises.
Load ==
  /\ at = "load"
  /\ session \in Nat => session < MaxRuns
  /\ IF session = Torn THEN End("failed") /\ UNCHANGED session
     ELSE /\ at' = "advance" /\ verdict' = verdict
          /\ session' = IF session = Absent THEN 0 ELSE session
  /\ UNCHANGED <<backend, threshold, tree, file, latest, cache, taken, todo, module,
                 found, base, past, faults>>

\* advance_session()
AdvanceSession ==
  /\ at = "advance"
  /\ session' = session + 1
  /\ todo' = Present(taken) /\ at' = "extract"
  /\ UNCHANGED <<backend, threshold, tree, file, latest, cache, taken, module, found,
                 base, verdict, past, faults>>

\* extract_contracts(): the declared schema first.  The JSON store saves at once.
SaveContract ==
  /\ at = "extract" /\ todo # {}
  /\ LET m == Smallest(todo)
         v == IF schema[m] # Absent THEN schema[m] ELSE taken[m]
     IN /\ module' = m /\ todo' = todo \ {m}
        /\ found' = [found EXCEPT ![m] = v]
        /\ file' = IF backend = "json" THEN [file EXCEPT ![session][m] = v] ELSE file
  /\ at' = "compare"
  /\ UNCHANGED <<backend, threshold, tree, session, latest, cache, taken, base, verdict,
                 past, faults>>

Compare ==
  /\ at = "compare"
  /\ IF backend = "json" /\ Unreadable(module)
     THEN End("failed") /\ UNCHANGED base
     ELSE /\ at' = "extract" /\ verdict' = verdict
          /\ base' = [base EXCEPT ![module] = Baseline(module)]
  /\ UNCHANGED <<backend, threshold, tree, store, taken, todo, module, found, past, faults>>

\* commit_session() of the vector store: the session file and then the index,
\* before anything is judged.
CommitFile ==
  /\ at = "extract" /\ todo = {} /\ backend = "vdb"
  /\ file' = [file EXCEPT ![session] = found]
  /\ at' = "index"
  /\ UNCHANGED <<backend, threshold, tree, session, latest, cache, taken, todo, module,
                 found, base, verdict, past, faults>>

CommitIndex ==
  /\ at = "index"
  /\ latest' = session
  /\ at' = "judge"
  /\ UNCHANGED <<backend, threshold, tree, session, file, cache, taken, todo, module,
                 found, base, verdict, past, faults>>

LoopEnds ==
  /\ at = "extract" /\ todo = {} /\ backend = "json"
  /\ at' = "judge"
  /\ UNCHANGED <<backend, threshold, tree, store, taken, todo, module, found, base,
                 verdict, past, faults>>

\* Mutant of Answer: the cache is written whatever the verdict.
AnswerAndCache ==
  /\ at = "judge"
  /\ End(IF Blocked THEN "blocked" ELSE "passed")
  /\ cache' \in {cache, {taken}}
  /\ judged' = judged \cup {session}
  /\ accepted' = IF Blocked THEN accepted ELSE accepted \cup {taken}
  /\ refused' = IF Blocked THEN found ELSE NoTree
  /\ UNCHANGED <<backend, threshold, tree, session, file, latest, taken, todo, module,
                 found, base, faults>>

Answer ==
  /\ at = "judge"
  /\ End(IF Blocked THEN "blocked" ELSE "passed")
  /\ cache' \in IF Blocked THEN {cache} ELSE {cache, {taken}}
  /\ judged' = judged \cup {session}
  /\ accepted' = IF Blocked THEN accepted ELSE accepted \cup {taken}
  /\ refused' = IF Blocked THEN found ELSE NoTree
  /\ UNCHANGED <<backend, threshold, tree, session, file, latest, taken, todo, module,
                 found, base, faults>>

\* An exception or the end of the process: the file about to be written may be
\* torn, or written and not answered for.
Stop ==
  /\ at # "idle" /\ faults < MaxFaults
  /\ at' = "idle" /\ faults' = faults + 1
  /\ verdict' \in {verdict, "failed"}
  /\ \/ UNCHANGED store
     \/ /\ at = "advance" \/ (at = "load" /\ session = Absent)
        /\ session' = Torn
        /\ UNCHANGED <<file, latest, cache>>
     \/ /\ at = "extract" /\ todo # {} /\ backend = "json"
        /\ file' = [file EXCEPT ![session][Smallest(todo)] = Torn]
        /\ UNCHANGED <<session, latest, cache>>
     \/ /\ at = "index"
        /\ latest' = 0
        /\ UNCHANGED <<session, file, cache>>
     \/ /\ at = "judge" /\ ~Blocked
        /\ cache' \in {{}, {taken}}
        /\ UNCHANGED <<session, file, latest>>
  /\ accepted' = IF at = "judge" /\ ~Blocked THEN accepted \cup {taken} ELSE accepted
  /\ UNCHANGED <<backend, threshold, tree, taken, todo, module, found, base, judged,
                 refused>>

Next ==
  \/ EditCode \/ EditSchema
  \/ Begin \/ Load \/ AdvanceSession \/ SaveContract \/ Compare
  \/ CommitFile \/ CommitIndex \/ LoopEnds \/ Answer
  \/ Stop

Spec == Init /\ [][Next]_vars

----------------------------------------------------------------------------
(* Properties *)

\* Every variable is of its type, and only the JSON store has torn generations.
TypeOK ==
  /\ backend \in {"json", "vdb"} /\ threshold \in Thresholds
  /\ code \in [Modules -> CodeVersions \cup {Absent}]
  /\ schema \in [Modules -> SchemaVersions \cup {Absent}]
  /\ session \in 0..MaxRuns \cup {Absent, Torn}
  /\ file \in [Sequences -> [Modules -> Versions \cup {Absent, Torn}]]
  /\ backend = "vdb" => \A n \in Sequences, m \in Modules : file[n][m] # Torn
  /\ latest \in 0..MaxRuns
  /\ cache \subseteq [Modules -> CodeVersions \cup {Absent}]
  /\ at \in {"idle", "load", "advance", "extract", "compare", "index", "judge"}
  /\ taken \in [Modules -> CodeVersions \cup {Absent}]
  /\ todo \subseteq Modules /\ module \in Modules
  /\ found \in [Modules -> Versions \cup {Absent}] /\ base \in [Modules -> 0..MaxRuns]
  /\ verdict \in {"none", "nothing", "cached", "failed", "passed", "blocked"}
  /\ judged \subseteq Sequences /\ accepted \subseteq [Modules -> CodeVersions \cup {Absent}]
  /\ refused \in [Modules -> Versions \cup {Absent}]
  /\ declared \in BOOLEAN /\ edits \in 0..MaxEdits /\ faults \in 0..MaxFaults

\* What "compares extracted contracts against the prior generation's" needs: a
\* module is compared with an earlier generation that is at least as new as
\* every one a finished run has left of it, whatever modules those runs had,
\* whatever was torn since.  In the JSON store this ends with the numbers that
\* still fit into the file names.
BaselineIsNewest ==
  at = "judge" =>
    \A m \in Present(found) :
      /\ base[m] < session
      /\ backend = "vdb" \/ session <= Widest + 1 =>
           \A n \in judged : file[n][m] # Absent => n <= base[m]

\* "This memory does not reset between sessions": a generation once saved is
\* never written over, not by a run that follows a torn session file either.
NeverOverwrites ==
  [][\A n \in Sequences, m \in Modules :
       file[n][m] \in Versions => file'[n][m] = file[n][m]]_vars

\* The cache skips the extraction when the "source files are unchanged since last
\* pass": source that passes from the cache has passed a comparison itself, not
\* been blocked, and not just been there when a run was cut off.
CachedMeansPassed == verdict = "cached" => taken \in accepted

\* What a threshold is worth: above 0 it blocks no module that says what its
\* baseline says; above 0.15 its contracts have changed; above 0.45, as with the
\* default 0.5, its declared assumptions have, so that a tree without a declared
\* schema passes however much of it is removed; above 0.55 it blocks nothing.
BlockNeedsChange ==
  verdict = "blocked" /\ threshold > 0 =>
    /\ threshold <= 5500
    /\ threshold > 4500 => declared
    /\ \E m \in Present(found) :
         /\ base[m] # 0
         /\ LET was == Summary[file[base[m]][m]]
                now == Summary[found[m]]
            IN /\ was # now
               /\ threshold > 1500 => was.contracts # now.contracts
               /\ threshold > 4500 => was.assumptions # now.assumptions

\* What a reader expects of a gate that blocks: a tree it has blocked is not
\* passed by another run on the same tree.  It does not hold, and no run checks
\* it: the blocked generation has been saved and is the next run's baseline.
BlockedStaysBlocked ==
  [][at = "judge" /\ verdict' = "passed" => found # refused]_vars

=============================================================================
