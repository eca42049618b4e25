-------------------------- MODULE MemoryGateProofs --------------------------
(* Theorems about MemoryGate, for any modules, versions, summaries and bounds. *)
EXTENDS MemoryGate, TLAPS, WellFoundedInduction, FiniteSetTheorems

----------------------------------------------------------------------------
(* The operators that choose *)

\* Every non-empty set of natural numbers has a least element: < is well founded.
LEMMA HasLeast ==
  ASSUME NEW S \in SUBSET Nat, S # {}
  PROVE  \E x \in S : \A y \in S : x <= y
<1> DEFINE R == OpToRel(<, Nat)
<1>1. IsWellFoundedOn(R, Nat)
  BY NatLessThanWellFounded
<1>2. \A x, y \in Nat : x < y => <<x, y>> \in R
  BY DEF OpToRel
<1> HIDE DEF R
<1>3. PICK x \in S : \A y \in S : ~(<<y, x>> \in R)
  BY <1>1, WFMin
<1>4. ASSUME NEW y \in S PROVE x <= y
  <2>1. x \in Nat /\ y \in Nat
    OBVIOUS
  <2>2. ~(y < x)
    BY <1>2, <1>3, <2>1
  <2>3. QED
    BY <2>1, <2>2
<1>5. QED
  BY <1>4

\* A bounded rank is greatest somewhere.
LEMMA HasGreatest ==
  ASSUME NEW S, S # {}, NEW B \in Nat, NEW f \in [S -> 0..B]
  PROVE  \E x \in S : \A y \in S : f[y] <= f[x]
<1> DEFINE T == {B - f[x] : x \in S}
<1>1. T \in SUBSET Nat /\ T # {}
  OBVIOUS
<1>2. \E t \in T : \A u \in T : t <= u
  <2> HIDE DEF T
  <2> QED BY <1>1, HasLeast
<1>3. PICK x \in S : \A u \in T : B - f[x] <= u
  BY <1>2
<1>4. ASSUME NEW y \in S PROVE f[y] <= f[x]
  <2>1. B - f[x] <= B - f[y]
    BY <1>3
  <2>2. f[x] \in 0..B /\ f[y] \in 0..B
    OBVIOUS
  <2>3. QED
    BY <2>1, <2>2
<1>5. QED
  BY <1>4

\* The loop over the modules takes one of those that are left.
LEMMA SmallestIsOfSet ==
  ASSUME NEW S \in SUBSET Modules, S # {}
  PROVE  Smallest(S) \in S
<1>1. S \in SUBSET Nat
  BY GateAssumption
<1>2. \E x \in S : \A y \in S : x <= y
  BY <1>1, HasLeast
<1>3. QED
  BY <1>2 DEF Smallest

\* The scan of the vector store finds the newest of the generations it scans.
LEMMA LargestIsGreatest ==
  ASSUME NEW S \in SUBSET Sequences, S # {}
  PROVE  Largest(S) \in S /\ \A n \in S : n <= Largest(S)
<1> DEFINE f == [n \in S |-> n]
<1>1. MaxRuns \in Nat
  BY GateAssumption
<1>2. f \in [S -> 0..MaxRuns]
  BY <1>1 DEF Sequences
<1>3. \E x \in S : \A y \in S : f[y] <= f[x]
  <2> HIDE DEF f
  <2> QED BY <1>1, <1>2, HasGreatest
<1>4. \E x \in S : \A y \in S : y <= x
  BY <1>3
<1>5. QED
  BY <1>4 DEF Largest

\* The rank of a file name is a natural number below a common bound.
LEMMA RankIsBounded ==
  ASSUME NEW n \in Sequences
  PROVE  NameRank(n) \in 0..(MaxRuns * (Base + 1) + Base + 1)
<1>1. MaxRuns \in Nat /\ n \in Nat /\ n <= MaxRuns /\ Base \in Nat /\ Base > 1 /\ Widest \in Nat
  BY GateAssumption DEF Sequences
<1> DEFINE q == n \div Base
           r == n % Base
<1>2. q \in Nat /\ r \in 0..(Base - 1) /\ q <= n
  BY <1>1
<1>3. \A a, b, c \in Nat : a <= b => a * c <= b * c
  OBVIOUS
<1>4. \A a, c \in Nat : a * c \in Nat
  OBVIOUS
<1>5. n * (Base + 1) <= MaxRuns * (Base + 1) /\ q * (Base + 1) <= MaxRuns * (Base + 1)
  BY <1>1, <1>2, <1>3
<1>6. n * (Base + 1) \in Nat /\ q * (Base + 1) \in Nat /\ MaxRuns * (Base + 1) \in Nat
  BY <1>1, <1>2, <1>4
<1> DEFINE N == n * (Base + 1)
           Q == q * (Base + 1)
           M == MaxRuns * (Base + 1)
<1>7. NameRank(n) = IF n <= Widest THEN N ELSE Q + 1 + r
  BY DEF NameRank
<1>8. N <= M /\ Q <= M /\ N \in Nat /\ Q \in Nat /\ M \in Nat
  BY <1>5, <1>6
<1>9. NameRank(n) \in 0..(M + Base + 1)
  <2> HIDE DEF N, Q, M, q, r
  <2> QED BY <1>1, <1>2, <1>7, <1>8
<1>10. QED
  BY <1>9

\* What the JSON store takes as the baseline is one of the older generations...
LEMMA LastByNameIsLast ==
  ASSUME NEW S \in SUBSET Sequences, S # {}
  PROVE  /\ LastByName(S) \in S
         /\ \A n \in S : NameRank(n) <= NameRank(LastByName(S))
<1> DEFINE f == [n \in S |-> NameRank(n)]
           B == MaxRuns * (Base + 1) + Base + 1
<1>1. B \in Nat
  BY GateAssumption
<1>2. f \in [S -> 0..B]
  BY RankIsBounded
<1>3. \E x \in S : \A y \in S : f[y] <= f[x]
  <2> HIDE DEF f, B
  <2> QED BY <1>1, <1>2, HasGreatest
<1>4. \E x \in S : \A y \in S : NameRank(y) <= NameRank(x)
  BY <1>3
<1>5. QED
  BY <1>4 DEF LastByName

\* ...and the newest of them while their numbers fit into the names.
LEMMA NamesInOrder ==
  ASSUME NEW n \in 1..Widest, NEW k \in 1..Widest, NameRank(n) <= NameRank(k)
  PROVE  n <= k
<1>1. Widest \in Nat /\ Base \in Nat
  BY GateAssumption
<1>2. n * (Base + 1) <= k * (Base + 1)
  BY <1>1 DEF NameRank
<1>3. \A a, b, c \in Nat : a < b => a * (c + 1) < b * (c + 1)
  OBVIOUS
<1>4. CASE k < n
  BY <1>1, <1>2, <1>3, <1>4
<1>5. CASE n <= k
  BY <1>5
<1>6. QED
  BY <1>1, <1>4, <1>5

----------------------------------------------------------------------------
(* Type correctness *)

\* A run that has begun to serve has a number, and one that is about to
\* advance the session may.
Serving     == {"extract", "compare", "index", "judge"}
SessionOpen ==
  /\ at = "advance" => session \in 0..(MaxRuns - 1)
  /\ at \in Serving => session \in Sequences

\* A store without a run behind it, and an idle gate, are well typed.
LEMMA TypeInit == Init => TypeOK /\ SessionOpen
<1> SUFFICES ASSUME Init PROVE TypeOK /\ SessionOpen
  OBVIOUS
<1>1. Smallest(Modules) \in Modules
  BY GateAssumption, SmallestIsOfSet
<1>2. MaxRuns \in Nat /\ MaxEdits \in Nat /\ MaxFaults \in Nat /\ Absent # Torn
  BY GateAssumption
<1>3. file \in [Sequences -> [Modules -> Versions \cup {Absent, Torn}]]
  BY DEF Init, NoTree
<1>4. \A n \in Sequences, m \in Modules : file[n][m] # Torn
  BY <1>2 DEF Init, NoTree
<1>5. /\ NoTree \in [Modules -> Versions \cup {Absent}]
      /\ NoTree \in [Modules -> CodeVersions \cup {Absent}]
      /\ NoTree \in [Modules -> SchemaVersions \cup {Absent}]
      /\ NoBase \in [Modules -> 0..MaxRuns]
  BY <1>2 DEF NoTree, NoBase
<1>6. code \in [Modules -> CodeVersions \cup {Absent}]
  BY DEF Init
<1>7. TypeOK
  <2>1. /\ backend \in {"json", "vdb"} /\ threshold \in Thresholds /\ latest \in 0..MaxRuns
        /\ session \in 0..MaxRuns \cup {Absent, Torn}
        /\ at = "idle" /\ verdict = "none"
        /\ edits \in 0..MaxEdits /\ faults \in 0..MaxFaults
    BY <1>2 DEF Init
  <2>2. /\ cache = {} /\ judged = {} /\ accepted = {} /\ todo = {} /\ module \in Modules
        /\ schema = NoTree /\ taken = NoTree /\ found = NoTree /\ refused = NoTree
        /\ base = NoBase
    BY <1>1 DEF Init
  <2>3. declared \in BOOLEAN
    BY Zenon DEF Init
  <2>4. QED
    BY <1>3, <1>4, <1>5, <1>6, <2>1, <2>2, <2>3 DEF TypeOK
<1>8. QED
  BY <1>7 DEF Init, SessionOpen, Serving

\* The generation a module is compared with is one of those saved, or none.
LEMMA BaselineIsSequence ==
  ASSUME TypeOK, NEW m \in Modules
  PROVE  Baseline(m) \in 0..MaxRuns
<1> DEFINE saved == {n \in Sequences : file[n][m] # Absent}
           older == {n \in saved : n < session}
<1>1. older # {} => LastByName(older) \in Sequences
  BY LastByNameIsLast
<1>2. saved # {} => Largest(saved) \in Sequences
  BY LargestIsGreatest
<1>3. MaxRuns \in Nat /\ latest \in 0..MaxRuns
  BY GateAssumption DEF TypeOK
<1>4. QED
  BY <1>1, <1>2, <1>3 DEF Baseline, Sequences

\* Every step leaves the gate and its stores well typed.
LEMMA TypeStep == TypeOK /\ SessionOpen /\ [Next]_vars => TypeOK' /\ SessionOpen'
<1> SUFFICES ASSUME TypeOK, SessionOpen, [Next]_vars PROVE TypeOK' /\ SessionOpen'
  OBVIOUS
<1> USE DEF TypeOK, SessionOpen, Serving
<1>a. /\ MaxRuns \in Nat \ {0} /\ MaxEdits \in Nat /\ MaxFaults \in Nat
      /\ Absent \notin Nat /\ Torn \notin Nat /\ Absent # Torn
      /\ Absent \notin Versions /\ Torn \notin Versions
  BY GateAssumption
<1>b. CodeVersions \subseteq Versions /\ SchemaVersions \subseteq Versions
  BY DEF Versions
<1>c. Sequences \subseteq 0..MaxRuns
  BY <1>a DEF Sequences
<1>1. CASE EditCode
  BY <1>1, <1>a DEF EditCode, store, run, past
<1>2. CASE EditSchema
  BY <1>2, <1>a DEF EditSchema, store, run, past
<1>3. CASE Begin
  <2>1. NoTree \in [Modules -> Versions \cup {Absent}] /\ NoBase \in [Modules -> 0..MaxRuns]
    BY <1>a DEF NoTree, NoBase
  <2>2. /\ taken' = code /\ found' = NoTree /\ base' = NoBase
        /\ at' \in {"idle", "load"} /\ verdict' \in {"nothing", "cached", "none"}
        /\ threshold' \in Thresholds
        /\ UNCHANGED <<backend, tree, store, todo, module, past, faults>>
    BY <1>3 DEF Begin, End
  <2>3. TypeOK'
    BY <2>1, <2>2 DEF tree, store, past
  <2>4. QED
    BY <2>2, <2>3
<1>4. CASE Load
  BY <1>4, <1>a DEF Load, End, tree, past
<1>5. CASE AdvanceSession
  <2>1. session' \in Sequences
    BY <1>5, <1>a DEF AdvanceSession, Sequences
  <2>2. QED
    BY <1>5, <1>c, <2>1 DEF AdvanceSession, tree, past, Present
<1>6. CASE SaveContract
  <2>1. Smallest(todo) \in todo
    BY <1>6, GateAssumption, SmallestIsOfSet DEF SaveContract
  <2> DEFINE m == Smallest(todo)
             v == IF schema[m] # Absent THEN schema[m] ELSE taken[m]
  <2>2. m \in Modules /\ v \in Versions \cup {Absent}
    BY <1>b, <2>1
  <2>3. /\ module' = m /\ todo' = todo \ {m} /\ found' = [found EXCEPT ![m] = v]
        /\ file' = IF backend = "json" THEN [file EXCEPT ![session][m] = v] ELSE file
        /\ at = "extract" /\ at' = "compare"
        /\ UNCHANGED <<backend, threshold, tree, session, latest, cache, taken, base, verdict,
                       past, faults>>
    BY <1>6 DEF SaveContract
  <2> HIDE DEF m, v
  <2>4. QED
    BY <2>2, <2>3 DEF tree, past
<1>7. CASE Compare
  BY <1>7, BaselineIsSequence DEF Compare, End, tree, store, past
<1>8. CASE CommitFile
  BY <1>8, <1>a DEF CommitFile, tree, past
<1>9. CASE CommitIndex
  BY <1>9, <1>c DEF CommitIndex, tree, past
<1>10. CASE LoopEnds
  BY <1>10 DEF LoopEnds, tree, store, past
<1>11. CASE Answer
  <2>1. /\ at = "judge" /\ at' = "idle" /\ verdict' \in {"passed", "blocked"}
        /\ cache' \in {cache, {taken}} /\ judged' = judged \cup {session}
        /\ accepted' \in {accepted, accepted \cup {taken}} /\ refused' \in {found, NoTree}
        /\ UNCHANGED <<backend, threshold, tree, session, file, latest, taken, todo, module,
                       found, base, faults>>
    BY <1>11 DEF Answer, End
  <2>2. NoTree \in [Modules -> Versions \cup {Absent}]
    BY DEF NoTree
  <2>3. QED
    BY <2>1, <2>2 DEF tree
<1>12. CASE Stop
  <2>1. /\ at' = "idle" /\ faults' \in 0..MaxFaults /\ verdict' \in {verdict, "failed"}
        /\ accepted' \in {accepted, accepted \cup {taken}}
        /\ UNCHANGED <<backend, threshold, tree, taken, todo, module, found, base, judged, refused>>
    BY <1>12, <1>a DEF Stop
  <2>2. session' \in {session, Torn} /\ latest' \in {latest, 0} /\ cache' \in {cache, {}, {taken}}
    BY <1>12 DEF Stop, store
  <2>3. \/ file' = file
        \/ /\ backend = "json" /\ todo # {}
           /\ file' = [file EXCEPT ![session][Smallest(todo)] = Torn]
    BY <1>12 DEF Stop, store
  <2>4. file' \in [Sequences -> [Modules -> Versions \cup {Absent, Torn}]]
    BY <2>3
  <2>5. TypeOK'
    BY <1>a, <2>1, <2>2, <2>3, <2>4 DEF tree
  <2>6. QED
    BY <2>1, <2>5
<1>13. CASE UNCHANGED vars
  BY <1>13 DEF vars, tree, store, run, past
<1>14. QED
  BY <1>1, <1>2, <1>3, <1>4, <1>5, <1>6, <1>7, <1>8, <1>9, <1>10, <1>11, <1>12, <1>13 DEF Next

\* Every state of the gate and its stores is well typed; in particular the
\* vector store never leaves a torn session file.
THEOREM TypeCorrect == Spec => []TypeOK
<1>1. Init => TypeOK /\ SessionOpen
  BY TypeInit
<1>2. (TypeOK /\ SessionOpen) /\ [Next]_vars => (TypeOK /\ SessionOpen)'
  BY TypeStep
<1>3. QED
  BY <1>1, <1>2, PTL DEF Spec

----------------------------------------------------------------------------
(* What is on disk, and what the session knows of it *)

\* Nothing is on disk beyond the sequence the session has reached.
FilesBehind ==
  /\ session = Absent => \A n \in Sequences, m \in Modules : file[n][m] = Absent
  /\ session \in Nat =>
       \A n \in Sequences, m \in Modules : session < n => file[n][m] = Absent

\* What a run is about to save has not been saved.
Unsaved ==
  at \in {"extract", "compare"} =>
    \A m \in Modules : backend = "vdb" \/ m \in todo => file[session][m] = Absent

\* Finished runs are behind the session, and behind the index where there is one.
JudgedBehind ==
  /\ session = Absent => judged = {} /\ latest = 0
  /\ session \in Nat => latest <= session /\ \A n \in judged : n <= session
  /\ at \in Serving => session \notin judged
  /\ at \in {"extract", "compare"} => latest < session
  /\ backend = "vdb" /\ at = "judge" => latest = session
  /\ backend = "vdb" /\ latest # 0 => \A n \in judged : n <= latest

StoreInv == FilesBehind /\ Unsaved /\ JudgedBehind
Served   == TypeOK /\ SessionOpen /\ StoreInv

\* The store starts out empty.
LEMMA StoreInit == Init => StoreInv
<1> SUFFICES ASSUME Init PROVE StoreInv
  OBVIOUS
<1>1. Absent \notin Nat /\ MaxRuns \in Nat
  BY GateAssumption
<1>2. session = Absent /\ latest = 0 /\ judged = {} /\ at = "idle"
  BY DEF Init
<1>3. \A n \in Sequences, m \in Modules : file[n][m] = Absent
  BY DEF Init, NoTree
<1>4. QED
  BY <1>1, <1>2, <1>3 DEF StoreInv, FilesBehind, Unsaved, JudgedBehind, Serving

\* Which step writes which generation: a run writes to its own only.
LEMMA FileStep ==
  ASSUME TypeOK, SessionOpen, [Next]_vars
  PROVE  \/ file' = file
         \/ /\ at = "extract" /\ session \in Sequences
            /\ \/ /\ backend = "json"
                  /\ \E m \in todo, v \in Versions \cup {Absent, Torn} :
                       file' = [file EXCEPT ![session][m] = v]
               \/ /\ backend = "vdb"
                  /\ file' = [file EXCEPT ![session] = found]
<1> USE DEF TypeOK, SessionOpen, Serving
<1>1. CASE SaveContract
  <2>1. Smallest(todo) \in todo
    BY <1>1, SmallestIsOfSet DEF SaveContract
  <2> DEFINE m == Smallest(todo)
             v == IF schema[m] # Absent THEN schema[m] ELSE taken[m]
  <2>2. v \in Versions \cup {Absent, Torn}
    BY <2>1 DEF Versions
  <2>3. at = "extract" /\ (file' = IF backend = "json" THEN [file EXCEPT ![session][m] = v] ELSE file)
    BY <1>1 DEF SaveContract
  <2> HIDE DEF m, v
  <2>4. m \in todo
    BY <2>1 DEF m
  <2>5. QED
    BY <2>2, <2>3, <2>4
<1>2. CASE CommitFile
  BY <1>2 DEF CommitFile
<1>3. CASE Stop
  <2>1. \/ file' = file
        \/ /\ at = "extract" /\ todo # {} /\ backend = "json"
           /\ file' = [file EXCEPT ![session][Smallest(todo)] = Torn]
    BY <1>3 DEF Stop, store
  <2>2. todo # {} => Smallest(todo) \in todo
    BY SmallestIsOfSet
  <2>3. QED
    BY <2>1, <2>2
<1>4. CASE Next /\ ~(SaveContract \/ CommitFile \/ Stop)
  BY <1>4 DEF Next, EditCode, EditSchema, Begin, Load, AdvanceSession, Compare, CommitIndex,
              LoopEnds, Answer, store
<1>5. CASE UNCHANGED vars
  BY <1>5 DEF vars, store
<1>6. QED
  BY <1>1, <1>2, <1>3, <1>4, <1>5

\* Every step keeps the files behind the session, and what is to be saved unsaved.
LEMMA FilesStep ==
  ASSUME Served, [Next]_vars
  PROVE  FilesBehind' /\ Unsaved'
<1> USE DEF Served, StoreInv
<1>a. /\ Absent \notin Nat /\ Torn \notin Nat /\ Absent # Torn
      /\ MaxRuns \in Nat /\ Sequences \subseteq Nat
  BY GateAssumption DEF Sequences
<1>b. CASE file' = file /\ session' \in {session, Torn} /\ at' \notin {"extract", "compare"}
  BY <1>a, <1>b DEF FilesBehind, Unsaved
<1>1. CASE EditCode \/ EditSchema \/ UNCHANGED vars
  <2>1. UNCHANGED <<backend, file, session, at, todo>>
    BY <1>1 DEF EditCode, EditSchema, vars, store, run
  <2>2. QED
    BY <2>1 DEF FilesBehind, Unsaved
<1>2. CASE Begin \/ CommitIndex \/ LoopEnds \/ Answer
  <2>1. file' = file /\ session' = session /\ at' \notin {"extract", "compare"}
    BY <1>2 DEF Begin, CommitIndex, LoopEnds, Answer, End, store
  <2>2. QED
    BY <1>b, <2>1
<1>3. CASE Load
  <2>1. file' = file /\ at' \notin {"extract", "compare"}
    BY <1>3 DEF Load, End
  <2>2. session' = session \/ (session = Absent /\ session' = 0)
    BY <1>3 DEF Load
  <2>3. QED
    BY <1>a, <1>b, <2>1, <2>2 DEF FilesBehind, Unsaved
<1>4. CASE AdvanceSession
  <2>1. /\ session \in Nat /\ session' = session + 1 /\ session' \in Sequences
        /\ file' = file /\ backend' = backend /\ todo' \subseteq Modules
    BY <1>4, <1>a DEF AdvanceSession, SessionOpen, Sequences, Present
  <2>2. \A n \in Sequences, m \in Modules : session' <= n => file[n][m] = Absent
    BY <1>a, <2>1 DEF FilesBehind
  <2>3. FilesBehind'
    BY <1>a, <2>1, <2>2 DEF FilesBehind
  <2>4. Unsaved'
    BY <1>a, <2>1, <2>2 DEF Unsaved
  <2>5. QED
    BY <2>3, <2>4
<1>5. CASE SaveContract
  <2> DEFINE m == Smallest(todo)
             v == IF schema[m] # Absent THEN schema[m] ELSE taken[m]
  <2>1. /\ at = "extract" /\ session' = session /\ backend' = backend /\ todo' = todo \ {m}
        /\ file' = IF backend = "json" THEN [file EXCEPT ![session][m] = v] ELSE file
    BY <1>5 DEF SaveContract
  <2> HIDE DEF m, v
  <2>2. session \in Sequences /\ session \in Nat
    BY <1>a, <2>1 DEF SessionOpen, Serving
  <2>3. \A n \in Sequences, k \in Modules : n # session \/ k # m => file'[n][k] = file[n][k]
    BY <2>1, <2>2 DEF TypeOK
  <2>4. FilesBehind'
    BY <1>a, <2>1, <2>2, <2>3 DEF FilesBehind
  <2>5. \A k \in Modules : backend = "vdb" \/ k \in todo' => file'[session][k] = Absent
    BY <2>1, <2>2, <2>3 DEF Unsaved, TypeOK
  <2>6. QED
    BY <2>1, <2>4, <2>5 DEF Unsaved
<1>6. CASE Compare
  <2>1. file' = file /\ session' = session /\ backend' = backend /\ todo' = todo /\ at = "compare"
    BY <1>6 DEF Compare, store
  <2>2. QED
    BY <2>1 DEF FilesBehind, Unsaved
<1>7. CASE CommitFile
  <2>1. /\ at = "extract" /\ session' = session /\ at' = "index"
        /\ file' = [file EXCEPT ![session] = found]
    BY <1>7 DEF CommitFile
  <2>2. session \in Sequences /\ session \in Nat
    BY <1>a, <2>1 DEF SessionOpen, Serving
  <2>3. \A n \in Sequences : n # session => file'[n] = file[n]
    BY <2>1, <2>2 DEF TypeOK
  <2>4. QED
    BY <1>a, <2>1, <2>2, <2>3 DEF FilesBehind, Unsaved
<1>8. CASE Stop
  <2>1. at' = "idle" /\ session' \in {session, Torn}
    BY <1>8 DEF Stop, store
  <2>2. CASE file' = file
    BY <1>b, <2>1, <2>2
  <2>3. CASE file' # file
    <3>1. /\ at = "extract" /\ session' = session /\ session \in Sequences
          /\ file' = [file EXCEPT ![session][Smallest(todo)] = Torn]
      BY <1>8, <2>3 DEF Stop, store, SessionOpen, Serving
    <3>2. \A n \in Sequences : n # session => file'[n] = file[n]
      BY <3>1 DEF TypeOK
    <3>3. QED
      BY <1>a, <2>1, <3>1, <3>2 DEF FilesBehind, Unsaved
  <2>4. QED
    BY <2>2, <2>3
<1>9. QED
  BY <1>1, <1>2, <1>3, <1>4, <1>5, <1>6, <1>7, <1>8 DEF Next

\* Every step keeps the finished runs behind the session and the index.
LEMMA JudgedStep ==
  ASSUME Served, [Next]_vars
  PROVE  JudgedBehind'
<1> USE DEF Served, StoreInv, Serving
<1>a. /\ Absent \notin Nat /\ Torn \notin Nat /\ Absent # Torn
      /\ MaxRuns \in Nat /\ Sequences \subseteq Nat \ {0}
      /\ latest \in Nat /\ judged \subseteq Nat
  BY GateAssumption DEF Sequences, TypeOK
<1>1. CASE EditCode \/ EditSchema \/ UNCHANGED vars
  <2>1. UNCHANGED <<backend, session, latest, judged, at>>
    BY <1>1 DEF EditCode, EditSchema, vars, store, run, past
  <2>2. QED
    BY <2>1 DEF JudgedBehind
<1>2. CASE Begin
  <2>1. UNCHANGED <<backend, session, latest, judged>> /\ at' \in {"idle", "load"}
    BY <1>2 DEF Begin, End, store, past
  <2>2. QED
    BY <2>1 DEF JudgedBehind
<1>3. CASE Load
  <2>1. UNCHANGED <<backend, latest, judged>> /\ at' \in {"idle", "advance"}
    BY <1>3 DEF Load, End, past
  <2>2. session' = session \/ (session = Absent /\ session' = 0)
    BY <1>3 DEF Load
  <2>3. QED
    BY <1>a, <2>1, <2>2 DEF JudgedBehind
<1>4. CASE AdvanceSession
  <2>1. /\ session \in Nat /\ session' = session + 1 /\ at' = "extract"
        /\ UNCHANGED <<backend, latest, judged>>
    BY <1>4, <1>a DEF AdvanceSession, SessionOpen, past
  <2>2. session' \in Nat /\ latest < session' /\ \A n \in judged : n < session'
    BY <1>a, <2>1 DEF JudgedBehind
  <2>3. QED
    BY <1>a, <2>1, <2>2 DEF JudgedBehind
<1>5. CASE SaveContract \/ Compare
  <2>1. /\ at \in {"extract", "compare"} /\ at' \in {"idle", "extract", "compare"}
        /\ UNCHANGED <<backend, session, latest, judged>>
    BY <1>5 DEF SaveContract, Compare, End, store, past
  <2>2. QED
    BY <2>1 DEF JudgedBehind
<1>6. CASE CommitFile
  <2>1. at \in Serving /\ at' = "index" /\ UNCHANGED <<backend, session, latest, judged>>
    BY <1>6 DEF CommitFile, past
  <2>2. QED
    BY <2>1 DEF JudgedBehind
<1>7. CASE CommitIndex
  <2>1. at = "index" /\ at' = "judge" /\ latest' = session /\ UNCHANGED <<backend, session, judged>>
    BY <1>7 DEF CommitIndex, past
  <2>2. session \in Nat /\ session # 0
    BY <1>a, <2>1 DEF SessionOpen
  <2>3. QED
    BY <1>a, <2>1, <2>2 DEF JudgedBehind
<1>8. CASE LoopEnds
  <2>1. /\ at = "extract" /\ at' = "judge" /\ backend = "json"
        /\ UNCHANGED <<backend, session, latest, judged>>
    BY <1>8 DEF LoopEnds, store, past
  <2>2. QED
    BY <2>1 DEF JudgedBehind
<1>9. CASE Answer
  <2>1. /\ at = "judge" /\ at' = "idle" /\ judged' = judged \cup {session}
        /\ UNCHANGED <<backend, session, latest>>
    BY <1>9 DEF Answer, End
  <2>2. session \in Nat
    BY <1>a, <2>1 DEF SessionOpen
  <2>3. QED
    BY <1>a, <2>1, <2>2 DEF JudgedBehind
<1>10. CASE Stop
  <2>1. /\ at' = "idle" /\ session' \in {session, Torn} /\ latest' \in {latest, 0}
        /\ UNCHANGED <<backend, judged>>
    BY <1>10 DEF Stop, store
  <2>2. latest' # latest => at = "index" /\ session' = session
    BY <1>10, <1>a DEF Stop, store
  <2>3. latest' # latest => session \in Nat
    BY <1>a, <2>2 DEF SessionOpen
  <2>4. QED
    BY <1>a, <2>1, <2>2, <2>3 DEF JudgedBehind
<1>11. QED
  BY <1>1, <1>2, <1>3, <1>4, <1>5, <1>6, <1>7, <1>8, <1>9, <1>10 DEF Next

\* All of it is inductive.
LEMMA ServedStep == Served /\ [Next]_vars => Served'
<1> SUFFICES ASSUME Served, [Next]_vars PROVE Served'
  OBVIOUS
<1>1. TypeOK' /\ SessionOpen'
  BY TypeStep DEF Served
<1>2. FilesBehind' /\ Unsaved'
  BY FilesStep
<1>3. JudgedBehind'
  BY JudgedStep
<1>4. QED
  BY <1>1, <1>2, <1>3 DEF Served, StoreInv

----------------------------------------------------------------------------
(* Memory does not reset *)

\* No step writes over a generation.
Kept == \A n \in Sequences, m \in Modules :
          file[n][m] \in Versions => file'[n][m] = file[n][m]

LEMMA KeepStep ==
  ASSUME Served, [Next]_vars
  PROVE  Kept
<1> USE DEF Kept
<1>a. Absent \notin Versions
  BY GateAssumption
<1>1. CASE file' = file
  BY <1>1
<1>2. CASE /\ at = "extract" /\ session \in Sequences /\ backend = "json"
           /\ \E m \in todo, v \in Versions \cup {Absent, Torn} :
                file' = [file EXCEPT ![session][m] = v]
  <2>1. PICK m \in todo, v \in Versions \cup {Absent, Torn} :
          file' = [file EXCEPT ![session][m] = v]
    BY <1>2
  <2>2. m \in Modules /\ file[session][m] = Absent
    BY <1>2 DEF Served, StoreInv, Unsaved, TypeOK
  <2>3. \A n \in Sequences, k \in Modules :
          n # session \/ k # m => file'[n][k] = file[n][k]
    BY <1>2, <2>1 DEF Served, TypeOK
  <2>4. QED
    BY <1>a, <2>2, <2>3
<1>3. CASE /\ at = "extract" /\ session \in Sequences /\ backend = "vdb"
           /\ file' = [file EXCEPT ![session] = found]
  <2>1. \A m \in Modules : file[session][m] = Absent
    BY <1>3 DEF Served, StoreInv, Unsaved
  <2>2. \A n \in Sequences : n # session => file'[n] = file[n]
    BY <1>3 DEF Served, TypeOK
  <2>3. QED
    BY <1>a, <2>1, <2>2
<1>4. QED
  BY <1>1, <1>2, <1>3, FileStep DEF Served

\* A generation once saved is never written over, by any later run, after any
\* number of torn files and stopped runs.
THEOREM GenerationsAreKept == Spec => NeverOverwrites
<1>1. Init => Served
  BY TypeInit, StoreInit DEF Served
<1>2. Served /\ [Next]_vars => Served'
  BY ServedStep
<1>3. Served /\ [Next]_vars => [Kept]_vars
  BY KeepStep
<1>4. QED
  BY <1>1, <1>2, <1>3, PTL DEF Spec, NeverOverwrites, Kept

----------------------------------------------------------------------------
(* The cache *)

\* The cache has nothing but what has passed.
CacheEarned == cache \subseteq accepted /\ CachedMeansPassed

\* Source that the cache lets pass has passed a comparison itself, whatever is
\* edited, torn or stopped between that pass and this run.
THEOREM CacheIsEarned == Spec => []CachedMeansPassed
<1>1. Init => CacheEarned
  BY DEF Init, CacheEarned, CachedMeansPassed
<1>2. CacheEarned /\ [Next]_vars => CacheEarned'
  <2> SUFFICES ASSUME CacheEarned, [Next]_vars PROVE CacheEarned'
    OBVIOUS
  <2> USE DEF CacheEarned, CachedMeansPassed
  <2>1. CASE Begin
    BY <2>1 DEF Begin, End, store, past
  <2>2. CASE EditCode \/ EditSchema \/ UNCHANGED vars
    BY <2>2 DEF EditCode, EditSchema, vars, store, run, past
  <2>3. CASE Load \/ AdvanceSession \/ SaveContract \/ Compare
    <3>1. UNCHANGED <<cache, accepted, taken>> /\ verdict' \in {verdict, "failed"}
      BY <2>3 DEF Load, AdvanceSession, SaveContract, Compare, End, store, past
    <3>2. QED
      BY <3>1
  <2>4. CASE CommitFile \/ CommitIndex \/ LoopEnds
    <3>1. UNCHANGED <<cache, accepted, taken, verdict>>
      BY <2>4 DEF CommitFile, CommitIndex, LoopEnds, store, past
    <3>2. QED
      BY <3>1
  <2>5. CASE Answer
    <3>1. /\ verdict' # "cached"
          /\ \/ cache' = cache /\ accepted \subseteq accepted'
             \/ cache' = {taken} /\ accepted' = accepted \cup {taken}
      BY <2>5 DEF Answer, End
    <3>2. QED
      BY <3>1
  <2>6. CASE Stop
    <3>1. /\ taken' = taken /\ verdict' \in {verdict, "failed"} /\ accepted \subseteq accepted'
          /\ \/ cache' \in {cache, {}}
             \/ cache' = {taken} /\ accepted' = accepted \cup {taken}
      BY <2>6 DEF Stop, store
    <3>2. QED
      BY <3>1
  <2>7. QED
    BY <2>1, <2>2, <2>3, <2>4, <2>5, <2>6 DEF Next
<1>3. CacheEarned => CachedMeansPassed
  BY DEF CacheEarned
<1>4. QED
  BY <1>1, <1>2, <1>3, PTL DEF Spec

----------------------------------------------------------------------------
(* The baseline *)

\* What a module has been compared with is the newest there is.
Newest(m) ==
  /\ base[m] < session
  /\ backend = "vdb" \/ session <= Widest + 1 =>
       \A n \in judged : file[n][m] # Absent => n <= base[m]

\* A module that has been compared keeps its baseline.
Compared ==
  /\ at \in {"load", "advance"} => found = NoTree
  /\ at \in Serving =>
       \A m \in Present(found) : Newest(m) \/ (at = "compare" /\ m = module)

\* The store finds the newest generation of a module that a finished run has
\* left: the vector store by its index, or by a scan where the index is gone or
\* has not got the module; the JSON store by the names of its files.
LEMMA BaselineFindsNewest ==
  ASSUME Served, at = "compare", NEW m \in Modules
  PROVE  /\ Baseline(m) < session
         /\ backend = "vdb" \/ session <= Widest + 1 =>
              \A n \in judged : file[n][m] # Absent => n <= Baseline(m)
<1> DEFINE saved == {n \in Sequences : file[n][m] # Absent}
           older == {n \in saved : n < session}
<1>a. /\ Absent \notin Nat /\ Torn \notin Nat /\ MaxRuns \in Nat /\ Widest \in Nat
      /\ Sequences \subseteq Nat \ {0} /\ session \in Sequences /\ latest \in Nat
      /\ judged \subseteq Sequences /\ backend \in {"json", "vdb"}
  BY GateAssumption DEF Sequences, Served, TypeOK, SessionOpen, Serving
<1>b. \A n \in judged : n < session
  BY <1>a DEF Served, StoreInv, JudgedBehind, Serving
<1>1. CASE backend = "json"
  <2>1. Baseline(m) = IF older = {} THEN 0 ELSE LastByName(older)
    BY <1>1 DEF Baseline
  <2>2. \A n \in judged : file[n][m] # Absent => n \in older
    BY <1>a, <1>b
  <2>3. CASE older = {}
    <3> HIDE DEF older
    <3> QED BY <1>a, <2>1, <2>2, <2>3
  <2>4. CASE older # {}
    <3>1. LastByName(older) \in older
          /\ \A n \in older : NameRank(n) <= NameRank(LastByName(older))
      BY <2>4, LastByNameIsLast
    <3>2. ASSUME session <= Widest + 1, NEW n \in older PROVE n <= LastByName(older)
      <4>1. \A k \in older : k \in 1..Widest
        BY <1>a, <3>2
      <4>2. QED
        BY <3>1, <4>1, NamesInOrder
    <3>3. QED
      BY <1>1, <2>1, <2>2, <2>4, <3>1, <3>2
  <2>5. QED
    BY <2>3, <2>4
<1>2. CASE backend = "vdb"
  <2>1. \A n \in saved : n < session
    BY <1>a, <1>2 DEF Served, StoreInv, FilesBehind, Unsaved
  <2>2. latest < session /\ (latest # 0 => \A n \in judged : n <= latest)
    BY <1>2 DEF Served, StoreInv, JudgedBehind
  <2>3. CASE latest # 0 /\ file[latest][m] # Absent
    BY <1>2, <2>2, <2>3 DEF Baseline
  <2>4. CASE ~(latest # 0 /\ file[latest][m] # Absent)
    <3>1. Baseline(m) = IF saved = {} THEN 0 ELSE Largest(saved)
      BY <1>2, <2>4 DEF Baseline
    <3>2. \A n \in judged : file[n][m] # Absent => n \in saved
      BY <1>a
    <3>3. saved # {} => Largest(saved) \in saved /\ \A n \in saved : n <= Largest(saved)
      BY LargestIsGreatest
    <3> HIDE DEF saved
    <3>4. QED
      BY <1>a, <2>1, <3>1, <3>2, <3>3
  <2>5. QED
    BY <2>3, <2>4
<1>3. QED
  BY <1>1, <1>2, <1>a

\* Every step keeps what has been compared.
LEMMA ComparedStep ==
  ASSUME Served, Compared, [Next]_vars
  PROVE  Compared'
<1>a. at \in Serving => \A n \in judged : file'[n] = file[n]
  <2>1. at \in Serving => session \notin judged
    BY DEF Served, StoreInv, JudgedBehind
  <2>2. judged \subseteq Sequences
    BY DEF Served, TypeOK
  <2>3. QED
    BY <2>1, <2>2, FileStep DEF Served, TypeOK, Serving
<1>b. ASSUME at \in Serving, UNCHANGED <<backend, session, judged>>,
             NEW m \in Modules, Newest(m), base'[m] = base[m]
      PROVE  Newest(m)'
  BY <1>a, <1>b DEF Newest
<1>c. found \in [Modules -> Versions \cup {Absent}] /\ module \in Modules
  BY DEF Served, TypeOK
<1>d. Present(NoTree) = {}
  BY DEF Present, NoTree
<1>1. CASE at' = "idle"
  BY <1>1 DEF Compared, Serving
<1>2. CASE EditCode \/ EditSchema \/ UNCHANGED vars
  <2>1. UNCHANGED <<backend, session, file, judged, base, found, at, module>>
    BY <1>2 DEF EditCode, EditSchema, vars, store, run, past
  <2>2. QED
    BY <2>1 DEF Compared, Newest, Present
<1>3. CASE Begin
  BY <1>1, <1>3 DEF Begin, End, Compared, Serving
<1>4. CASE Load
  BY <1>1, <1>4 DEF Load, End, Compared, Serving
<1>5. CASE AdvanceSession
  <2>1. found' = NoTree /\ at' = "extract"
    BY <1>5 DEF AdvanceSession, Compared
  <2>2. QED
    BY <1>d, <2>1 DEF Compared, Present
<1>6. CASE SaveContract
  <2> DEFINE v == IF schema[module'] # Absent THEN schema[module'] ELSE taken[module']
  <2>1. /\ at = "extract" /\ at' = "compare" /\ found' = [found EXCEPT ![module'] = v]
        /\ UNCHANGED <<backend, session, judged, base>>
    BY <1>6 DEF SaveContract, past
  <2> HIDE DEF v
  <2>2. \A m \in Present(found)' : m # module' => m \in Present(found)
    BY <1>c, <2>1 DEF Present
  <2>3. \A m \in Present(found) : Newest(m)
    BY <2>1 DEF Compared, Serving
  <2>4. \A m \in Present(found)' : m # module' => Newest(m)'
    BY <1>b, <2>1, <2>2, <2>3 DEF Present, Serving
  <2>5. QED
    BY <2>1, <2>4 DEF Compared
<1>7. CASE Compare /\ at' # "idle"
  <2>1. /\ at = "compare" /\ at' = "extract" /\ base' = [base EXCEPT ![module] = Baseline(module)]
        /\ UNCHANGED <<backend, session, file, judged, found, module>>
    BY <1>7 DEF Compare, End, store, past
  <2>2. base'[module] = Baseline(module) /\ \A m \in Modules : m # module => base'[m] = base[m]
    BY <1>c, <2>1 DEF Served, TypeOK
  <2>3. Newest(module)'
    BY <1>c, <2>1, <2>2, BaselineFindsNewest DEF Newest
  <2>4. \A m \in Present(found) : m # module => Newest(m)'
    BY <1>b, <2>1, <2>2 DEF Compared, Present, Serving
  <2>5. \A m \in Present(found)' : Newest(m)'
    BY <2>1, <2>3, <2>4 DEF Present
  <2>6. QED
    BY <2>1, <2>5 DEF Compared
<1>8. CASE CommitFile \/ CommitIndex \/ LoopEnds
  <2>1. /\ at \in Serving \ {"compare"} /\ at' \in Serving \ {"compare"}
        /\ UNCHANGED <<backend, session, judged, base, found>>
    BY <1>8 DEF CommitFile, CommitIndex, LoopEnds, Serving, store, past
  <2>2. \A m \in Present(found) : Newest(m)'
    BY <1>b, <2>1 DEF Compared, Present
  <2>3. QED
    BY <2>1, <2>2 DEF Compared, Present, Serving
<1>9. CASE Answer \/ Stop
  BY <1>1, <1>9 DEF Answer, Stop, End
<1>10. QED
  BY <1>1, <1>2, <1>3, <1>4, <1>5, <1>6, <1>7, <1>8, <1>9 DEF Next

\* A module is compared with an earlier generation that is at least as new as
\* every one a finished run has left of it, with any number of runs, modules and
\* torn files; in the JSON store, while the numbers fit into the names.
THEOREM BaselineFollowsRuns == Spec => []BaselineIsNewest
<1>1. Init => Served /\ Compared
  BY TypeInit, StoreInit DEF Served, Init, Compared, Serving
<1>2. (Served /\ Compared) /\ [Next]_vars => (Served /\ Compared)'
  BY ServedStep, ComparedStep
<1>3. Served /\ Compared => BaselineIsNewest
  BY DEF Compared, BaselineIsNewest, Newest, Serving
<1>4. QED
  BY <1>1, <1>2, <1>3, PTL DEF Spec

----------------------------------------------------------------------------
(* What can block *)

\* A summary as the gate extracts it.
IsSummary(s) ==
  IsFiniteSet(DOMAIN s.contracts) /\ IsFiniteSet(s.assumptions) /\ IsFiniteSet(s.dependencies)

\* Rounding to four digits adds less than one of the last.
LEMMA RoundedFraction ==
  ASSUME NEW W \in Nat, NEW x \in Nat, NEW y \in Nat \ {0}, x <= (2 * W + 1) * y
  PROVE  x \div (2 * y) <= W
<1> DEFINE q == x \div (2 * y)
           z == 2 * y
<1>1. z \in Nat \ {0}
  OBVIOUS
<1>2. q \in Nat /\ q * z <= x
  BY <1>1
<1>3. SUFFICES ASSUME q >= W + 1 PROVE FALSE
  <2>1. q <= W \/ q >= W + 1
    <3> HIDE DEF q
    <3> QED BY <1>2
  <2>2. QED
    BY <1>3, <2>1
<1>4. \A a, b, c \in Nat : a <= b => a * c <= b * c
  OBVIOUS
<1>5. (W + 1) * z <= q * z
  <2> HIDE DEF q, z
  <2> QED BY <1>1, <1>2, <1>3, <1>4
<1>6. (W + 1) * z = (2 * W + 1) * y + y
  OBVIOUS
<1>7. q * z \in Int /\ (2 * W + 1) * y \in Int
  BY <1>1, <1>2
<1>8. QED
  <2> DEFINE t == (2 * W + 1) * y
             s == q * z
             r == (W + 1) * z
  <2>1. s \in Int /\ t \in Int /\ r <= s /\ r = t + y /\ s <= x /\ x <= t
    BY <1>2, <1>5, <1>6, <1>7
  <2> HIDE DEF t, s, r, q, z
  <2>2. QED
    BY <2>1

\* Every contract counts once, for 40 of a hundred at most.
LEMMA ContractsCountOnce ==
  ASSUME NEW p, NEW c, IsSummary(p), IsSummary(c)
  PROVE  /\ Whole(DOMAIN p.contracts, DOMAIN c.contracts) \in Nat \ {0}
         /\ ContractChanges(p, c) \in Nat
         /\ ContractChanges(p, c) <= 40 * Whole(DOMAIN p.contracts, DOMAIN c.contracts)
<1> DEFINE P == DOMAIN p.contracts
           C == DOMAIN c.contracts
           R == Removed(p, c)
           M == Modified(p, c)
           A == Added(p, c)
<1>1. IsFiniteSet(P \cup C)
  BY FS_Union DEF IsSummary
<1>2. R \subseteq P \cup C /\ M \subseteq P \cup C /\ A \subseteq P \cup C
      /\ R \cap M = {} /\ (R \cup M) \cap A = {}
  BY DEF Removed, Modified, Added
<1> HIDE DEF P, C, R, M, A
<1>3. IsFiniteSet(R) /\ IsFiniteSet(M) /\ IsFiniteSet(A)
  BY <1>1, <1>2, FS_Subset
<1>4. /\ IsFiniteSet(R \cup M)
      /\ Cardinality(R \cup M) = Cardinality(R) + Cardinality(M) - Cardinality(R \cap M)
  BY <1>3, FS_Union
<1>5. Cardinality((R \cup M) \cup A)
        = Cardinality(R \cup M) + Cardinality(A) - Cardinality((R \cup M) \cap A)
  BY <1>3, <1>4, FS_Union
<1>6. Cardinality((R \cup M) \cup A) <= Cardinality(P \cup C)
  <2>1. (R \cup M) \cup A \in SUBSET (P \cup C)
    BY <1>2
  <2>2. QED
    BY <1>1, <2>1, FS_Subset
<1>7. /\ Cardinality(R) \in Nat /\ Cardinality(M) \in Nat /\ Cardinality(A) \in Nat
      /\ Cardinality(P \cup C) \in Nat
  BY <1>1, <1>3, FS_CardinalityType
<1>8. Cardinality(R \cap M) = 0 /\ Cardinality((R \cup M) \cap A) = 0
  BY <1>2, FS_EmptySet
<1>9. Cardinality(R) + Cardinality(M) + Cardinality(A) <= Cardinality(P \cup C)
  BY <1>4, <1>5, <1>6, <1>7, <1>8
<1>10. Whole(P, C) \in Nat \ {0} /\ Cardinality(P \cup C) <= Whole(P, C)
  BY <1>1, <1>7, FS_EmptySet DEF Whole
<1>11. ContractChanges(p, c)
         = 40 * Cardinality(R) + 35 * Cardinality(M) + 25 * Cardinality(A)
  BY DEF ContractChanges, R, M, A
<1>12. ContractChanges(p, c) \in Nat /\ ContractChanges(p, c) <= 40 * Whole(P, C)
  BY <1>7, <1>9, <1>10, <1>11
<1>13. QED
  BY <1>10, <1>12 DEF P, C

\* Two sets differ in at most all they have.
LEMMA ChangesAtMostWhole ==
  ASSUME NEW S, NEW T, IsFiniteSet(S), IsFiniteSet(T)
  PROVE  Changes(S, T) \in Nat /\ Whole(S, T) \in Nat \ {0} /\ Changes(S, T) <= Whole(S, T)
<1>1. IsFiniteSet(S \cup T)
  BY FS_Union
<1> DEFINE D == (S \ T) \cup (T \ S)
<1>2. D \in SUBSET (S \cup T)
  OBVIOUS
<1>3. IsFiniteSet(D) /\ Cardinality(D) <= Cardinality(S \cup T)
  BY <1>1, <1>2, FS_Subset
<1>4. Cardinality(D) \in Nat /\ Cardinality(S \cup T) \in Nat
  BY <1>1, <1>3, FS_CardinalityType
<1>5. S \cup T = {} <=> Cardinality(S \cup T) = 0
  BY <1>1, FS_EmptySet
<1>6. Changes(S, T) = Cardinality(D)
  BY DEF Changes
<1>7. QED
  BY <1>3, <1>4, <1>5, <1>6 DEF Whole

\* A sum of three shares, each weighted at most as it says, is rounded to a
\* score no higher than its weights.
LEMMA ScoreOfShares ==
  ASSUME NEW k \in Nat \ {0}, NEW a \in Nat \ {0}, NEW n \in Nat \ {0},
         NEW x \in Nat, NEW e \in Nat, NEW d \in Nat,
         NEW w \in Nat, NEW u \in Nat, NEW v \in Nat,
         x <= w * k, 10 * e <= u * a, 5 * d <= v * n
  PROVE  LET raw == x * a * n + 10 * e * k * n + 5 * d * k * a
             all == k * a * n
         IN /\ (2 * 100 * raw + all) \div (2 * all) \in Nat
            /\ (2 * 100 * raw + all) \div (2 * all) <= 100 * (w + u + v)
<1> DEFINE X == x * a * n
           Y == 10 * e * k * n
           Z == 5 * d * k * a
           raw == X + Y + Z
           all == k * a * n
           W == w + u + v
<1>1. all \in Nat \ {0} /\ X \in Nat /\ Y \in Nat /\ Z \in Nat /\ W \in Nat
  OBVIOUS
<1>2. X <= w * all
  <2>1. \A p, q, r \in Nat : p <= q => p * r <= q * r
    OBVIOUS
  <2>2. a * n \in Nat /\ w * k \in Nat
    OBVIOUS
  <2>3. x * (a * n) <= (w * k) * (a * n)
    BY <2>1, <2>2
  <2>4. QED
    BY <2>3
<1>3. Y <= u * all
  <2>1. \A p, q, r \in Nat : p <= q => p * r <= q * r
    OBVIOUS
  <2>2. k * n \in Nat /\ 10 * e \in Nat /\ u * a \in Nat
    OBVIOUS
  <2>3. (10 * e) * (k * n) <= (u * a) * (k * n)
    BY <2>1, <2>2
  <2>4. QED
    BY <2>3
<1>4. Z <= v * all
  <2>1. \A p, q, r \in Nat : p <= q => p * r <= q * r
    OBVIOUS
  <2>2. k * a \in Nat /\ 5 * d \in Nat /\ v * n \in Nat
    OBVIOUS
  <2>3. (5 * d) * (k * a) <= (v * n) * (k * a)
    BY <2>1, <2>2
  <2>4. QED
    BY <2>3
<1> HIDE DEF X, Y, Z, all
<1>5. raw \in Nat /\ raw <= W * all
  BY <1>1, <1>2, <1>3, <1>4
<1> HIDE DEF raw, W
<1>6. /\ 2 * 100 * raw + all \in Nat
      /\ 2 * 100 * raw + all <= (2 * (100 * W) + 1) * all
  BY <1>1, <1>5
<1>7. (2 * 100 * raw + all) \div (2 * all) <= 100 * W
  <2>1. 100 * W \in Nat
    BY <1>1
  <2>2. QED
    BY <1>1, <1>6, <2>1, RoundedFraction
<1>8. (2 * 100 * raw + all) \div (2 * all) \in Nat
  BY <1>1, <1>6
<1>9. QED
  BY <1>7, <1>8 DEF X, Y, Z, raw, all, W

\* No contract counts where none has changed.
LEMMA SameContractsCountNothing ==
  ASSUME NEW p, NEW c, p.contracts = c.contracts
  PROVE  ContractChanges(p, c) = 0
<1>1. Removed(p, c) = {} /\ Modified(p, c) = {} /\ Added(p, c) = {}
  BY DEF Removed, Modified, Added
<1>2. QED
  BY <1>1, FS_EmptySet DEF ContractChanges

\* What a score can be: 55 of a hundred at the most, 45 where the assumptions are
\* the same, 15 where the contracts are, and nothing where all is.
LEMMA ScoreBounds ==
  ASSUME NEW p, NEW c, IsSummary(p), IsSummary(c)
  PROVE  /\ Score(p, c) \in Nat /\ Score(p, c) <= 5500
         /\ p.assumptions = c.assumptions => Score(p, c) <= 4500
         /\ p.contracts = c.contracts => Score(p, c) <= 1500
         /\ p = c => Score(p, c) = 0
<1> DEFINE k == Whole(DOMAIN p.contracts, DOMAIN c.contracts)
           a == Whole(p.assumptions, c.assumptions)
           n == Whole(p.dependencies, c.dependencies)
           x == ContractChanges(p, c)
           e == Changes(p.assumptions, c.assumptions)
           d == Changes(p.dependencies, c.dependencies)
           w == IF p.contracts = c.contracts THEN 0 ELSE 40
           u == IF p.assumptions = c.assumptions THEN 0 ELSE 10
           v == IF p.dependencies = c.dependencies THEN 0 ELSE 5
<1>1. k \in Nat \ {0} /\ x \in Nat /\ x <= w * k
  <2>1. k \in Nat \ {0} /\ x \in Nat /\ x <= 40 * k
    BY ContractsCountOnce
  <2>2. p.contracts = c.contracts => x = 0
    BY SameContractsCountNothing
  <2> HIDE DEF k, x
  <2>3. QED
    BY <2>1, <2>2
<1>2. a \in Nat \ {0} /\ e \in Nat /\ 10 * e <= u * a
  <2>1. a \in Nat \ {0} /\ e \in Nat /\ e <= a
    BY ChangesAtMostWhole DEF IsSummary
  <2>2. p.assumptions = c.assumptions => e = 0
    BY FS_EmptySet DEF Changes
  <2> HIDE DEF a, e
  <2>3. QED
    BY <2>1, <2>2
<1>3. n \in Nat \ {0} /\ d \in Nat /\ 5 * d <= v * n
  <2>1. n \in Nat \ {0} /\ d \in Nat /\ d <= n
    BY ChangesAtMostWhole DEF IsSummary
  <2>2. p.dependencies = c.dependencies => d = 0
    BY FS_EmptySet DEF Changes
  <2> HIDE DEF n, d
  <2>3. QED
    BY <2>1, <2>2
<1>4. w \in Nat /\ u \in Nat /\ v \in Nat /\ w <= 40 /\ u <= 10 /\ v <= 5
  OBVIOUS
<1> DEFINE raw == x * a * n + 10 * e * k * n + 5 * d * k * a
           all == k * a * n
           score == (2 * 100 * raw + all) \div (2 * all)
<1>5. Score(p, c) = IF DOMAIN p.contracts \cup DOMAIN c.contracts = {} THEN 0 ELSE score
  BY DEF Score
<1>6. score \in Nat /\ score <= 100 * (w + u + v)
  <2> HIDE DEF k, a, n, x, e, d, w, u, v
  <2> QED BY <1>1, <1>2, <1>3, <1>4, ScoreOfShares
<1> HIDE DEF score
<1>7. Score(p, c) \in Nat /\ Score(p, c) <= 100 * (w + u + v)
  <2> HIDE DEF w, u, v
  <2> QED BY <1>4, <1>5, <1>6
<1>8. Score(p, c) \in Nat /\ Score(p, c) <= 5500
  <2> HIDE DEF w, u, v
  <2> QED BY <1>4, <1>7
<1>9. p.assumptions = c.assumptions => Score(p, c) <= 4500
  <2>1. p.assumptions = c.assumptions => u = 0
    OBVIOUS
  <2> HIDE DEF w, u, v
  <2>2. QED
    BY <1>4, <1>7, <2>1
<1>10. p.contracts = c.contracts => Score(p, c) <= 1500
  <2>1. p.contracts = c.contracts => w = 0
    OBVIOUS
  <2> HIDE DEF w, u, v
  <2>2. QED
    BY <1>4, <1>7, <2>1
<1>11. p = c => Score(p, c) = 0
  <2>1. p = c => w = 0 /\ u = 0 /\ v = 0
    OBVIOUS
  <2> HIDE DEF w, u, v
  <2>2. w = 0 /\ u = 0 /\ v = 0 => Score(p, c) = 0
    BY <1>7
  <2>3. QED
    BY <2>1, <2>2
<1>12. QED
  BY <1>8, <1>9, <1>10, <1>11

\* What reaches a threshold above 0 has changed in what the threshold asks for.
LEMMA WhatScoresNeed ==
  ASSUME NEW p, NEW c, IsSummary(p), IsSummary(c),
         NEW t \in Int, t > 0, Score(p, c) >= t
  PROVE  /\ t <= 5500
         /\ p # c
         /\ t > 1500 => p.contracts # c.contracts
         /\ t > 4500 => p.assumptions # c.assumptions
<1>1. PICK s \in Nat :
        /\ s >= t /\ s <= 5500
        /\ p.assumptions = c.assumptions => s <= 4500
        /\ p.contracts = c.contracts => s <= 1500
        /\ p = c => s = 0
  BY ScoreBounds
<1>2. t <= 5500
  BY <1>1
<1>3. p # c
  BY <1>1
<1>4. t > 1500 => p.contracts # c.contracts
  BY <1>1
<1>5. t > 4500 => p.assumptions # c.assumptions
  BY <1>1
<1>6. QED
  BY <1>2, <1>3, <1>4, <1>5

\* A verdict is given when a run ends, and stands until the next begins.
VerdictAtEnd == verdict # "none" => at = "idle"

\* A module's baseline is there and can be read.
BaseOnDisk ==
  \A m \in Modules : base[m] # 0 => base[m] \in Sequences /\ file[base[m]][m] \in Versions

\* Without a declared schema there is nothing but code.
OnlyCode ==
  ~declared =>
    /\ schema = NoTree
    /\ \A n \in Sequences, m \in Modules : file[n][m] \in CodeVersions \cup {Absent, Torn}
    /\ \A m \in Modules : found[m] \in CodeVersions \cup {Absent}

BlockInv == VerdictAtEnd /\ BaseOnDisk /\ OnlyCode

\* No step gives a verdict before the end of a run.
LEMMA VerdictStep ==
  ASSUME TypeOK, VerdictAtEnd, [Next]_vars
  PROVE  VerdictAtEnd'
<1> USE DEF VerdictAtEnd
<1>1. CASE EditCode \/ EditSchema \/ UNCHANGED vars
  BY <1>1 DEF EditCode, EditSchema, vars, run
<1>2. CASE Begin \/ Load \/ Compare \/ Answer \/ Stop
  BY <1>2 DEF Begin, Load, Compare, Answer, Stop, End
<1>3. CASE AdvanceSession \/ SaveContract \/ CommitFile \/ CommitIndex \/ LoopEnds
  BY <1>3 DEF AdvanceSession, SaveContract, CommitFile, CommitIndex, LoopEnds
<1>4. QED
  BY <1>1, <1>2, <1>3 DEF Next

\* What is a baseline stays on disk.
LEMMA BaseStep ==
  ASSUME Served, BaseOnDisk, [Next]_vars
  PROVE  BaseOnDisk'
<1>a. Kept
  BY KeepStep
<1>b. base \in [Modules -> 0..MaxRuns] /\ module \in Modules
  BY DEF Served, TypeOK
<1>1. CASE base' = base
  BY <1>1, <1>a DEF BaseOnDisk, Kept
<1>2. CASE Begin
  BY <1>2 DEF Begin, BaseOnDisk, NoBase
<1>3. CASE Compare /\ base' # base
  <2>1. /\ file' = file /\ at = "compare" /\ base' = [base EXCEPT ![module] = Baseline(module)]
        /\ ~(backend = "json" /\ Unreadable(module))
    BY <1>3 DEF Compare, store, End
  <2> DEFINE saved == {n \in Sequences : file[n][module] # Absent}
             older == {n \in saved : n < session}
  <2>2. older # {} => LastByName(older) \in saved
    BY LastByNameIsLast
  <2>3. saved # {} => Largest(saved) \in saved
    BY LargestIsGreatest
  <2>4. latest # 0 => latest \in Sequences
    BY GateAssumption DEF Served, TypeOK, Sequences
  <2>5. Baseline(module) \in {0} \cup saved
    BY <2>2, <2>3, <2>4 DEF Baseline
  <2>6. \A n \in saved : file[n][module] \in Versions
    BY <1>b, <2>1 DEF Unreadable, Served, TypeOK
  <2>7. base'[module] \in {0} \cup saved /\ \A m \in Modules : m # module => base'[m] = base[m]
    BY <1>b, <2>1, <2>5
  <2>8. \A m \in Modules : base'[m] # 0 => base'[m] \in Sequences /\ file[base'[m]][m] \in Versions
    BY <2>6, <2>7 DEF BaseOnDisk
  <2>9. QED
    BY <2>1, <2>8 DEF BaseOnDisk
<1>4. CASE Next /\ ~Begin /\ ~Compare
  BY <1>1, <1>4 DEF Next, EditCode, EditSchema, Load, AdvanceSession, SaveContract, CommitFile,
                    CommitIndex, LoopEnds, Answer, Stop, run
<1>5. CASE UNCHANGED vars
  BY <1>1, <1>5 DEF vars, run
<1>6. QED
  BY <1>1, <1>2, <1>3, <1>4, <1>5

\* What is extracted where no schema has ever been is code.
LEMMA CodeStep ==
  ASSUME Served, OnlyCode, [Next]_vars
  PROVE  OnlyCode'
<1>a. /\ file \in [Sequences -> [Modules -> Versions \cup {Absent, Torn}]]
      /\ found \in [Modules -> Versions \cup {Absent}]
      /\ taken \in [Modules -> CodeVersions \cup {Absent}]
  BY DEF Served, TypeOK
<1>1. CASE EditSchema
  BY <1>1 DEF EditSchema, OnlyCode
<1>2. CASE UNCHANGED <<schema, declared, file, found>>
  BY <1>2 DEF OnlyCode
<1>3. CASE Begin
  BY <1>3 DEF Begin, OnlyCode, NoTree, tree, store
<1>4. CASE SaveContract
  <2> DEFINE m == Smallest(todo)
             v == IF schema[m] # Absent THEN schema[m] ELSE taken[m]
  <2>1. /\ at = "extract" /\ todo # {}
        /\ found' = [found EXCEPT ![m] = v] /\ UNCHANGED <<schema, declared>>
        /\ file' = IF backend = "json" THEN [file EXCEPT ![session][m] = v] ELSE file
    BY <1>4 DEF SaveContract, tree
  <2>2. m \in Modules /\ session \in Sequences
    BY <2>1, SmallestIsOfSet DEF Served, TypeOK, SessionOpen, Serving
  <2>3. ~declared => v \in CodeVersions \cup {Absent}
    BY <1>a, <2>2 DEF OnlyCode, NoTree
  <2> HIDE DEF m, v
  <2>4. QED
    BY <1>a, <2>1, <2>2, <2>3 DEF OnlyCode
<1>5. CASE CommitFile
  <2>1. file' = [file EXCEPT ![session] = found] /\ UNCHANGED <<schema, declared, found>>
    BY <1>5 DEF CommitFile, tree
  <2>2. QED
    BY <1>a, <2>1 DEF OnlyCode
<1>6. CASE Stop
  <2>1. UNCHANGED <<schema, declared, found>>
    BY <1>6 DEF Stop, tree
  <2>2. file' = file \/ file' = [file EXCEPT ![session][Smallest(todo)] = Torn]
    BY <1>6 DEF Stop, store
  <2>3. \A n \in Sequences, k \in Modules : file'[n][k] \in {file[n][k], Torn}
    BY <1>a, <2>2
  <2>4. QED
    BY <2>1, <2>3 DEF OnlyCode
<1>7. CASE EditCode \/ Load \/ AdvanceSession \/ Compare \/ CommitIndex \/ LoopEnds \/ Answer
           \/ UNCHANGED vars
  <2>1. UNCHANGED <<schema, declared, file, found>>
    BY <1>7 DEF EditCode, Load, AdvanceSession, Compare, CommitIndex, LoopEnds, Answer, vars,
                tree, store, run
  <2>2. QED
    BY <1>2, <2>1
<1>8. QED
  BY <1>1, <1>2, <1>3, <1>4, <1>5, <1>6, <1>7 DEF Next

\* A run that blocks has met a module that has changed in what its threshold asks for.
LEMMA BlockStep ==
  ASSUME Served, BlockInv, BlockNeedsChange, [Next]_vars
  PROVE  BlockNeedsChange'
<1> USE DEF BlockInv
<1>1. CASE Answer /\ Blocked
  <2>1. UNCHANGED <<declared, found, base, file, threshold>>
    BY <1>1 DEF Answer, tree
  <2>2. SUFFICES ASSUME threshold > 0 PROVE BlockNeedsChange'
    BY <2>1 DEF BlockNeedsChange
  <2>3. threshold \in Int
    BY GateAssumption DEF Served, TypeOK
  <2>4. PICK m \in Present(found) : Drift(m) >= threshold
    BY <1>1, <2>2, <2>3 DEF Blocked
  <2>5. m \in Modules /\ found[m] \in Versions
    BY <2>4 DEF Present, Served, TypeOK
  <2>6. base[m] # 0 /\ Drift(m) = Score(Summary[file[base[m]][m]], Summary[found[m]])
    BY <2>2, <2>3, <2>4 DEF Drift
  <2>7. file[base[m]][m] \in Versions /\ base[m] \in Sequences
    BY <2>5, <2>6 DEF BaseOnDisk
  <2> DEFINE p == Summary[file[base[m]][m]]
             c == Summary[found[m]]
  <2>8. IsSummary(p) /\ IsSummary(c)
    BY <2>5, <2>7, GateAssumption DEF IsSummary
  <2>9. Score(p, c) >= threshold
    BY <2>4, <2>6
  <2>10. /\ threshold <= 5500
         /\ p # c
         /\ threshold > 1500 => p.contracts # c.contracts
         /\ threshold > 4500 => p.assumptions # c.assumptions
    <3> HIDE DEF p, c
    <3> QED BY <2>2, <2>3, <2>8, <2>9, WhatScoresNeed
  <2>11. threshold > 4500 => declared
    <3>1. SUFFICES ASSUME threshold > 4500, ~declared PROVE FALSE
      OBVIOUS
    <3>2. file[base[m]][m] \in CodeVersions /\ found[m] \in CodeVersions
      BY <2>5, <2>7, <3>1, GateAssumption DEF OnlyCode
    <3>3. p.assumptions = {} /\ c.assumptions = {}
      BY <3>2, GateAssumption
    <3>4. QED
      BY <2>10, <3>1, <3>3
  <2>12. QED
    BY <2>1, <2>4, <2>6, <2>10, <2>11 DEF BlockNeedsChange, Present
<1>2. CASE verdict' # "blocked"
  BY <1>2 DEF BlockNeedsChange
<1>3. CASE verdict = "blocked" /\ verdict' = "blocked" /\ ~Answer
  <2>1. at = "idle"
    BY <1>3 DEF VerdictAtEnd
  <2>2. UNCHANGED <<found, base, file, threshold>> /\ (declared => declared')
    BY <1>3, <2>1 DEF Next, EditCode, EditSchema, Begin, Load, AdvanceSession, SaveContract,
       Compare, CommitFile, CommitIndex, LoopEnds, Stop, End, vars, run, store, tree
  <2>3. QED
    BY <1>3, <2>2 DEF BlockNeedsChange, Present
<1>4. CASE verdict # "blocked" /\ verdict' = "blocked" /\ ~Answer
  BY <1>4 DEF Next, EditCode, EditSchema, Begin, Load, AdvanceSession, SaveContract,
     Compare, CommitFile, CommitIndex, LoopEnds, Stop, End, vars
<1>5. CASE Answer /\ ~Blocked
  BY <1>2, <1>5 DEF Answer, End
<1>6. QED
  BY <1>1, <1>2, <1>3, <1>4, <1>5

\* However the modules change: whatever the threshold, the gate blocks only what
\* has changed; where it is above 0.45 only a change of declared assumptions
\* blocks, and a tree that has never had a schema passes with whatever was
\* removed from it.
THEOREM BlocksNeedChange == Spec => []BlockNeedsChange
<1> DEFINE Inv == Served /\ BlockInv /\ BlockNeedsChange
<1>1. Init => Inv
  <2> SUFFICES ASSUME Init PROVE Inv
    OBVIOUS
  <2>1. Served
    BY TypeInit, StoreInit DEF Served
  <2>2. BlockInv
    BY DEF Init, BlockInv, VerdictAtEnd, BaseOnDisk, OnlyCode, NoTree, NoBase
  <2>3. QED
    BY <2>1, <2>2 DEF Init, BlockNeedsChange
<1>2. Inv /\ [Next]_vars => Inv'
  BY ServedStep, VerdictStep, BaseStep, CodeStep, BlockStep DEF Served, BlockInv
<1>3. Inv => BlockNeedsChange
  OBVIOUS
<1>4. QED
  BY <1>1, <1>2, <1>3, PTL DEF Spec
=============================================================================
