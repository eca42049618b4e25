------------------------- MODULE OrchestratorProofs ------------------------
(***************************************************************************)
(* Proofs about the gates' side.  Of Orchestrator, for any gate registry,  *)
(* any number of concurrent requests and any number of faults: types, the  *)
(* token that needs the whole chain, the order of the phases, and the rows *)
(* that are always a prefix of the chain.  Of StressGate, for any limits,  *)
(* shares and times: types, the limit that is never met, the wait that     *)
(* ends, and what alone may fail a run under such a limit.                 *)
(***************************************************************************)
EXTENDS Orchestrator, StressGate, FiniteSetTheorems, WellFoundedInduction, TLAPS

\* The handler's loop index stays in the list it loops over.
PosInList ==
  \A q \in Requests :
    /\ pc[q] \in {"new", "phase1"} => pos[q] = 1
    /\ pc[q] = "saving" => pos[q] \in 1..Len(Parallel)
    /\ pc[q] = "phase2" => pos[q] \in 1..Len(Sequential)

\* gather(): a parallel gate has been called or has replied, and once the
\* loop over the responses runs, all have replied.
Awaited ==
  \A q \in Requests, g \in ParallelGates :
    /\ pc[q] = "phase1" => reply[q][g] # "none" \/ <<q, g>> \in calls
    /\ pc[q] = "saving" => reply[q][g] # "none"

\* Every gate the loops have gone past has a pass in the database.
Progress ==
  \A q \in Requests :
    /\ pc[q] = "saving" => \A i \in 1..(pos[q] - 1) : Passed(q, Parallel[i])
    /\ pc[q] \in {"phase2", "issue"} => \A g \in ParallelGates : Passed(q, g)
    /\ pc[q] = "phase2" => \A i \in 1..(pos[q] - 1) : Passed(q, Sequential[i])
    /\ pc[q] = "issue" => \A g \in SequentialGates : Passed(q, g)

\* The inductive invariant.
ChainInv ==
  /\ TypeOK
  /\ PosInList
  /\ Awaited
  /\ Progress
  /\ TokenNeedsWholeChain
  /\ PhasesInOrder

----------------------------------------------------------------------------
\* The gates at a list's positions, and the ranges of the list's length.
LEMMA GateLists ==
  /\ Len(Parallel) \in Nat \ {0} /\ Len(Sequential) \in Nat \ {0}
  /\ \A i \in 1..Len(Parallel) : Parallel[i] \in ParallelGates
  /\ \A i \in 1..Len(Sequential) : Sequential[i] \in SequentialGates
  /\ ParallelGates \subseteq Gates /\ SequentialGates \subseteq Gates
  /\ Gates = ParallelGates \cup SequentialGates
  BY ChainAssumption DEF ChainAssumption, ParallelGates, SequentialGates, Gates

\* Rows are only ever added, so what has passed stays passed.
LEMMA AuditGrows ==
  ASSUME audit \subseteq audit', NEW q, NEW g, Passed(q, g)
  PROVE  Passed(q, g)'
  BY DEF Passed

\* The initial states.
LEMMA ChainInit == Init => ChainInv
  <1> SUFFICES ASSUME Init PROVE ChainInv
    OBVIOUS
  <1> USE DEF Init
  <1>1. TypeOK
    BY ChainAssumption DEF ChainAssumption, TypeOK, Reply
  <1>2. PosInList /\ Awaited
    BY DEF PosInList, Awaited
  <1>3. Progress /\ TokenNeedsWholeChain /\ PhasesInOrder
    BY DEF Progress, TokenNeedsWholeChain, PhasesInOrder
  <1> QED BY <1>1, <1>2, <1>3 DEF ChainInv

----------------------------------------------------------------------------
\* A gate that replies, or is given up on.
LEMMA ReturnStep ==
  ASSUME ChainInv, NEW q \in Requests, NEW g \in Gates,
         NEW r \in {"pass", "fail", "malformed"}, <<q, g>> \in calls, Tell(q, g, r),
         UNCHANGED <<handlerVars, audit, tokens, tree, faults>>
  PROVE  ChainInv'
  <1> USE DEF Tell, handlerVars
  <1>1. TypeOK'
    BY DEF ChainInv, TypeOK, Reply
  <1>2. PosInList'
    BY DEF ChainInv, PosInList
  <1>3. Awaited'
    <2> SUFFICES ASSUME NEW p \in Requests, NEW h \in ParallelGates
                 PROVE  /\ pc[p] = "phase1" => reply'[p][h] # "none" \/ <<p, h>> \in calls'
                        /\ pc[p] = "saving" => reply'[p][h] # "none"
      BY DEF Awaited
    <2>1. h \in Gates
      BY GateLists
    <2>2. CASE p = q /\ h = g
      BY <2>1, <2>2 DEF ChainInv, TypeOK
    <2>3. CASE p # q \/ h # g
      <3>1. reply'[p][h] = reply[p][h]
        BY <2>1, <2>3 DEF ChainInv, TypeOK
      <3>2. <<p, h>> # <<q, g>>
        BY <2>3
      <3> QED BY <3>1, <3>2 DEF ChainInv, Awaited
    <2> QED BY <2>2, <2>3
  <1>4. Progress' /\ TokenNeedsWholeChain'
    BY DEF ChainInv, Progress, TokenNeedsWholeChain, Passed
  <1>5. PhasesInOrder'
    BY DEF ChainInv, PhasesInOrder, Passed
  <1> QED BY <1>1, <1>2, <1>3, <1>4, <1>5 DEF ChainInv

\* The step of a handler that saves one gate's result, for a gate that has
\* replied; the caller says what holds where a pass leads.
LEMMA SaveStep ==
  ASSUME ChainInv, NEW q \in Requests, NEW g \in Gates, reply[q][g] # "none",
         pc[q] \in {"saving", "phase2"},
         NEW nextPc \in {"saving", "phase2", "issue"}, NEW nextPos \in Nat,
         Save(q, g, nextPc, nextPos),
         nextPc = "saving" =>
           /\ pc[q] = "saving" /\ nextPos \in 1..Len(Parallel)
           /\ \A i \in 1..(nextPos - 1) : Parallel[i] = g \/ Passed(q, Parallel[i]),
         nextPc # "saving" => \A h \in ParallelGates : h = g \/ Passed(q, h),
         nextPc = "phase2" =>
           /\ nextPos \in 1..Len(Sequential)
           /\ \A i \in 1..(nextPos - 1) : Sequential[i] = g \/ Passed(q, Sequential[i]),
         nextPc = "issue" => \A h \in SequentialGates : h = g \/ Passed(q, h)
  PROVE  ChainInv'
  <1> USE DEF Save, Goto
  <1>1. audit \subseteq audit' /\ calls' = calls /\ reply' = reply /\ tokens' = tokens
    OBVIOUS
  <1>2. TypeOK'
    <2>1. audit' \subseteq [req : Requests, gate : Gates, status : {"pass", "fail"}]
      <3>1. reply[q][g] \in {"pass", "fail", "malformed"}
        BY DEF ChainInv, TypeOK, Reply
      <3>2. reply[q][g] # "malformed" =>
              [req |-> q, gate |-> g, status |-> reply[q][g]]
                \in [req : Requests, gate : Gates, status : {"pass", "fail"}]
        BY <3>1
      <3> QED BY <3>2 DEF ChainInv, TypeOK
    <2>2. pc' \in [Requests -> {"new"} \cup Running \cup Answered]
      BY DEF ChainInv, TypeOK, Running, Answered
    <2>3. pos' \in [Requests -> Nat]
      BY DEF ChainInv, TypeOK
    <2> QED BY <2>1, <2>2, <2>3 DEF ChainInv, TypeOK
  <1>3. \/ pc' = [pc EXCEPT ![q] = "error"] /\ pos' = pos
        \/ pc' = [pc EXCEPT ![q] = "blocked"] /\ pos' = pos
        \/ /\ pc' = [pc EXCEPT ![q] = nextPc] /\ pos' = [pos EXCEPT ![q] = nextPos]
           /\ Passed(q, g)'
    BY DEF ChainInv, TypeOK, Reply, Passed
  <1>4. PosInList'
    BY <1>3 DEF ChainInv, TypeOK, PosInList
  <1>5. Awaited'
    BY <1>1, <1>3 DEF ChainInv, TypeOK, Awaited
  <1>6. Progress'
    <2> SUFFICES ASSUME NEW p \in Requests
                 PROVE  /\ pc'[p] = "saving" => \A i \in 1..(pos'[p] - 1) : Passed(p, Parallel[i])'
                        /\ pc'[p] \in {"phase2", "issue"} => \A h \in ParallelGates : Passed(p, h)'
                        /\ pc'[p] = "phase2" => \A i \in 1..(pos'[p] - 1) : Passed(p, Sequential[i])'
                        /\ pc'[p] = "issue" => \A h \in SequentialGates : Passed(p, h)'
      BY DEF Progress, Passed
    <2>1. CASE p # q
      BY <1>1, <1>3, <2>1 DEF ChainInv, TypeOK, Progress, Passed
    <2>2. CASE p = q
      BY <1>1, <1>3, <2>2 DEF ChainInv, TypeOK, Passed
    <2> QED BY <2>1, <2>2
  <1>7. TokenNeedsWholeChain'
    BY <1>1, AuditGrows DEF ChainInv, TokenNeedsWholeChain
  <1>8. PhasesInOrder'
    BY <1>1, AuditGrows DEF ChainInv, PhasesInOrder
  <1> QED BY <1>2, <1>4, <1>5, <1>6, <1>7, <1>8 DEF ChainInv

----------------------------------------------------------------------------
\* Every step preserves the invariant.
LEMMA ChainStep == ChainInv /\ [Next]_vars => ChainInv'
  <1> SUFFICES ASSUME ChainInv, [Next]_vars PROVE ChainInv'
    OBVIOUS
  <1> USE DEF ChainInv, handlerVars
  <1> DEFINE Rest == PosInList /\ Awaited /\ Progress /\ TokenNeedsWholeChain /\ PhasesInOrder
  <1>1. ASSUME NEW t \in Trees, Move(t) PROVE ChainInv'
    <2>1. TypeOK'
      BY <1>1 DEF Move, TypeOK
    <2>2. Rest'
      BY <1>1 DEF Move, PosInList, Awaited, Progress, TokenNeedsWholeChain, PhasesInOrder, Passed
    <2> QED BY <2>1, <2>2
  <1>2. ASSUME NEW q \in Requests, Refuse(q) PROVE ChainInv'
    <2>1. TypeOK'
      BY <1>2 DEF Refuse, Goto, TypeOK, Answered
    <2>2. PosInList' /\ Awaited'
      BY <1>2 DEF Refuse, Goto, TypeOK, PosInList, Awaited
    <2>3. Progress' /\ TokenNeedsWholeChain' /\ PhasesInOrder'
      BY <1>2 DEF Refuse, Goto, TypeOK, Progress, TokenNeedsWholeChain, PhasesInOrder, Passed
    <2> QED BY <2>1, <2>2, <2>3
  <1>3. ASSUME NEW q \in Requests, Begin(q) PROVE ChainInv'
    <2>1. TypeOK'
      <3>1. calls' \subseteq Requests \X Gates
        BY <1>3, GateLists DEF Begin, TypeOK
      <3>2. pc' \in [Requests -> {"new"} \cup Running \cup Answered]
        BY <1>3 DEF Begin, Goto, TypeOK, Running
      <3> QED BY <1>3, <3>1, <3>2 DEF Begin, TypeOK
    <2>2. PosInList' /\ Awaited'
      BY <1>3 DEF Begin, Goto, TypeOK, PosInList, Awaited
    <2>3. Progress' /\ TokenNeedsWholeChain'
      BY <1>3 DEF Begin, Goto, TypeOK, Progress, TokenNeedsWholeChain, Passed
    <2>4. \A p \in Requests, j \in 1..Len(Sequential) :
            <<p, Sequential[j]>> \in calls' => <<p, Sequential[j]>> \in calls
      BY <1>3, GateLists, ChainAssumption DEF Begin, ChainAssumption
    <2>5. PhasesInOrder'
      BY <1>3, <2>4 DEF Begin, PhasesInOrder, Passed
    <2> QED BY <2>1, <2>2, <2>3, <2>5
  <1>4. ASSUME NEW q \in Requests, Gathered(q) PROVE ChainInv'
    <2>1. TypeOK'
      BY <1>4 DEF Gathered, Goto, TypeOK, Running
    <2>2. \A g \in ParallelGates : reply[q][g] # "none"
      <3> SUFFICES ASSUME NEW g \in ParallelGates, reply[q][g] = "none" PROVE FALSE
        OBVIOUS
      <3>1. <<q, g>> \in calls
        BY <1>4 DEF Gathered, Awaited
      <3>2. <<q, g>>[1] = q
        OBVIOUS
      <3> QED BY <1>4, <3>1, <3>2 DEF Gathered, Outstanding
    <2>3. PosInList' /\ Awaited'
      BY <1>4, <2>2, GateLists DEF Gathered, Goto, TypeOK, PosInList, Awaited
    <2>4. Progress' /\ TokenNeedsWholeChain' /\ PhasesInOrder'
      BY <1>4 DEF Gathered, Goto, TypeOK, PosInList, Progress, TokenNeedsWholeChain,
                  PhasesInOrder, Passed
    <2> QED BY <2>1, <2>3, <2>4
  <1>5. ASSUME NEW q \in Requests, SaveParallel(q) PROVE ChainInv'
    <2> DEFINE i == pos[q]
               g == Parallel[i]
    <2>1. i \in 1..Len(Parallel) /\ g \in ParallelGates /\ g \in Gates /\ reply[q][g] # "none"
      BY <1>5, GateLists DEF SaveParallel, PosInList, Awaited
    <2>2. \A j \in 1..(i - 1) : Passed(q, Parallel[j])
      BY <1>5 DEF SaveParallel, Progress
    <2>3. CASE i < Len(Parallel)
      <3> DEFINE n == i + 1
      <3>1. \A j \in 1..(n - 1) : Parallel[j] = g \/ Passed(q, Parallel[j])
        BY <2>1, <2>2
      <3>2. Save(q, g, "saving", n) /\ n \in 1..Len(Parallel)
        BY <1>5, <2>1, <2>3, GateLists DEF SaveParallel
      <3>3. pc[q] = "saving" /\ n \in Nat
        BY <1>5, <2>1, GateLists DEF SaveParallel
      <3> HIDE DEF ChainInv, i, g, n
      <3> QED BY <2>1, <3>1, <3>2, <3>3, SaveStep
    <2>4. CASE i = Len(Parallel)
      <3>1. \A h \in ParallelGates : h = g \/ Passed(q, h)
        BY <2>1, <2>2, <2>4 DEF ParallelGates
      <3>2. Save(q, g, "phase2", 1)
        BY <1>5, <2>1, <2>4, GateLists DEF SaveParallel
      <3> QED BY <1>5, <2>1, <3>1, <3>2, SaveStep, GateLists DEF SaveParallel
    <2> QED BY <2>1, <2>3, <2>4, GateLists
  <1>6. ASSUME NEW q \in Requests, CallSequential(q) PROVE ChainInv'
    <2> DEFINE i == pos[q]
    <2>1. i \in 1..Len(Sequential) /\ Sequential[i] \in Gates
      BY <1>6, GateLists DEF CallSequential, PosInList
    <2>2. TypeOK'
      BY <1>6, <2>1 DEF CallSequential, TypeOK
    <2>3. PosInList' /\ Awaited' /\ Progress' /\ TokenNeedsWholeChain'
      BY <1>6 DEF CallSequential, PosInList, Awaited, Progress, TokenNeedsWholeChain, Passed
    <2>4. \A p \in Requests, j \in 1..Len(Sequential) :
            <<p, Sequential[j]>> \in calls' => <<p, Sequential[j]>> \in calls \/ (p = q /\ j = i)
      <3> SUFFICES ASSUME NEW p \in Requests, NEW j \in 1..Len(Sequential),
                          <<p, Sequential[j]>> \in calls', <<p, Sequential[j]>> \notin calls
                   PROVE  p = q /\ j = i
        OBVIOUS
      <3>1. <<p, Sequential[j]>> = <<q, Sequential[i]>>
        BY <1>6 DEF CallSequential
      <3>2. p = q /\ Sequential[j] = Sequential[i]
        BY <3>1
      <3> QED BY <2>1, <3>2, ChainAssumption DEF ChainAssumption
    <2>5. PhasesInOrder'
      BY <1>6, <2>1, <2>4 DEF CallSequential, PhasesInOrder, Progress, Passed
    <2> QED BY <2>2, <2>3, <2>5
  <1>7. ASSUME NEW q \in Requests, SaveSequential(q) PROVE ChainInv'
    <2> DEFINE i == pos[q]
               g == Sequential[i]
    <2>1. i \in 1..Len(Sequential) /\ g \in Gates /\ reply[q][g] # "none"
      BY <1>7, GateLists DEF SaveSequential, PosInList
    <2>2. /\ \A h \in ParallelGates : h = g \/ Passed(q, h)
          /\ \A j \in 1..(i - 1) : Passed(q, Sequential[j])
      BY <1>7 DEF SaveSequential, Progress
    <2>3. CASE i < Len(Sequential)
      <3>1. \A j \in 1..((i + 1) - 1) : Sequential[j] = g \/ Passed(q, Sequential[j])
        BY <2>1, <2>2
      <3>2. Save(q, g, "phase2", i + 1) /\ i + 1 \in 1..Len(Sequential)
        BY <1>7, <2>1, <2>3, GateLists DEF SaveSequential
      <3> QED BY <1>7, <2>1, <2>2, <3>1, <3>2, SaveStep DEF SaveSequential
    <2>4. CASE i = Len(Sequential)
      <3>1. \A h \in SequentialGates : h = g \/ Passed(q, h)
        BY <2>1, <2>2, <2>4 DEF SequentialGates
      <3>2. Save(q, g, "issue", i)
        BY <1>7, <2>1, <2>4, GateLists DEF SaveSequential
      <3> QED BY <1>7, <2>1, <2>2, <3>1, <3>2, SaveStep, GateLists DEF SaveSequential
    <2> QED BY <2>1, <2>3, <2>4, GateLists
  <1>8. ASSUME NEW q \in Requests, IssueToken(q) PROVE ChainInv'
    <2>1. TypeOK'
      BY <1>8 DEF IssueToken, Goto, TypeOK, Answered
    <2>2. PosInList' /\ Awaited' /\ Progress' /\ PhasesInOrder'
      BY <1>8 DEF IssueToken, Goto, TypeOK, PosInList, Awaited, Progress, PhasesInOrder, Passed
    <2>3. TokenNeedsWholeChain'
      BY <1>8, GateLists DEF IssueToken, TokenNeedsWholeChain, Progress, Passed
    <2> QED BY <2>1, <2>2, <2>3
  <1>9. ASSUME NEW q \in Requests, DatabaseError(q) PROVE ChainInv'
    <2>1. TypeOK'
      BY <1>9, ChainAssumption DEF ChainAssumption, DatabaseError, Fault, Goto, TypeOK, Answered
    <2>2. Rest'
      BY <1>9 DEF DatabaseError, Goto, TypeOK, PosInList, Awaited, Progress,
                  TokenNeedsWholeChain, PhasesInOrder, Passed
    <2> QED BY <2>1, <2>2
  <1>10. ASSUME NEW q \in Requests, NEW g \in Gates, Return(q, g) PROVE ChainInv'
    BY <1>10, ReturnStep DEF Return, GateRuns, CallFails, ForeignAnswer
  <1>11. CASE Crash
    <2>1. TypeOK'
      BY <1>11, ChainAssumption DEF ChainAssumption, Crash, Fault, TypeOK, Answered
    <2>2. \A p \in Requests : pc'[p] \in {pc[p], "lost"} /\ pc'[p] \notin Running
      BY <1>11 DEF Crash, Running
    <2>3. Rest'
      BY <1>11, <2>2 DEF Crash, Running, PosInList, Awaited, Progress, TokenNeedsWholeChain,
                         PhasesInOrder, Passed
    <2> QED BY <2>1, <2>3
  <1>12. CASE UNCHANGED vars
    <2>1. TypeOK'
      BY <1>12 DEF vars, TypeOK
    <2>2. Rest'
      BY <1>12 DEF vars, PosInList, Awaited, Progress, TokenNeedsWholeChain, PhasesInOrder, Passed
    <2> QED BY <2>1, <2>2
  <1> QED
    BY <1>1, <1>2, <1>3, <1>4, <1>5, <1>6, <1>7, <1>8, <1>9, <1>10, <1>11, <1>12
    DEF Next, Handle

\* The invariant holds throughout.
LEMMA ChainInvariant == Spec => []ChainInv
  BY ChainInit, ChainStep, PTL DEF Spec

----------------------------------------------------------------------------
\* Types, among them: no result is stored without a verdict.
THEOREM TypeCorrect == Spec => []TypeOK
  <1>1. ChainInv => TypeOK
    BY DEF ChainInv
  <1> QED BY ChainInvariant, <1>1, PTL

\* A merge token is issued only to a request with a pass of every gate in the
\* database.
THEOREM TokensNeedWholeChain == Spec => []TokenNeedsWholeChain
  <1>1. ChainInv => TokenNeedsWholeChain
    BY DEF ChainInv
  <1> QED BY ChainInvariant, <1>1, PTL

\* A sequential gate is called only after everything before it has passed.
THEOREM PhasesKeepOrder == Spec => []PhasesInOrder
  <1>1. ChainInv => PhasesInOrder
    BY DEF ChainInv
  <1> QED BY ChainInvariant, <1>1, PTL

----------------------------------------------------------------------------
(* What the database has on a request: the results of a prefix of the chain *)

\* The chain as handle_commit() runs it.
GateChain == Parallel \o Sequential

\* The rows on q are the passes of the first n gates...
PassesUpTo(q, n) ==
  \A i \in 1..Len(GateChain) :
    /\ Passed(q, GateChain[i]) <=> i <= n
    /\ ~Failed(q, GateChain[i])

\* ... or, for a blocked request, those before gate n, and its failure.
FailsAt(q, n) ==
  \A i \in 1..Len(GateChain) :
    /\ Passed(q, GateChain[i]) <=> i < n
    /\ Failed(q, GateChain[i]) <=> i = n

\* How many gates the loops have gone past.
GatesDone(q) == IF pc[q] = "saving" THEN pos[q] - 1
                ELSE IF pc[q] = "phase2" THEN Len(Parallel) + pos[q] - 1 ELSE 0

\* The rows follow the loops: before and in the loops their number is known,
\* afterwards it is whatever the request had come to.
RowsFollowLoops ==
  \A q \in Requests :
    /\ pc[q] \in {"new", "phase1", "saving", "phase2"} => PassesUpTo(q, GatesDone(q))
    /\ pc[q] \notin {"blocked"} => \E n \in 0..Len(GateChain) : PassesUpTo(q, n)
    /\ pc[q] = "blocked" => \E n \in 1..Len(GateChain) : FailsAt(q, n)

\* The chain is the parallel gates and then the sequential ones, each gate in
\* one place.
LEMMA ChainOfGates ==
  /\ Len(GateChain) = Len(Parallel) + Len(Sequential)
  /\ Len(GateChain) \in Nat
  /\ \A i \in 1..Len(Parallel) : GateChain[i] = Parallel[i]
  /\ \A i \in 1..Len(Sequential) : GateChain[Len(Parallel) + i] = Sequential[i]
  /\ \A i \in 1..Len(GateChain) : GateChain[i] \in Gates
  /\ \A i, j \in 1..Len(GateChain) : GateChain[i] = GateChain[j] => i = j
  <1> USE GateLists
  <1>1. Parallel \in Seq(Gates) /\ Sequential \in Seq(Gates)
    BY ChainAssumption DEF ChainAssumption
  <1>2. /\ Len(GateChain) = Len(Parallel) + Len(Sequential)
        /\ Len(GateChain) \in Nat
        /\ \A i \in 1..Len(Parallel) : GateChain[i] = Parallel[i]
    BY <1>1 DEF GateChain
  <1>3. \A i \in 1..Len(Sequential) : GateChain[Len(Parallel) + i] = Sequential[i]
    BY <1>1 DEF GateChain
  <1>4. ASSUME NEW i \in 1..Len(GateChain)
        PROVE  \/ i \in 1..Len(Parallel) /\ GateChain[i] = Parallel[i]
               \/ /\ i - Len(Parallel) \in 1..Len(Sequential)
                  /\ GateChain[i] = Sequential[i - Len(Parallel)]
    <2>1. CASE i <= Len(Parallel)
      BY <1>2, <2>1
    <2>2. CASE i > Len(Parallel)
      <3> DEFINE k == i - Len(Parallel)
      <3>1. k \in 1..Len(Sequential) /\ i = Len(Parallel) + k
        BY <1>2, <2>2
      <3> QED BY <1>3, <3>1
    <2> QED BY <1>2, <2>1, <2>2
  <1>5. \A i \in 1..Len(GateChain) : GateChain[i] \in Gates
    BY <1>4
  <1>6. ASSUME NEW i \in 1..Len(GateChain), NEW j \in 1..Len(GateChain),
               GateChain[i] = GateChain[j]
        PROVE  i = j
    <2>1. ParallelGates \cap SequentialGates = {}
      BY ChainAssumption DEF ChainAssumption
    <2>2. CASE i <= Len(Parallel) /\ j <= Len(Parallel)
      BY <1>2, <1>6, <2>2, ChainAssumption DEF ChainAssumption
    <2>3. CASE i > Len(Parallel) /\ j > Len(Parallel)
      <3>1. /\ i - Len(Parallel) \in 1..Len(Sequential)
            /\ j - Len(Parallel) \in 1..Len(Sequential)
            /\ Sequential[i - Len(Parallel)] = Sequential[j - Len(Parallel)]
        BY <1>4, <1>6, <2>3, <1>2
      <3>2. i - Len(Parallel) = j - Len(Parallel)
        BY <3>1, ChainAssumption DEF ChainAssumption
      <3> QED BY <3>2, <1>2
    <2>4. CASE ~(i <= Len(Parallel) <=> j <= Len(Parallel))
      BY <1>2, <1>4, <1>6, <2>1, <2>4
    <2> QED BY <1>2, <2>2, <2>3, <2>4
  <1> QED BY <1>2, <1>3, <1>5, <1>6

\* The initial states.
LEMMA RowsInit == Init => RowsFollowLoops
  <1> SUFFICES ASSUME Init PROVE RowsFollowLoops
    OBVIOUS
  <1>1. \A q \in Requests : pc[q] = "new" /\ PassesUpTo(q, 0)
    BY DEF Init, PassesUpTo, Passed, Failed
  <1> QED BY <1>1, ChainOfGates DEF RowsFollowLoops, GatesDone

\* A step that writes no row: each request stays, goes on to the first gate of
\* the loop over the responses, or leaves the loops without being blocked.
LEMMA NoRowStep ==
  ASSUME RowsFollowLoops, audit' = audit,
         \A q \in Requests :
           \/ pc'[q] = pc[q] /\ pos'[q] = pos[q]
           \/ pc[q] = "new" /\ pc'[q] = "phase1"
           \/ pc[q] = "phase1" /\ pc'[q] = "saving" /\ pos'[q] = 1
           \/ /\ pc[q] # "blocked"
              /\ pc'[q] \notin {"new", "phase1", "saving", "phase2", "blocked"}
  PROVE  RowsFollowLoops'
  <1> SUFFICES ASSUME NEW q \in Requests
               PROVE /\ pc'[q] \in {"new", "phase1", "saving", "phase2"} => PassesUpTo(q, GatesDone(q))'
                     /\ pc'[q] \notin {"blocked"} => \E n \in 0..Len(GateChain) : PassesUpTo(q, n)'
                     /\ pc'[q] = "blocked" => \E n \in 1..Len(GateChain) : FailsAt(q, n)'
    BY DEF RowsFollowLoops
  <1>1. /\ \A n : PassesUpTo(q, n)' <=> PassesUpTo(q, n)
        /\ \A n : FailsAt(q, n)' <=> FailsAt(q, n)
    BY DEF PassesUpTo, FailsAt, Passed, Failed
  <1>2. pc'[q] \in {"new", "phase1", "saving", "phase2"} =>
          /\ pc[q] \in {"new", "phase1", "saving", "phase2"}
          /\ GatesDone(q)' = GatesDone(q)
    BY DEF GatesDone
  <1>3. pc'[q] \in {"new", "phase1", "saving", "phase2"} => PassesUpTo(q, GatesDone(q))'
    BY <1>1, <1>2 DEF RowsFollowLoops, PassesUpTo, Passed, Failed
  <1>4. pc'[q] \notin {"blocked"} <=> pc[q] \notin {"blocked"}
    OBVIOUS
  <1> QED BY <1>1, <1>3, <1>4 DEF RowsFollowLoops

\* The result of gate k of the chain is saved, k - 1 having passed.
LEMMA RowStep ==
  ASSUME ChainInv, RowsFollowLoops, NEW q \in Requests, NEW k \in 1..Len(GateChain),
         reply[q][GateChain[k]] # "none",
         pc[q] \in {"saving", "phase2"}, GatesDone(q) = k - 1,
         NEW nextPc \in {"saving", "phase2", "issue"}, NEW nextPos \in Nat,
         Save(q, GateChain[k], nextPc, nextPos),
         nextPc = "saving" => nextPos - 1 = k,
         nextPc = "phase2" => Len(Parallel) + nextPos - 1 = k
  PROVE  RowsFollowLoops'
  <1> DEFINE g == GateChain[k]
  <1> USE DEF Save, Goto
  <1>1. g \in Gates /\ PassesUpTo(q, k - 1)
    BY ChainOfGates DEF RowsFollowLoops
  <1>2. \A p \in Requests : p # q => pc'[p] = pc[p] /\ pos'[p] = pos[p]
    BY DEF ChainInv, TypeOK
  <1>3. \A p \in Requests : p # q => \A h : (Passed(p, h)' <=> Passed(p, h)) /\ (Failed(p, h)' <=> Failed(p, h))
    BY DEF Passed, Failed
  <1>4. ASSUME NEW p \in Requests, p # q
        PROVE /\ pc'[p] \in {"new", "phase1", "saving", "phase2"} => PassesUpTo(p, GatesDone(p))'
              /\ pc'[p] \notin {"blocked"} => \E n \in 0..Len(GateChain) : PassesUpTo(p, n)'
              /\ pc'[p] = "blocked" => \E n \in 1..Len(GateChain) : FailsAt(p, n)'
    <2>1. /\ \A n : PassesUpTo(p, n)' <=> PassesUpTo(p, n)
          /\ \A n : FailsAt(p, n)' <=> FailsAt(p, n)
      BY <1>3, <1>4 DEF PassesUpTo, FailsAt
    <2>2. GatesDone(p)' = GatesDone(p) /\ pc'[p] = pc[p]
      BY <1>2, <1>4 DEF GatesDone
    <2>3. pc'[p] \in {"new", "phase1", "saving", "phase2"} => PassesUpTo(p, GatesDone(p))'
      BY <2>1, <2>2, <1>3, <1>4 DEF RowsFollowLoops, PassesUpTo
    <2> QED BY <2>1, <2>2, <2>3 DEF RowsFollowLoops
  <1>5. CASE reply[q][g] = "malformed"
    <2>1. pc'[q] = "error" /\ PassesUpTo(q, k - 1)'
      BY <1>1, <1>5 DEF ChainInv, TypeOK, PassesUpTo, Passed, Failed
    <2>2. \E n \in 0..Len(GateChain) : PassesUpTo(q, n)'
      BY <2>1, ChainOfGates
    <2> QED BY <1>4, <2>1, <2>2 DEF RowsFollowLoops
  <1>6. CASE reply[q][g] = "fail"
    <2>1. pc'[q] = "blocked" /\ audit' = audit \cup {[req |-> q, gate |-> g, status |-> "fail"]}
      BY <1>6 DEF ChainInv, TypeOK
    <2>2. FailsAt(q, k)'
      <3> SUFFICES ASSUME NEW i \in 1..Len(GateChain)
                   PROVE  /\ Passed(q, GateChain[i])' <=> i < k
                          /\ Failed(q, GateChain[i])' <=> i = k
        BY DEF FailsAt
      <3>1. /\ Passed(q, GateChain[i])' <=> Passed(q, GateChain[i])
            /\ Failed(q, GateChain[i])' <=> Failed(q, GateChain[i]) \/ GateChain[i] = g
        BY <2>1 DEF Passed, Failed
      <3>2. GateChain[i] = g <=> i = k
        BY ChainOfGates
      <3>3. Passed(q, GateChain[i]) <=> i <= k - 1
        BY <1>1 DEF PassesUpTo
      <3>4. ~Failed(q, GateChain[i])
        BY <1>1 DEF PassesUpTo
      <3>5. i <= k - 1 <=> i < k
        BY ChainOfGates
      <3> QED BY <3>1, <3>2, <3>3, <3>4, <3>5, Zenon
    <2>3. \E n \in 1..Len(GateChain) : FailsAt(q, n)'
      BY <2>2
    <2> QED BY <1>4, <2>1, <2>3 DEF RowsFollowLoops
  <1>7. CASE reply[q][g] \notin {"malformed", "fail"}
    <2>1. /\ pc'[q] = nextPc /\ pos'[q] = nextPos
          /\ audit' = audit \cup {[req |-> q, gate |-> g, status |-> "pass"]}
      BY <1>1, <1>7 DEF ChainInv, TypeOK, Reply
    <2>2. PassesUpTo(q, k)'
      <3> SUFFICES ASSUME NEW i \in 1..Len(GateChain)
                   PROVE  /\ Passed(q, GateChain[i])' <=> i <= k
                          /\ ~Failed(q, GateChain[i])'
        BY DEF PassesUpTo
      <3>1. /\ Passed(q, GateChain[i])' <=> Passed(q, GateChain[i]) \/ GateChain[i] = g
            /\ Failed(q, GateChain[i])' <=> Failed(q, GateChain[i])
        BY <2>1 DEF Passed, Failed
      <3>2. GateChain[i] = g <=> i = k
        BY ChainOfGates
      <3>3. Passed(q, GateChain[i]) <=> i <= k - 1
        BY <1>1 DEF PassesUpTo
      <3>4. ~Failed(q, GateChain[i])
        BY <1>1 DEF PassesUpTo
      <3>5. i <= k <=> i <= k - 1 \/ i = k
        BY ChainOfGates
      <3> QED BY <3>1, <3>2, <3>3, <3>4, <3>5, Zenon
    <2>3. \E n \in 0..Len(GateChain) : PassesUpTo(q, n)'
      BY <2>2, ChainOfGates
    <2>4. pc'[q] \in {"saving", "phase2"} => GatesDone(q)' = k
      BY <2>1 DEF GatesDone
    <2>5. pc'[q] \in {"new", "phase1", "saving", "phase2"} => PassesUpTo(q, GatesDone(q))'
      BY <2>1, <2>2, <2>4 DEF PassesUpTo
    <2> QED BY <1>4, <2>1, <2>3, <2>5 DEF RowsFollowLoops
  <1> QED BY <1>5, <1>6, <1>7

\* Every step keeps the rows in step with the loops.
LEMMA RowsStep == ChainInv /\ RowsFollowLoops /\ [Next]_vars => RowsFollowLoops'
  <1> SUFFICES ASSUME ChainInv, RowsFollowLoops, [Next]_vars PROVE RowsFollowLoops'
    OBVIOUS
  <1> USE DEF Goto, handlerVars
  <1>1. ASSUME NEW q \in Requests, SaveParallel(q) PROVE RowsFollowLoops'
    <2> DEFINE i == pos[q]
    <2>1. /\ i \in 1..Len(Parallel) /\ pc[q] = "saving"
          /\ reply[q][Parallel[i]] # "none"
      BY <1>1, GateLists DEF SaveParallel, ChainInv, PosInList, Awaited
    <2>2. i \in 1..Len(GateChain) /\ GateChain[i] = Parallel[i] /\ GatesDone(q) = i - 1
      BY <2>1, ChainOfGates, GateLists DEF GatesDone
    <2>3. CASE i < Len(Parallel)
      <3> DEFINE n == i + 1
      <3>1. Save(q, GateChain[i], "saving", n) /\ n \in Nat /\ n - 1 = i
        BY <1>1, <2>1, <2>2, <2>3, GateLists DEF SaveParallel
      <3>2. reply[q][GateChain[i]] # "none" /\ pc[q] \in {"saving", "phase2"}
        BY <2>1, <2>2
      <3> HIDE DEF n, i
      <3> QED BY <2>2, <3>1, <3>2, RowStep
    <2>4. CASE i = Len(Parallel)
      <3>1. Save(q, GateChain[i], "phase2", 1) /\ Len(Parallel) + 1 - 1 = i
        BY <1>1, <2>1, <2>2, <2>4, GateLists DEF SaveParallel
      <3> HIDE DEF i
      <3> QED BY <2>1, <2>2, <3>1, RowStep
    <2> QED BY <2>1, <2>3, <2>4, GateLists
  <1>2. ASSUME NEW q \in Requests, SaveSequential(q) PROVE RowsFollowLoops'
    <2> DEFINE i == pos[q]
               k == Len(Parallel) + i
    <2>1. /\ i \in 1..Len(Sequential) /\ pc[q] = "phase2"
          /\ reply[q][Sequential[i]] # "none"
      BY <1>2 DEF SaveSequential, ChainInv, PosInList
    <2>2. k \in 1..Len(GateChain) /\ GateChain[k] = Sequential[i] /\ GatesDone(q) = k - 1
      BY <2>1, ChainOfGates, GateLists DEF GatesDone
    <2>3. CASE i < Len(Sequential)
      <3> DEFINE n == i + 1
      <3>1. Save(q, GateChain[k], "phase2", n)
        BY <1>2, <2>1, <2>2, <2>3 DEF SaveSequential
      <3>2. n \in Nat /\ Len(Parallel) + n - 1 = k
        BY <2>1, GateLists
      <3>3. reply[q][GateChain[k]] # "none" /\ pc[q] \in {"saving", "phase2"}
        BY <2>1, <2>2
      <3> HIDE DEF n, i, k
      <3> QED BY <2>2, <3>1, <3>2, <3>3, RowStep
    <2>4. CASE i = Len(Sequential)
      <3>1. Save(q, GateChain[k], "issue", i) /\ i \in Nat
        BY <1>2, <2>1, <2>2, <2>4, GateLists DEF SaveSequential
      <3> HIDE DEF i, k
      <3> QED BY <2>1, <2>2, <3>1, RowStep
    <2> QED BY <2>1, <2>3, <2>4, GateLists
  <1> DEFINE Still(q) == pc'[q] = pc[q] /\ pos'[q] = pos[q]
  <1>3. ASSUME NEW q \in Requests,
               Refuse(q) \/ Begin(q) \/ Gathered(q) \/ IssueToken(q) \/ DatabaseError(q)
        PROVE  RowsFollowLoops'
    <2>1. audit' = audit /\ pos' = pos /\ \A p \in Requests : p # q => Still(p)
      BY <1>3 DEF Refuse, Begin, Gathered, IssueToken, DatabaseError, ChainInv, TypeOK
    <2>2. \/ pc[q] = "new" /\ pc'[q] = "phase1"
          \/ pc[q] = "phase1" /\ pc'[q] = "saving" /\ pos'[q] = 1
          \/ pc[q] # "blocked" /\ pc'[q] \in {"refused", "passed", "error"}
      BY <1>3 DEF Refuse, Begin, Gathered, IssueToken, DatabaseError, ChainInv, TypeOK, PosInList
    <2> QED BY <2>1, <2>2, NoRowStep
  <1>4. ASSUME NEW q \in Requests, CallSequential(q) PROVE RowsFollowLoops'
    BY <1>4, NoRowStep DEF CallSequential
  <1>5. ASSUME NEW q \in Requests, NEW g \in Gates, Return(q, g) PROVE RowsFollowLoops'
    BY <1>5, NoRowStep DEF Return, GateRuns, CallFails, ForeignAnswer
  <1>6. ASSUME NEW t \in Trees, Move(t) PROVE RowsFollowLoops'
    BY <1>6, NoRowStep DEF Move
  <1>7. CASE Crash
    BY <1>7, NoRowStep DEF Crash, Running
  <1>8. CASE UNCHANGED vars
    BY <1>8, NoRowStep DEF vars
  <1> QED
    BY <1>1, <1>2, <1>3, <1>4, <1>5, <1>6, <1>7, <1>8 DEF Next, Handle

\* Whatever crashed, failed or interleaved, the rows on a request are the results
\* of a prefix of the chain, all passes but for the last of a blocked one.
THEOREM AuditIsAPrefix == Spec => []AuditIsPrefixOfChain
  <1>1. RowsFollowLoops => AuditIsPrefixOfChain
    <2> SUFFICES ASSUME RowsFollowLoops, NEW q \in Requests
                 PROVE  \E n \in 0..Len(GateChain) : \A i \in 1..Len(GateChain) :
                          /\ Passed(q, GateChain[i]) <=> i < n \/ (i = n /\ pc[q] # "blocked")
                          /\ Failed(q, GateChain[i]) <=> i = n /\ pc[q] = "blocked"
      BY DEF AuditIsPrefixOfChain, GateChain
    <2>1. CASE pc[q] = "blocked"
      <3>1. PICK n \in 1..Len(GateChain) : FailsAt(q, n)
        BY <2>1 DEF RowsFollowLoops
      <3>2. n \in 0..Len(GateChain)
        BY ChainOfGates
      <3> QED BY <2>1, <3>1, <3>2 DEF FailsAt
    <2>2. CASE pc[q] # "blocked"
      <3>1. PICK n \in 0..Len(GateChain) : PassesUpTo(q, n)
        BY <2>2 DEF RowsFollowLoops
      <3>2. \A i \in 1..Len(GateChain) : i <= n <=> i < n \/ i = n
        BY ChainOfGates
      <3> QED BY <2>2, <3>1, <3>2 DEF PassesUpTo
    <2> QED BY <2>1, <2>2
  <1> QED BY ChainInvariant, RowsInit, RowsStep, <1>1, PTL DEF Spec

----------------------------------------------------------------------------
(* The stress gate: the inductive invariant *)

\* A batch is within the cap, and what is pending is of the batch.
BatchTypes == Len(outcome) <= BatchCap /\ pending \subseteq 1..Len(outcome)

\* Requests of the present batch that the endpoint may have met; between two
\* batches, as many as a batch may have.
Met == IF at = "batch" THEN Len(outcome) - Cardinality(pending) ELSE BatchCap

\* A window has met the present batch only, or one batch more and will have ended
\* when the next one may be sent.
BatchesFit ==
  /\ at \in {"idle", "starting"} => remaining = limit
  /\ at \in {"pause", "batch"} /\ window > 0 =>
       \/ remaining + Met >= limit
       \/ remaining + BatchCap + Met >= limit /\ window + age <= 2

\* Looks are a tick apart, so what is left of the window and the looks it has met
\* are together no more than what it began with.
LooksFit ==
  /\ at \in {"idle", "starting", "pause", "batch"} => probes = 0
  /\ at = "look" => probes + window <= 2
  /\ at = "sleep" =>
       /\ probes + window <= 3
       /\ age = 0 => window > 0 \/ probes <= 2
       /\ age >= 1 => probes + window <= 2
  /\ probes <= 3

\* Without a refusal and without a fault, nothing has failed.
NothingFailed ==
  lost = 0 /\ ~refused =>
    /\ at \notin {"idle", "ended"} => up
    /\ status # "error"
    /\ \A i \in 1..Len(outcome) : i \in pending \/ outcome[i] = "ok"
    /\ failed = 0 /\ streak = 0 /\ worst = 0
    /\ \A i \in 1..Len(results) : results[i].failed = 0 /\ ~results[i].cascade

\* The gate judges three phases, and fails a run by that judgement only.
Judged ==
  /\ at \in {"idle", "starting"} => results = <<>>
  /\ at \in {"pause", "batch"} => Len(results) = phase - 1
  /\ at \in {"look", "sleep", "judge"} => Len(results) = 3
  /\ status = "fail" => at = "ended" /\ Len(results) = 3 /\ ~Passes

\* The inductive invariant.
StressInv ==
  /\ StressTypeOK
  /\ BatchTypes
  /\ BatchesFit
  /\ LargeLimitsAreNeverMet
  /\ LooksFit
  /\ NothingFailed
  /\ Judged

----------------------------------------------------------------------------
(* Lemmas about numbers *)

LEMMA HasLeast ==
  ASSUME NEW S \in SUBSET Nat, S # {}
  PROVE  Min(S) \in S /\ \A y \in S : Min(S) <= y
<1> DEFINE R == OpToRel(<, Nat)
<1>1. IsWellFoundedOn(R, Nat)
  BY NatLessThanWellFounded
<1>2. \A x, y \in Nat : x < y => <<x, y>> \in R
  BY DEF OpToRel
<1> HIDE DEF R
<1>3. PICK x \in S : \A y \in S : ~(<<y, x>> \in R)
  BY <1>1, WFMin
<1>4. \A y \in S : x <= y
  <2> TAKE y \in S
  <2>1. x \in Nat /\ y \in Nat
    OBVIOUS
  <2>2. ~(y < x)
    BY <1>2, <1>3, <2>1
  <2>3. QED
    BY <2>1, <2>2
<1>5. QED
  BY <1>4 DEF Min

\* The greatest of numbers that have a bound is as far below it as the least of the
\* distances to it.
LEMMA HasGreatest ==
  ASSUME NEW S \in SUBSET Nat, S # {}, NEW b \in Nat, \A x \in S : x <= b
  PROVE  Max(S) \in S /\ \A y \in S : Max(S) >= y
<1> DEFINE D == {b - x : x \in S}
<1>1. D \in SUBSET Nat /\ D # {}
  <2>1. \A x \in S : b - x \in Nat
    OBVIOUS
  <2>2. QED
    BY <2>1
<1>2. PICK d \in D : \A y \in D : d <= y
  <2> HIDE DEF D
  <2> QED BY <1>1, HasLeast
<1>3. PICK x \in S : d = b - x
  OBVIOUS
<1>4. \A y \in S : x >= y
  <2> TAKE y \in S
  <2>1. b - y \in D
    OBVIOUS
  <2>2. b - x <= b - y
    BY <1>2, <1>3, <2>1
  <2>3. x \in Nat /\ y \in Nat
    OBVIOUS
  <2>4. QED
    BY <2>2, <2>3
<1>5. QED
  BY <1>4 DEF Max

\* A batch has at least one request and no more than the cap.
LEMMA BatchIsCapped ==
  ASSUME limit \in Nat \ {0}, NEW p \in 1..3
  PROVE  Batch(p) \in 1..BatchCap
<1>1. limit * Percent[p] \in Nat
  BY StressAssumption DEF StressAssumption
<1>2. (limit * Percent[p]) \div 100 \in Nat
  BY <1>1
<1>3. Target(p) \in Nat \ {0}
  <2> DEFINE d == (limit * Percent[p]) \div 100
             T == {1, d}
  <2>1. T \in SUBSET Nat /\ T # {} /\ 1 \in T /\ d + 1 \in Nat /\ \A x \in T : x <= d + 1
    BY <1>2
  <2>2. Target(p) = Max(T)
    BY DEF Target
  <2> HIDE DEF T, d
  <2>3. Max(T) \in Nat /\ Max(T) >= 1
    BY <2>1, HasGreatest
  <2>4. QED
    BY <2>2, <2>3
<1>4. QED
  <2>1. {Target(p), BatchCap} \in SUBSET Nat
    BY <1>3, StressAssumption DEF StressAssumption
  <2> HIDE DEF Target
  <2>2. Min({Target(p), BatchCap}) \in {Target(p), BatchCap}
        /\ Min({Target(p), BatchCap}) <= BatchCap
    BY <2>1, HasLeast
  <2>3. QED
    BY <1>3, <2>2, StressAssumption DEF Batch, StressAssumption

\* A run of failures is a number, no greater than the batch allows.
LEMMA RunIsNumber ==
  ASSUME streak \in Nat, NEW n \in Nat
  PROVE  Run(n) \in 0..(n + streak)
<1> DEFINE since == {m \in 0..n : \A i \in (m + 1)..n : outcome[i] # "ok"}
<1>1. n \in since /\ since \in SUBSET Nat
  OBVIOUS
<1>2. Min(since) \in 0..n
  <2>1. Min(since) \in since
    <3> HIDE DEF since
    <3> QED BY <1>1, HasLeast
  <2> QED BY <2>1
<1>3. Run(n) = n - Min(since) + (IF 0 \in since THEN streak ELSE 0)
  BY DEF Run
<1> HIDE DEF since
<1>4. QED
  BY <1>2, <1>3

\* Where all of a batch has succeeded, there is no run.
LEMMA NoRun ==
  ASSUME streak = 0, NEW n \in Nat, \A i \in 1..n : outcome[i] = "ok"
  PROVE  Run(n) = 0
<1> DEFINE since == {m \in 0..n : \A i \in (m + 1)..n : outcome[i] # "ok"}
<1>1. since = {n}
  <2>1. ASSUME NEW m \in since PROVE m = n
    <3>1. CASE m < n
      <4>1. m + 1 \in (m + 1)..n /\ m + 1 \in 1..n
        BY <3>1
      <4> QED BY <4>1
    <3> QED BY <3>1
  <2> QED BY <2>1
<1>2. Min(since) = n
  <2>1. since \in SUBSET Nat /\ since # {}
    BY <1>1
  <2> HIDE DEF since
  <2> QED BY <1>1, <2>1, HasLeast
<1>3. Run(n) = n - Min(since) + (IF 0 \in since THEN streak ELSE 0)
  BY DEF Run
<1> HIDE DEF since
<1>4. QED
  BY <1>2, <1>3

\* What the endpoint does with a request, whoever sends it.
LEMMA EndpointTypes ==
  ASSUME StressTypeOK, Process
  PROVE  /\ limit' = limit /\ up' = up /\ up
         /\ remaining' \in 0..limit' /\ window' \in 1..2
  BY StressAssumption DEF StressAssumption, StressTypeOK, Process, Available, Served,
         WindowEnd, Window

\* A fault is one more, and no more than the bound.
LEMMA LostIsBounded ==
  ASSUME StressTypeOK, lost < MaxLost, lost' = lost + 1
  PROVE  lost' \in 0..MaxLost
  BY StressAssumption DEF StressAssumption, StressTypeOK

\* A number that is capped.
LEMMA LesserOfTwo ==
  ASSUME NEW x \in Nat, NEW y \in Nat
  PROVE  Min({x, y}) \in 0..y
<1> DEFINE T == {x, y}
<1>1. T \in SUBSET Nat /\ T # {} /\ y \in T
  OBVIOUS
<1> HIDE DEF T
<1>2. Min(T) \in Nat /\ Min(T) <= y
  BY <1>1, HasLeast
<1>3. QED
  BY <1>2 DEF T

LEMMA ServedIsBoolean == Served \in BOOLEAN
  BY DEF Served

\* The failures a batch adds.
LEMMA CollectTypes ==
  ASSUME StressTypeOK, Collect
  PROVE  /\ {sent', failed', streak', worst'} \subseteq Nat
         /\ outcome' = <<>>
<1>1. {sent, failed, streak, worst} \subseteq Nat /\ Len(outcome) \in Nat
  BY DEF StressTypeOK
<1>2. streak' \in Nat
  BY <1>1, RunIsNumber DEF Collect
<1>3. worst' \in Nat
  <2> DEFINE S == {worst} \cup {Run(n) : n \in 1..Len(outcome)}
  <2>1. \A n \in 1..Len(outcome) : Run(n) \in 0..(Len(outcome) + streak)
    <3> TAKE n \in 1..Len(outcome)
    <3>1. n \in Nat /\ streak \in Nat /\ n <= Len(outcome)
      BY <1>1
    <3>2. Run(n) \in 0..(n + streak)
      BY <3>1, RunIsNumber
    <3> QED
      BY <1>1, <3>1, <3>2
  <2>2. S \in SUBSET Nat /\ S # {}
    BY <1>1, <2>1
  <2>3. \A x \in S : x <= worst + Len(outcome) + streak
    BY <1>1, <2>1
  <2>4. worst' = Max(S) /\ worst + Len(outcome) + streak \in Nat
    BY <1>1 DEF Collect
  <2> HIDE DEF S
  <2>5. QED
    BY <2>2, <2>3, <2>4, HasGreatest
<1>4. failed' \in Nat
  <2> DEFINE F == {i \in 1..Len(outcome) : outcome[i] # "ok"}
  <2>1. IsFiniteSet(1..Len(outcome))
    BY <1>1, FS_Interval
  <2>2. IsFiniteSet(F)
    BY <2>1, FS_Subset
  <2>3. Cardinality(F) \in Nat
    BY <2>2, FS_CardinalityType
  <2>4. failed' = failed + Cardinality(F)
    BY DEF Collect
  <2>5. QED
    BY <1>1, <2>3, <2>4
<1>5. sent' \in Nat /\ outcome' = <<>>
  BY <1>1 DEF Collect
<1>6. QED
  BY <1>2, <1>3, <1>4, <1>5

\* A batch begins with no outcome of any request.
LEMMA NewOutcomes ==
  ASSUME NEW n \in Nat
  PROVE  LET new == [i \in 1..n |-> "none"] IN new \in Seq(Outcomes) /\ Len(new) = n
<1> DEFINE new == [i \in 1..n |-> "none"]
<1>1. DOMAIN new = 1..n /\ \A i \in 1..n : new[i] \in Outcomes
  BY DEF Outcomes
<1>2. new \in Seq(Outcomes) /\ Len(new) = n
  BY <1>1, SMT
<1>3. QED
  BY <1>2

\* One by one, what may happen.
LEMMA StressSteps ==
  ASSUME StressNext
  PROVE  \/ Skip \/ Start \/ Ready \/ StartFails
         \/ Send \/ Collect \/ EndPhase
         \/ Look \/ LookFails \/ LookAgain \/ GiveUp \/ Judge
         \/ Dies \/ Tick
         \/ \E i \in pending : Answer(i) \/ NoAnswer(i) \/ Refusal(i)
  BY DEF StressNext, Step

LEMMA StressTypes ==
  ASSUME StressTypeOK, BatchTypes, [StressNext]_stressVars
  PROVE  (StressTypeOK /\ BatchTypes)'
<1> USE StressAssumption DEF BatchTypes, StressTypeOK, emulator, batch, phases, end,
            history, StressAssumption, Window, Pace
<1>1. CASE UNCHANGED stressVars
  BY <1>1 DEF stressVars
<1>2. CASE Skip
  BY <1>2 DEF Skip, Finish
<1>3. CASE Start
  BY <1>3 DEF Start
<1>4. CASE Ready
  BY <1>4, EndpointTypes DEF Ready, BeginPhase, Pace
<1>5. CASE StartFails
  BY <1>5, LostIsBounded DEF StartFails, Finish
<1>6. CASE Send
  <2>1. phase \in 1..3 /\ limit \in Nat \ {0}
    OBVIOUS
  <2>2. Batch(phase) \in 1..BatchCap
    BY <2>1, BatchIsCapped
  <2>3. outcome' \in Seq(Outcomes) /\ Len(outcome') = Batch(phase)
    <3>1. outcome' = [i \in 1..Batch(phase) |-> "none"]
      BY <1>6 DEF Send
    <3>2. Batch(phase) \in Nat
      BY <2>2
    <3>3. QED
      BY <3>1, <3>2, NewOutcomes
  <2>4. pending' = 1..Batch(phase)
    BY <1>6 DEF Send
  <2> QED
    BY SMTT(30), <1>6, <2>2, <2>3, <2>4 DEF Send, Pace
<1>7. CASE Collect
  BY <1>7, CollectTypes DEF Collect
<1>8. CASE EndPhase
  <2>1. Metrics \in [sent : Nat, failed : Nat, cascade : BOOLEAN]
    BY DEF Metrics
  <2>2. results' \in Seq([sent : Nat, failed : Nat, cascade : BOOLEAN])
    BY <1>8, <2>1 DEF EndPhase
  <2>3. CASE phase < 3
    BY SMTT(30), <1>8, <2>2, <2>3 DEF EndPhase, BeginPhase
  <2>4. CASE ~(phase < 3)
    BY <1>8, <2>2, <2>4 DEF EndPhase
  <2> QED
    BY <2>3, <2>4
<1>9. CASE Look
  <2>1. limit' = limit /\ up' = up /\ remaining' \in 0..limit' /\ window' \in 0..2
    BY <1>9, EndpointTypes DEF Look
  <2>2. at' \in {"judge", "sleep"} /\ recovery' \in {recovery, clock} /\ recovered' \in BOOLEAN
    BY <1>9, ServedIsBoolean DEF Look, Recovers
  <2> QED
    BY <1>9, <2>1, <2>2 DEF Look
<1>10. CASE LookFails
  <2>1. lost' \in 0..MaxLost
    BY <1>10, LostIsBounded DEF LookFails
  <2> QED
    BY <1>10, <2>1 DEF LookFails
<1>11. CASE LookAgain
  BY <1>11 DEF LookAgain
<1>12. CASE GiveUp
  BY <1>12 DEF GiveUp, Recovers
<1>13. CASE Judge
  BY <1>13 DEF Judge, Finish
<1>14. CASE Dies
  BY <1>14, LostIsBounded DEF Dies
<1>15. CASE Tick
  <2>1. age + 1 \in Nat /\ 2 \in Nat /\ clock + 1 \in Nat /\ RecoveryTime + 1 \in Nat
    OBVIOUS
  <2> HIDE DEF StressTypeOK, StressAssumption
  <2>2. Min({age + 1, 2}) \in 0..2
    BY <2>1, LesserOfTwo
  <2>3. Min({clock + 1, RecoveryTime + 1}) \in 0..(RecoveryTime + 1)
    BY <2>1, LesserOfTwo
  <2> QED
    BY <1>15, <2>2, <2>3, SMTT(30), StressAssumption
       DEF Tick, Down, StressTypeOK, StressAssumption
<1>16. ASSUME NEW i \in pending, Answer(i) \/ NoAnswer(i) \/ Refusal(i)
       PROVE  (StressTypeOK /\ BatchTypes)'
  <2>1. PICK o \in {"ok", "refused", "lost"} : Outcome(i, o)
    BY <1>16 DEF Answer, NoAnswer, Refusal
  <2>2. outcome' \in Seq(Outcomes) /\ Len(outcome') = Len(outcome)
    BY <2>1 DEF Outcome, Outcomes
  <2>3. /\ limit' = limit /\ up' \in BOOLEAN /\ remaining' \in 0..limit' /\ window' \in 0..2
    <3>1. Process \/ UNCHANGED emulator
      BY <1>16 DEF Answer, NoAnswer, Refusal
    <3>2. CASE Process
      BY <3>2, EndpointTypes
    <3>3. CASE UNCHANGED emulator
      BY <3>3
    <3> QED
      BY <3>1, <3>2, <3>3
  <2>4. refused' \in BOOLEAN
    BY <1>16, ServedIsBoolean DEF Answer, NoAnswer, Refusal
  <2>5. lost' \in 0..MaxLost
    BY <1>16, LostIsBounded DEF Answer, NoAnswer, Refusal
  <2>6. pending' \subseteq pending /\ UNCHANGED <<at, age, phases, end, probes, recovered>>
    BY <2>1 DEF Outcome
  <2>7. BatchTypes'
    BY <2>2, <2>6
  <2>8. StressTypeOK'
    <3> HIDE DEF BatchTypes
    <3>1. UNCHANGED <<at, age, phase, left, sent, failed, streak, worst, results, clock, recovery,
                      status, probes, recovered>>
      BY <2>6
    <3> HIDE DEF phases, end, history, emulator, batch
    <3> QED
      BY <2>2, <2>3, <2>4, <2>5, <2>6, <3>1
  <2> QED
    BY <2>7, <2>8
<1>17. QED
  BY <1>1, <1>2, <1>3, <1>4, <1>5, <1>6, <1>7, <1>8, <1>9, <1>10, <1>11, <1>12, <1>13, <1>14,
     <1>15, <1>16, StressSteps

----------------------------------------------------------------------------
(* Windows and batches *)

LEMMA StressNumbers ==
  ASSUME StressTypeOK, BatchTypes
  PROVE  /\ limit \in Nat \ {0} /\ remaining \in 0..limit /\ BatchCap \in Nat \ {0}
         /\ window \in 0..2 /\ age \in 0..2 /\ Len(outcome) \in 0..BatchCap
         /\ outcome \in Seq(Outcomes) /\ probes \in Nat /\ phase \in 1..3
  BY StressAssumption DEF StressAssumption, StressTypeOK, BatchTypes, Window, Pace

\* The requests that have no outcome are some of the batch.
LEMMA PendingCount ==
  ASSUME BatchTypes, Len(outcome) \in Nat
  PROVE  /\ IsFiniteSet(pending) /\ Cardinality(pending) \in 0..Len(outcome)
         /\ pending = {} => Cardinality(pending) = 0
         /\ \A i \in pending : /\ Cardinality(pending \ {i}) = Cardinality(pending) - 1
                               /\ Cardinality(pending) >= 1
<1>1. IsFiniteSet(1..Len(outcome)) /\ Cardinality(1..Len(outcome)) = Len(outcome)
  BY FS_Interval
<1>2. IsFiniteSet(pending) /\ Cardinality(pending) <= Len(outcome)
  BY <1>1, FS_Subset DEF BatchTypes
<1>3. QED
  BY <1>2, FS_CardinalityType, FS_EmptySet, FS_RemoveElement

\* A request that the endpoint meets, in terms of the window.
LEMMA Meeting ==
  ASSUME Process, limit \in Nat \ {0}, remaining \in 0..limit, window \in 0..2
  PROVE  /\ window = 0 => Served /\ window' = 2 /\ remaining' = limit - 1
         /\ window > 0 => /\ window' = window
                          /\ Served <=> remaining > 0
                          /\ remaining' = IF remaining > 0 THEN remaining - 1 ELSE 0
  BY DEF Process, Available, Served, WindowEnd, Window

LEMMA TickAge ==
  ASSUME age \in 0..2, Tick
  PROVE  age' \in 1..2 /\ age' <= age + 1
<1> DEFINE T == {age + 1, 2}
<1>1. T \in SUBSET Nat /\ T # {} /\ 2 \in T /\ age + 1 \in T /\ \A x \in T : x >= 1
  OBVIOUS
<1>2. age' = Min(T)
  BY DEF Tick, Pace
<1> HIDE DEF T
<1>3. Min(T) \in Nat /\ Min(T) <= 2 /\ Min(T) <= age + 1 /\ Min(T) >= 1
  BY <1>1, HasLeast
<1>4. QED
  BY <1>2, <1>3

\* A tick takes from the window what it adds to the age, at least.
LEMMA TickFits ==
  \A w, a, w2, a2 \in Nat :
    /\ w2 = (IF w = 0 THEN 0 ELSE w - 1) /\ a2 <= a + 1
    => (w2 > 0 => w > 0 /\ w2 + a2 <= w + a)
  OBVIOUS

\* A request takes one from the window, at most, and one from the batch.
LEMMA RequestFits ==
  \A l, b, r, m, r2, m2 \in Nat :
    r2 >= r - 1 /\ m2 = m + 1
    => /\ r + m >= l => r2 + m2 >= l
       /\ r + b + m >= l => r2 + b + m2 >= l
  OBVIOUS

LEMMA BatchesStep ==
  ASSUME StressTypeOK, BatchTypes, BatchesFit, [StressNext]_stressVars
  PROVE  BatchesFit'
<1> DEFINE c == Cardinality(pending)
<1>0. /\ limit \in Nat \ {0} /\ remaining \in 0..limit /\ BatchCap \in Nat \ {0}
      /\ window \in 0..2 /\ age \in 0..2 /\ Len(outcome) \in 0..BatchCap /\ c \in 0..Len(outcome)
  BY StressNumbers, PendingCount
<1>1. CASE UNCHANGED <<limit, remaining, window, at, pending, outcome, age>>
  BY <1>1 DEF BatchesFit, Met
<1>2. CASE at' \notin {"idle", "starting", "pause", "batch"}
  BY <1>2 DEF BatchesFit
<1>3. CASE Start
  BY <1>3 DEF Start, BatchesFit
<1>4. CASE Ready
  <2>1. at = "starting" /\ at' = "pause" /\ limit' = limit
    BY <1>4 DEF Ready, BeginPhase, Process
  <2>2. remaining = limit /\ remaining' = limit - 1
    BY <1>0, <1>4, <2>1, Meeting DEF BatchesFit, Ready
  <2> QED
    BY <1>0, <2>1, <2>2 DEF BatchesFit, Met
<1>5. CASE Send
  <2>1. /\ at = "pause" /\ at' = "batch" /\ age = 2 /\ age' = 0
        /\ limit' = limit /\ remaining' = remaining /\ window' = window
    BY <1>0, <1>5 DEF Send, Pace, emulator
  <2>2. Batch(phase) \in 1..BatchCap
    BY StressNumbers, BatchIsCapped
  <2>3. Len(outcome') = Batch(phase) /\ pending' = 1..Batch(phase)
    BY <1>5, <2>2 DEF Send
  <2>4. Cardinality(pending') = Len(outcome')
    BY <2>2, <2>3, FS_Interval
  <2>5. Met' = 0 /\ Met = BatchCap
    BY <2>1, <2>2, <2>3, <2>4 DEF Met
  <2>6. window > 0 => remaining + BatchCap >= limit
    BY <1>0, <2>1, <2>5 DEF BatchesFit
  <2> QED
    BY <1>0, <2>1, <2>5, <2>6 DEF BatchesFit
<1>6. CASE Collect
  <2>1. at = "batch" /\ at' = "pause" /\ UNCHANGED <<limit, remaining, window, age>> /\ c = 0
    BY <1>0, <1>6, PendingCount DEF Collect, emulator
  <2>2. Met <= BatchCap /\ Met \in Nat /\ Met' = BatchCap
    BY <1>0, <2>1 DEF Met
  <2> QED
    BY <1>0, <2>1, <2>2 DEF BatchesFit
<1>7. CASE EndPhase /\ at' = "pause"
  BY <1>7 DEF EndPhase, BeginPhase, emulator, BatchesFit, Met
<1>8. CASE Tick
  <2>1. UNCHANGED <<limit, remaining, at, pending, outcome>> /\ window' = Down(window)
    BY <1>8 DEF Tick
  <2>2. age' \in 1..2 /\ age' <= age + 1
    BY <1>0, <1>8, TickAge
  <2>3. Met' = Met /\ Met \in Nat
    BY <1>0, <2>1 DEF Met
  <2>4. {window, age, window', age'} \subseteq Nat
    BY <1>0, <2>1, <2>2 DEF Down
  <2>5. window' > 0 => window > 0 /\ window' + age' <= window + age
    BY <2>1, <2>2, <2>4, TickFits DEF Down
  <2>6. CASE window' > 0 /\ at \in {"pause", "batch"}
    <3>1. \/ remaining + Met >= limit
          \/ remaining + BatchCap + Met >= limit /\ window + age <= 2
      BY <2>5, <2>6 DEF BatchesFit
    <3>2. \A w, a, w2, a2 \in Nat : w2 + a2 <= w + a /\ w + a <= 2 => w2 + a2 <= 2
      OBVIOUS
    <3>3. window + age <= 2 => window' + age' <= 2
      BY <2>4, <2>5, <2>6, <3>2
    <3> QED
      BY <2>1, <2>3, <2>6, <3>1, <3>3 DEF BatchesFit
  <2> QED
    BY <1>0, <2>1, <2>6 DEF BatchesFit, Down
<1>9. ASSUME NEW i \in pending, Answer(i) \/ NoAnswer(i) \/ Refusal(i)
      PROVE  BatchesFit'
  <2>1. /\ at = "batch" /\ at' = "batch" /\ age' = age /\ pending' = pending \ {i}
        /\ Len(outcome') = Len(outcome)
    BY <1>9, StressNumbers DEF Answer, NoAnswer, Refusal, Outcome
  <2>2. Cardinality(pending') = c - 1 /\ c >= 1
    BY <1>0, <2>1, PendingCount
  <2>3. Met' = Met + 1 /\ Met \in Nat
    BY <1>0, <2>1, <2>2 DEF Met
  <2>4. CASE Process
    <3>1. limit' = limit
      BY <2>4 DEF Process
    <3>2. CASE window = 0
      <4>1. remaining' = limit - 1
        BY <1>0, <2>4, <3>2, Meeting
      <4> QED
        BY <1>0, <2>1, <2>3, <3>1, <4>1 DEF BatchesFit
    <3>3. CASE window > 0
      <4>1. window' = window /\ remaining' \in Nat /\ remaining' >= remaining - 1
        BY <1>0, <2>4, <3>3, Meeting
      <4>2. \/ remaining + Met >= limit
            \/ remaining + BatchCap + Met >= limit /\ window + age <= 2
        BY <2>1, <3>3 DEF BatchesFit
      <4>3. {limit, BatchCap, remaining, Met, remaining', Met'} \subseteq Nat
        BY <1>0, <2>3, <4>1
      <4>4. \/ remaining' + Met' >= limit'
            \/ remaining' + BatchCap + Met' >= limit' /\ window + age <= 2
        BY <2>3, <3>1, <4>1, <4>2, <4>3, RequestFits
      <4> QED
        BY <2>1, <4>1, <4>4 DEF BatchesFit
    <3> QED
      BY <1>0, <3>2, <3>3
  <2>5. CASE UNCHANGED emulator
    BY <1>0, <2>1, <2>3, <2>5 DEF emulator, BatchesFit
  <2> QED
    BY <1>9, <2>4, <2>5 DEF Answer, NoAnswer, Refusal
<1>10. Skip \/ StartFails \/ Look \/ LookFails \/ LookAgain
       \/ GiveUp \/ Judge => at' \notin {"idle", "starting", "pause", "batch"}
  BY DEF Skip, StartFails, Look, LookFails, LookAgain,
         GiveUp, Judge, Finish, Recovers
<1>11. EndPhase => at' \in {"pause", "look"}
  BY DEF EndPhase, BeginPhase
<1>12. Dies \/ UNCHANGED stressVars
       => UNCHANGED <<limit, remaining, window, at, pending, outcome, age>>
  BY DEF Dies, stressVars, emulator, batch
<1>13. QED
  BY <1>1, <1>2, <1>3, <1>4, <1>5, <1>6, <1>7, <1>8, <1>9, <1>10, <1>11, <1>12, StressSteps

\* With a limit of two batches, the window is never empty when a request comes.
LEMMA LargeStep ==
  ASSUME StressTypeOK, BatchTypes, BatchesFit,
         LargeLimitsAreNeverMet, [StressNext]_stressVars
  PROVE  LargeLimitsAreNeverMet'
<1>0. /\ limit \in Nat \ {0} /\ remaining \in 0..limit /\ BatchCap \in Nat \ {0}
      /\ window \in 0..2 /\ Len(outcome) \in 0..BatchCap
  BY StressNumbers
<1>1. limit' = limit
  BY StressSteps
     DEF Skip, Start, Ready, StartFails, Send, Collect,
         EndPhase, Look, LookFails, LookAgain, GiveUp, Judge,
         Dies, Tick, Answer, NoAnswer, Refusal, Process,
         emulator, stressVars
<1>2. ASSUME NEW i \in pending, Answer(i), limit >= 2 * BatchCap PROVE Served
  <2>1. at = "batch" /\ Process
    BY <1>2 DEF Answer
  <2>2. Cardinality(pending) \in 1..Len(outcome)
    <3>1. Len(outcome) \in Nat /\ i \in pending
      BY <1>0, <1>2
    <3>2. Cardinality(pending) \in 0..Len(outcome) /\ Cardinality(pending) >= 1
      BY <3>1, PendingCount
    <3> QED
      BY <3>1, <3>2
  <2>3. Met \in Nat /\ Met < BatchCap
    <3>1. \A n, b \in Nat : \A k \in 1..n : n <= b => n - k \in Nat /\ n - k < b
      OBVIOUS
    <3>2. Met = Len(outcome) - Cardinality(pending)
      BY <2>1 DEF Met
    <3> QED
      BY <1>0, <2>2, <3>1, <3>2
  <2>4. CASE window = 0
    BY <1>0, <2>1, <2>4, Meeting
  <2>5. CASE window > 0
    <3>1. remaining + Met >= limit \/ remaining + BatchCap + Met >= limit
      BY <2>1, <2>5 DEF BatchesFit
    <3>2. remaining > 0
      BY <1>0, <1>2, <2>3, <3>1
    <3> QED
      BY <1>0, <2>1, <2>5, <3>2, Meeting
  <2> QED
    BY <1>0, <2>4, <2>5
<1>3. ASSUME limit >= 2 * BatchCap, ~refused PROVE ~refused'
  <2>1. ASSUME NEW i \in pending, Answer(i) PROVE ~refused'
    <3>1. Served
      BY <1>2, <1>3, <2>1
    <3>2. refused' = (refused \/ ~Served)
      BY <2>1 DEF Answer
    <3> QED
      BY <1>3, <3>1, <3>2
  <2>2. ~(\E i \in pending : Answer(i)) => refused' = refused
    BY StressSteps
       DEF Skip, Start, Ready, StartFails, Send, Collect,
           EndPhase, Look, LookFails, LookAgain, GiveUp,
           Judge, Dies, Tick, NoAnswer, Refusal, Outcome,
           history, stressVars
  <2> QED
    BY <1>3, <2>1, <2>2
<1>4. QED
  BY <1>1, <1>3 DEF LargeLimitsAreNeverMet

----------------------------------------------------------------------------
(* Windows and looks *)

LEMMA TickLooks ==
  \A p, w, a, w2 \in Nat :
    /\ p + w <= 3 /\ (a = 0 => w > 0 \/ p <= 2) /\ (a >= 1 => p + w <= 2)
    /\ w2 = (IF w = 0 THEN 0 ELSE w - 1)
    => p + w2 <= 2 /\ p + w2 <= 3
  OBVIOUS

LEMMA LooksStep ==
  ASSUME StressTypeOK, BatchTypes, LooksFit, [StressNext]_stressVars
  PROVE  LooksFit'
<1>0. /\ limit \in Nat \ {0} /\ remaining \in 0..limit /\ window \in 0..2 /\ age \in 0..2
      /\ probes \in Nat
  BY StressNumbers
<1>1. CASE UNCHANGED <<window, at, age, probes>>
  BY <1>1 DEF LooksFit
<1>2. CASE /\ at \in {"idle", "starting", "pause", "batch"} /\ probes' = probes
           /\ at' \notin {"look", "sleep"}
  BY <1>0, <1>2 DEF LooksFit
<1>3. CASE EndPhase
  <2>1. at = "pause" /\ UNCHANGED <<window, probes>> /\ at' \in {"pause", "look"}
    BY <1>3 DEF EndPhase, BeginPhase, emulator, history
  <2> QED
    BY <1>0, <2>1 DEF LooksFit
<1>4. CASE Look
  <2>1. at = "look" /\ Process /\ probes' = probes + 1 /\ age' = 0
    BY <1>4 DEF Look
  <2>2. probes + window <= 2 /\ probes <= 2
    BY <1>0, <2>1 DEF LooksFit
  <2>3. CASE Served
    <3>1. at' = "judge"
      BY <1>4, <2>3 DEF Look, Recovers
    <3> QED
      BY <1>0, <2>1, <2>2, <3>1 DEF LooksFit
  <2>4. CASE ~Served
    <3>1. at' = "sleep" /\ window > 0 /\ window' = window
      BY <1>0, <1>4, <2>1, <2>4, Meeting DEF Look
    <3> QED
      BY <1>0, <2>1, <2>2, <3>1 DEF LooksFit
  <2> QED
    BY <2>3, <2>4
<1>5. CASE LookFails
  <2>1. at = "look" /\ at' = "sleep" /\ age' = 0 /\ UNCHANGED <<window, probes>>
    BY <1>5 DEF LookFails, emulator
  <2> QED
    BY <1>0, <2>1 DEF LooksFit
<1>6. CASE LookAgain
  <2>1. at = "sleep" /\ at' = "look" /\ age >= 1 /\ UNCHANGED <<window, probes>>
    BY <1>6 DEF LookAgain, Poll, emulator, history
  <2> QED
    BY <1>0, <2>1 DEF LooksFit
<1>7. CASE at' \in {"judge", "ended"} /\ probes' = probes
  BY <1>7 DEF LooksFit
<1>8. CASE Tick
  <2>1. at' = at /\ probes' = probes /\ window' = (IF window = 0 THEN 0 ELSE window - 1)
    BY <1>8 DEF Tick, history, Down
  <2>2. age' \in 1..2 /\ window' \in Nat /\ window' <= window
    BY <1>0, <1>8, <2>1, TickAge
  <2>3. CASE at = "look"
    <3>1. \A p, w, w2 \in Nat : p + w <= 2 /\ w2 <= w => p + w2 <= 2
      OBVIOUS
    <3>2. probes' + window' <= 2
      BY <1>0, <2>1, <2>2, <2>3, <3>1 DEF LooksFit
    <3> QED
      BY <2>1, <2>3, <3>2 DEF LooksFit
  <2>4. CASE at = "sleep"
    <3>1. probes' + window' <= 2 /\ probes' + window' <= 3
      BY <1>0, <2>1, <2>2, <2>4, TickLooks DEF LooksFit
    <3>2. age' # 0
      BY <2>2
    <3> QED
      BY <2>1, <2>4, <3>1, <3>2 DEF LooksFit
  <2>5. CASE at \notin {"look", "sleep"}
    BY <2>1, <2>5 DEF LooksFit
  <2> QED
    BY <2>3, <2>4, <2>5
<1>9. ASSUME NEW i \in pending, Answer(i) \/ NoAnswer(i) \/ Refusal(i)
      PROVE  at = "batch" /\ at' = at /\ probes' = probes
  BY <1>9 DEF Answer, NoAnswer, Refusal, Outcome
<1>10. Skip \/ Start \/ Ready \/ StartFails \/ Send
       \/ Collect
       => /\ at \in {"idle", "starting", "pause", "batch"} /\ probes' = probes
          /\ at' \notin {"look", "sleep"}
  BY DEF Skip, Start, Ready, StartFails, Send, Collect,
         Finish, BeginPhase, history
<1>11. GiveUp \/ Judge => at' \in {"judge", "ended"} /\ probes' = probes
  BY DEF GiveUp, Judge, Finish, Recovers, history
<1>12. Dies \/ UNCHANGED stressVars => UNCHANGED <<window, at, age, probes>>
  BY DEF Dies, stressVars, emulator, batch, history
<1>13. QED
  BY <1>1, <1>2, <1>3, <1>4, <1>5, <1>6, <1>7, <1>8, <1>9, <1>10, <1>11, <1>12, StressSteps

----------------------------------------------------------------------------
(* Failures and the verdict *)

\* A batch that all succeeded adds none.
LEMMA CollectClean ==
  ASSUME StressTypeOK, Collect, failed = 0, streak = 0, worst = 0,
         \A i \in 1..Len(outcome) : outcome[i] = "ok"
  PROVE  failed' = 0 /\ streak' = 0 /\ worst' = 0
<1>1. Len(outcome) \in Nat
  BY DEF StressTypeOK
<1>2. \A n \in 0..Len(outcome) : Run(n) = 0
  <2> TAKE n \in 0..Len(outcome)
  <2>1. n \in Nat /\ \A i \in 1..n : outcome[i] = "ok"
    BY <1>1
  <2> QED
    BY <2>1, NoRun
<1>3. {i \in 1..Len(outcome) : outcome[i] # "ok"} = {}
  OBVIOUS
<1>4. Cardinality({}) = 0
  BY FS_EmptySet
<1>5. failed' = 0 /\ streak' = 0
  <2>1. failed' = failed + Cardinality({i \in 1..Len(outcome) : outcome[i] # "ok"})
        /\ streak' = Run(Len(outcome))
    BY DEF Collect
  <2>2. failed' = 0 + 0
    BY <1>3, <1>4, <2>1
  <2>3. Len(outcome) \in 0..Len(outcome)
    BY <1>1
  <2> QED
    BY <1>2, <2>1, <2>2, <2>3
<1>6. worst' = 0
  <2> DEFINE S == {worst} \cup {Run(n) : n \in 1..Len(outcome)}
  <2>1. S = {0}
    BY <1>1, <1>2
  <2>2. worst' = Max(S)
    BY DEF Collect
  <2> HIDE DEF S
  <2>3. S \in SUBSET Nat /\ S # {} /\ \A x \in S : x <= 0
    BY <2>1
  <2>4. Max(S) \in S
    BY <2>3, HasGreatest
  <2> QED
    BY <2>1, <2>2, <2>4
<1>7. QED
  BY <1>5, <1>6

\* A fault stays counted and a refusal remembered.
LEMMA MemoryStep ==
  ASSUME StressTypeOK, [StressNext]_stressVars, lost' = 0, ~refused'
  PROVE  lost = 0 /\ ~refused
<1>1. lost' = lost \/ lost' = lost + 1
  BY StressSteps
     DEF Skip, Start, Ready, StartFails, Send, Collect,
         EndPhase, Look, LookFails, LookAgain, GiveUp, Judge,
         Dies, Tick, Answer, NoAnswer, Refusal,
         history, stressVars
<1>2. refused' = refused \/ refused' = (refused \/ ~Served)
  BY StressSteps
     DEF Skip, Start, Ready, StartFails, Send, Collect,
         EndPhase, Look, LookFails, LookAgain, GiveUp, Judge,
         Dies, Tick, Answer, NoAnswer, Refusal,
         history, stressVars
<1>3. lost \in Nat /\ refused \in BOOLEAN
  BY StressAssumption DEF StressTypeOK, StressAssumption
<1>4. lost + 1 # 0
  BY <1>3
<1>5. QED
  BY <1>1, <1>2, <1>3, <1>4

\* NothingFailed by its parts, for a step that leaves most of them alone.
Succeeded ==
  /\ \A i \in 1..Len(outcome) : i \in pending \/ outcome[i] = "ok"
  /\ failed = 0 /\ streak = 0 /\ worst = 0
SoFar == \A i \in 1..Len(results) : results[i].failed = 0 /\ ~results[i].cascade

LEMMA CleanStep ==
  ASSUME StressTypeOK, BatchTypes, NothingFailed,
         [StressNext]_stressVars
  PROVE  NothingFailed'
<1> SUFFICES ASSUME lost' = 0, ~refused'
             PROVE  /\ at' \notin {"idle", "ended"} => up'
                    /\ status' # "error"
                    /\ Succeeded' /\ SoFar'
  BY DEF NothingFailed, Succeeded, SoFar
<1>0. /\ lost = 0 /\ ~refused
      /\ at \notin {"idle", "ended"} => up
      /\ status # "error"
      /\ Succeeded /\ SoFar
  BY MemoryStep DEF NothingFailed, Succeeded, SoFar
<1>1. CASE /\ at' = at \/ at' = "ended" \/ at \notin {"idle", "ended"}
           /\ up' = up \/ at' = "ended"
           /\ status' = status \/ status' # "error"
           /\ UNCHANGED <<pending, outcome, failed, streak, worst, results>>
  BY <1>0, <1>1 DEF Succeeded, SoFar
<1>2. CASE Start
  <2>1. UNCHANGED <<pending, outcome, failed, streak, worst, results, status>> /\ up' = TRUE
    BY <1>2 DEF Start, batch, phases, end
  <2> QED
    BY <1>0, <2>1 DEF Succeeded, SoFar
<1>3. CASE Ready
  BY <1>0, <1>3
     DEF Ready, BeginPhase, Process, end, Succeeded, SoFar
<1>4. CASE Send
  <2>1. Batch(phase) \in 1..BatchCap
    BY StressNumbers, BatchIsCapped
  <2>2. Len(outcome') = Batch(phase) /\ pending' = 1..Batch(phase)
    BY <1>4, <2>1 DEF Send
  <2> QED
    BY <1>0, <1>4, <2>2 DEF Send, emulator, phases, end, Succeeded, SoFar
<1>5. CASE Collect
  <2>1. \A i \in 1..Len(outcome) : outcome[i] = "ok"
    BY <1>0, <1>5 DEF Collect, Succeeded
  <2>2. failed' = 0 /\ streak' = 0 /\ worst' = 0
    BY <1>0, <1>5, <2>1, CollectClean DEF Succeeded
  <2>3. outcome' = <<>> /\ Len(outcome') = 0
    BY <1>5 DEF Collect
  <2> QED
    BY <1>0, <1>5, <2>2, <2>3 DEF Collect, emulator, end, Succeeded, SoFar
<1>6. CASE EndPhase
  <2>1. Metrics.failed = 0 /\ ~Metrics.cascade
    <3>1. failed = 0 /\ worst = 0
      BY <1>0 DEF Succeeded
    <3>2. ~(0 > CascadeLimit)
      BY StressAssumption DEF StressAssumption
    <3> QED
      BY <3>1, <3>2 DEF Metrics
  <2>2. SoFar'
    <3>1. results' = Append(results, Metrics)
      BY <1>6 DEF EndPhase
    <3>2. results \in Seq([sent : Nat, failed : Nat, cascade : BOOLEAN])
      BY DEF StressTypeOK
    <3>3. /\ Len(results') = Len(results) + 1 /\ Len(results) \in Nat
          /\ \A i \in 1..Len(results) : results'[i] = results[i]
          /\ results'[Len(results) + 1] = Metrics
      BY <3>1, <3>2
    <3>4. \A i \in 1..(Len(results) + 1) : i \in 1..Len(results) \/ i = Len(results) + 1
      BY <3>3
    <3> QED
      BY <1>0, <2>1, <3>3, <3>4 DEF SoFar
  <2>3. Succeeded'
    BY <1>0, <1>6 DEF EndPhase, BeginPhase, Succeeded
  <2> QED
    BY <1>0, <1>6, <2>2, <2>3 DEF EndPhase, BeginPhase, emulator
<1>7. ASSUME NEW i \in pending, Answer(i)
      PROVE  Succeeded'
  <2>1. Served
    BY <1>7 DEF Answer
  <2>2. pending' = pending \ {i} /\ outcome' = [outcome EXCEPT ![i] = "ok"]
    BY <1>7, <2>1 DEF Answer, Outcome
  <2>3. UNCHANGED <<failed, streak, worst>>
    BY <1>7 DEF Answer, Outcome, phases
  <2>4. outcome \in Seq(Outcomes) /\ pending \subseteq 1..Len(outcome)
    BY DEF StressTypeOK, BatchTypes
  <2>5. Len(outcome') = Len(outcome)
        /\ \A j \in 1..Len(outcome) : outcome'[j] = IF j = i THEN "ok" ELSE outcome[j]
    BY <2>2, <2>4
  <2> QED
    BY <1>0, <2>2, <2>3, <2>5 DEF Succeeded
<1>8. ASSUME NEW i \in pending, Answer(i)
      PROVE  at = "batch" /\ at' = at /\ up' = up /\ UNCHANGED <<status, results>>
  BY <1>8 DEF Answer, Outcome, Process, phases, end
<1>9. ASSUME NEW i \in pending PROVE ~NoAnswer(i) /\ ~Refusal(i)
  BY <1>0, <1>9 DEF NoAnswer, Refusal
<1>10. ~StartFails /\ ~Dies /\ ~LookFails
  BY <1>0 DEF StartFails, Dies, LookFails
<1>11. Skip \/ Look \/ LookAgain \/ GiveUp \/ Judge \/ Tick
       \/ UNCHANGED stressVars
       => /\ at' = at \/ at' = "ended" \/ at \notin {"idle", "ended"}
          /\ up' = up \/ at' = "ended"
          /\ status' = status \/ status' # "error"
          /\ UNCHANGED <<pending, outcome, failed, streak, worst, results>>
  BY DEF Skip, Look, LookAgain, GiveUp, Judge, Tick,
         stressVars, Finish, Recovers, Process, emulator, batch,
         phases, end
<1>12. QED
  BY <1>0, <1>1, <1>2, <1>3, <1>4, <1>5, <1>6, <1>7, <1>8, <1>9, <1>10, <1>11, StressSteps DEF SoFar

LEMMA JudgedStep ==
  ASSUME StressTypeOK, Judged, [StressNext]_stressVars
  PROVE  Judged'
<1>1. CASE UNCHANGED <<at, phase, results, recovery, status>>
  BY <1>1 DEF Judged, Passes
<1>2. CASE /\ \/ at \in {"pause", "batch"} /\ at' \in {"pause", "batch"}
              \/ at \in {"look", "sleep", "judge"} /\ at' \in {"look", "sleep", "judge"}
           /\ UNCHANGED <<phase, results, status>>
  <2>1. status # "fail" /\ status' # "fail"
    BY <1>2 DEF Judged
  <2> QED
    BY <1>2, <2>1 DEF Judged
<1>3. CASE at \in {"idle", "starting"} /\ at' = "ended" /\ status' # "fail"
  BY <1>3 DEF Judged
<1>4. CASE Start
  BY <1>4 DEF Start, phases, end, Judged
<1>5. CASE Ready
  <2>1. at = "starting" /\ at' = "pause" /\ phase' = 1 /\ results' = results /\ status' = status
    BY <1>5 DEF Ready, BeginPhase, end
  <2>2. Len(results') = 0
    BY <2>1 DEF Judged
  <2> QED
    BY <2>1, <2>2 DEF Judged
<1>6. CASE EndPhase
  <2>1. at = "pause" /\ status' = status /\ results' = Append(results, Metrics)
    BY <1>6 DEF EndPhase
  <2>2. Len(results') = phase
    <3>1. results \in Seq([sent : Nat, failed : Nat, cascade : BOOLEAN]) /\ phase \in 1..3
      BY DEF StressTypeOK
    <3>2. Len(results) = phase - 1
      BY <2>1 DEF Judged
    <3> QED
      BY <2>1, <3>1, <3>2
  <2>3. \/ phase < 3 /\ at' = "pause" /\ phase' = phase + 1
        \/ phase = 3 /\ at' = "look"
    BY <1>6 DEF EndPhase, BeginPhase, StressTypeOK
  <2>4. phase' = phase + 1 => Len(results') = phase' - 1
    BY <2>2 DEF StressTypeOK
  <2>5. status' # "fail"
    BY <2>1 DEF Judged
  <2>6. phase = 3 => Len(results') = 3
    BY <2>2
  <2> QED
    BY <2>3, <2>4, <2>5, <2>6, SMTT(30) DEF Judged
<1>7. CASE Judge
  <2>1. /\ at = "judge" /\ at' = "ended" /\ UNCHANGED <<results, recovery>>
        /\ status' = IF Passes THEN "pass" ELSE "fail"
    BY <1>7 DEF Judge, Finish, phases
  <2>2. Passes' <=> Passes
    BY <2>1 DEF Passes
  <2> QED
    BY <2>1, <2>2 DEF Judged
<1>8. ASSUME NEW i \in pending, Answer(i) \/ NoAnswer(i) \/ Refusal(i)
      PROVE  Judged'
  <2>1. /\ at \in {"pause", "batch"} /\ at' \in {"pause", "batch"}
        /\ UNCHANGED <<phase, results, status>>
    BY <1>8 DEF Answer, NoAnswer, Refusal, Outcome, phases, end
  <2> QED
    BY <1>2, <2>1
<1>9. CASE Send \/ Collect
  <2>1. /\ at \in {"pause", "batch"} /\ at' \in {"pause", "batch"}
        /\ UNCHANGED <<phase, results, status>>
    BY <1>9 DEF Send, Collect, phases, end
  <2> QED
    BY <1>2, <2>1
<1>10. CASE Look \/ LookFails \/ LookAgain \/ GiveUp
  <2>1. /\ at \in {"look", "sleep", "judge"} /\ at' \in {"look", "sleep", "judge"}
        /\ UNCHANGED <<phase, results, status>>
    BY <1>10 DEF Look, LookFails, LookAgain, GiveUp, Recovers,
           phases, end
  <2> QED
    BY <1>2, <2>1
<1>11. Skip \/ StartFails
       => at \in {"idle", "starting"} /\ at' = "ended" /\ status' # "fail"
  BY DEF Skip, StartFails, Finish
<1>12. Tick \/ Dies \/ UNCHANGED stressVars
       => UNCHANGED <<at, phase, results, recovery, status>>
  BY DEF Tick, Dies, stressVars, phases, end
<1>13. QED
  BY <1>1, <1>2, <1>3, <1>4, <1>5, <1>6, <1>7, <1>8, <1>9, <1>10, <1>11, <1>12, StressSteps

----------------------------------------------------------------------------
(* Theorems about the stress gate *)

LEMMA StressInvInit == ASSUME StressInit PROVE StressInv
<1>1. StressTypeOK
  <2> USE DEF StressInit
  <2>1. limit \in Nat /\ PhaseTime \in Nat /\ RecoveryTime + 1 \in Nat /\ MaxLost \in Nat
    BY StressAssumption DEF StressAssumption
  <2>2. /\ limit \in Limits /\ remaining \in 0..limit /\ window \in 0..2
        /\ at \in {"idle", "starting", "pause", "batch", "look", "sleep", "judge", "ended"}
        /\ phase \in 1..3 /\ pending \subseteq 1..BatchCap /\ outcome \in Seq(Outcomes)
    BY <2>1 DEF Window
  <2>3. /\ age \in 0..2 /\ left \in 0..PhaseTime /\ {sent, failed, streak, worst} \subseteq Nat
        /\ results \in Seq([sent : Nat, failed : Nat, cascade : BOOLEAN])
        /\ clock \in 0..(RecoveryTime + 1) /\ recovery \in 0..(RecoveryTime + 1)
        /\ status \in {"none", "pass", "fail", "error"}
    BY <2>1
  <2>4. probes \in Nat /\ lost \in 0..MaxLost
    BY <2>1
  <2>5. up \in BOOLEAN /\ refused \in BOOLEAN /\ recovered \in BOOLEAN
    BY Zenon
  <2> HIDE DEF StressInit
  <2> QED
    BY <2>2, <2>3, <2>4, <2>5 DEF StressTypeOK, Window, Pace
<1>2. BatchTypes /\ BatchesFit /\ LargeLimitsAreNeverMet
  BY StressAssumption DEF StressInit, BatchTypes, BatchesFit, LargeLimitsAreNeverMet, StressAssumption
<1>3. LooksFit
  BY DEF StressInit, LooksFit
<1>4. NothingFailed
  BY DEF StressInit, NothingFailed
<1>5. Judged
  BY DEF StressInit, Judged
<1>6. QED
  BY <1>1, <1>2, <1>3, <1>4, <1>5 DEF StressInv

LEMMA StressInvStep ==
  ASSUME StressInv, [StressNext]_stressVars
  PROVE  StressInv'
<1>1. (StressTypeOK /\ BatchTypes)'
  BY StressTypes DEF StressInv
<1>2. BatchesFit' /\ LargeLimitsAreNeverMet'
  BY BatchesStep, LargeStep DEF StressInv
<1>3. LooksFit' /\ NothingFailed' /\ Judged'
  BY LooksStep, CleanStep, JudgedStep DEF StressInv
<1>4. QED
  BY <1>1, <1>2, <1>3 DEF StressInv

LEMMA StressInvariant ==
  StressSpec => []StressInv
<1>1. StressInit => StressInv
  BY StressInvInit
<1>2. StressInv /\ [StressNext]_stressVars => StressInv'
  BY StressInvStep
<1>3. QED
  BY <1>1, <1>2, PTL DEF StressSpec

\* In every state of the stress gate each variable has its type.
THEOREM StressTypeCorrect ==
  StressSpec => []StressTypeOK
<1>1. StressInv => StressTypeOK
  BY DEF StressInv
<1>2. QED
  BY <1>1, StressInvariant, PTL

\* A limit of two batches is never met, however late requests are served and
\* whatever becomes of them.
THEOREM NothingIsRefused ==
  StressSpec => []LargeLimitsAreNeverMet
<1>1. StressInv => LargeLimitsAreNeverMet
  BY DEF StressInv
<1>2. QED
  BY <1>1, StressInvariant, PTL

\* The wait for recovery ends with the window that was open when it began.
THEOREM LooksEnd ==
  StressSpec => []LooksEndWithTheWindow
<1>1. StressInv => LooksEndWithTheWindow
  BY DEF StressInv, LooksFit, LooksEndWithTheWindow, Window, Poll
<1>2. QED
  BY <1>1, StressInvariant, PTL

\* A gate with such a limit meets no refusal and fails a run for no other reason
\* than a late look.
THEOREM LargeLimitsAreJudgedPassed ==
  StressSpec => []LargeLimitsPass
<1>1. StressInv => LargeLimitsPass
  <2> SUFFICES ASSUME StressInv, lost = 0, limit >= 2 * BatchCap, status = "fail"
               PROVE  recovery > RecoveryTime
    BY DEF LargeLimitsPass, StressInv
  <2>1. ~refused
    BY DEF StressInv, LargeLimitsAreNeverMet
  <2>2. Len(results) = 3 /\ ~Passes
    BY DEF StressInv, Judged
  <2>3. \A i \in 1..3 : results[i].failed = 0 /\ ~results[i].cascade
    BY <2>1, <2>2 DEF StressInv, NothingFailed
  <2>4. \A i \in 1..3 : results[i].sent \in Nat
    <3> DEFINE R == [sent : Nat, failed : Nat, cascade : BOOLEAN]
    <3>1. results \in Seq(R)
      BY DEF StressInv, StressTypeOK
    <3>2. \A r \in R : r.sent \in Nat
      OBVIOUS
    <3> HIDE DEF R
    <3>3. \A i \in 1..3 : results[i] \in R
      BY <2>2, <3>1
    <3> QED
      BY <3>2, <3>3
  <2>5. \A i \in 1..3 : \A share \in Nat : ~TooMany(results[i], share)
    <3> TAKE i \in 1..3
    <3> TAKE share \in Nat
    <3>1. results[i].failed * share = 0
      <4>1. 0 * share = 0
        OBVIOUS
      <4> QED
        BY <2>3, <4>1
    <3>2. \A n \in Nat : ~(n > 0 /\ 0 >= n)
      OBVIOUS
    <3> QED
      BY <2>4, <3>1, <3>2 DEF TooMany
  <2>6. ~(recovery <= RecoveryTime)
    BY <2>2, <2>3, <2>5, StressAssumption DEF Passes, StressAssumption
  <2>7. recovery \in Nat /\ RecoveryTime \in Nat
    BY StressAssumption DEF StressInv, StressTypeOK, StressAssumption
  <2> QED
    BY <2>6, <2>7
<1>2. QED
  BY <1>1, StressInvariant, PTL
=============================================================================
