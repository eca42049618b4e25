------------------------- MODULE ReleaseLoopProofs -------------------------
(***************************************************************************)
(* Proofs about a conductor's session.  Of ReleaseLoop, for every session, *)
(* every dependency relation (acyclic or not, but for the stall guard) and *)
(* any number of faults.  Of Routing, for any number of conductors,        *)
(* sessions and repositories: types, the repository an agent's files go    *)
(* to, and the worktree they are copied to.                                *)
(***************************************************************************)
EXTENDS ReleaseLoop, Routing, FiniteSetTheorems, WellFoundedInduction, TLAPS

----------------------------------------------------------------------------
(* The inductive invariant *)

Seeded == {"test", "promote", "release", "open", "mark", "guard", "returned", "stalled"}

Knows(a) ==
  /\ state[a] = "done" => a \in done
  /\ state[a] \in {"running", "done"} => a \in launched

\* Only an agent with a window signals.
FlagsComeFromWindows == \A a \in flag : windows[a] > 0

\* The local sets never hold more than the disk does...
SetsAreOnDisk ==
  /\ \A a \in done : state[a] = "done" \/ a \in flag
  /\ \A a \in launched : state[a] \in {"running", "done"}

\* ... and, once the loop has looked at an agent, no less.
DiskIsInSets ==
  /\ pc \in Seeded => \A a \in Agents : Knows(a)
  /\ pc = "seed" => \A i \in 1..(pos - 1) : Knows(Order[i])
  /\ pc = "off" => pos = 1

\* An agent about to be launched was ready.
AboutToLaunch ==
  pc \in {"open", "mark"} => state[This] = "ready" /\ Deps[This] \subseteq done

LoopInv ==
  /\ TypeOK
  /\ FlagsComeFromWindows
  /\ SetsAreOnDisk
  /\ DiskIsInSets
  /\ AboutToLaunch

----------------------------------------------------------------------------
\* What the session gives the loop.
LEMMA SessionOrder ==
  /\ 1 \in 1..Len(Order) /\ Len(Order) \in Nat
  /\ MaxFaults \in Nat
  /\ \A i \in 1..Len(Order) : Order[i] \in Agents
BY LoopAssumption DEF LoopAssumption

\* The agent of the present pass is one of the session's.
LEMMA ThisIsAgent ==
  ASSUME pos \in 1..Len(Order)
  PROVE  This \in Agents
BY SessionOrder DEF This

\* Advance() stays within the session.
LEMMA AdvanceStays ==
  ASSUME NEW next, pos \in 1..Len(Order), Advance(next)
  PROVE  /\ pos' \in 1..Len(Order)
         /\ \/ pc' = pc /\ pos' = pos + 1
            \/ pc' = next /\ pos' = 1 /\ pos = Len(Order)
BY SessionOrder DEF Advance

\* The invariant holds of a distributed session.
LEMMA LoopInit == Init => LoopInv
<1> SUFFICES ASSUME Init PROVE LoopInv
  OBVIOUS
<1>1. TypeOK
  BY SessionOrder DEF Init, TypeOK, State, Pc, Passes
<1>2. FlagsComeFromWindows /\ SetsAreOnDisk /\ AboutToLaunch
  BY DEF Init, FlagsComeFromWindows, SetsAreOnDisk, AboutToLaunch
<1>3. DiskIsInSets
  BY DEF Init, DiskIsInSets, Seeded
<1> QED
  BY <1>1, <1>2, <1>3 DEF LoopInv

\* Types are preserved by every step.
LEMMA TypeStep ==
  ASSUME TypeOK, Next
  PROVE  TypeOK'
<1> USE DEF TypeOK, State, Pc, Passes
<1>0. This \in Agents /\ 1 \in 1..Len(Order) /\ Len(Order) \in Nat /\ MaxFaults \in Nat
  BY ThisIsAgent, SessionOrder
<1>1. CASE \E a \in Agents : Stage(a) \/ SignalDone(a) \/ Stray(a)
  <2>1. PICK a \in Agents : Stage(a) \/ SignalDone(a) \/ Stray(a)
    BY <1>1
  <2>2. CASE Stage(a)
    BY <2>2 DEF Stage, loopVars
  <2>3. CASE SignalDone(a)
    BY <2>3 DEF SignalDone, loopVars
  <2>4. CASE Stray(a)
    BY <2>4 DEF Stray, loopVars
  <2> QED
    BY <2>1, <2>2, <2>3, <2>4
<1>2. CASE Seed
  BY <1>2, <1>0, AdvanceStays DEF Seed, diskVars
<1>3. CASE Test \/ Guard
  BY <1>3 DEF Test, Guard, diskVars
<1>4. CASE Promote
  BY <1>4, <1>0, AdvanceStays DEF Promote
<1>5. CASE Release
  BY <1>5, <1>0, AdvanceStays DEF Release
<1>6. CASE OpenWindow
  <2>1. windows' \in [Agents -> Nat]
    BY <1>6, <1>0 DEF OpenWindow
  <2> QED
    BY <1>6, <2>1 DEF OpenWindow
<1>7. CASE OpenFails
  BY <1>7, <1>0 DEF OpenFails, Fault, diskVars
<1>8. CASE MarkRunning
  BY <1>8, <1>0 DEF MarkRunning
<1>9. CASE Stop
  BY <1>9, <1>0 DEF Stop, Fault, diskVars
<1>10. CASE Resume
  BY <1>10 DEF Resume, diskVars
<1> QED
  BY <1>1, <1>2, <1>3, <1>4, <1>5, <1>6, <1>7, <1>8, <1>9, <1>10 DEF Next, LoopStep

\* Agents keep the rest of the invariant: they touch neither the loop's sets
\* nor the manifest, and flags only appear.
LEMMA AgentStep ==
  ASSUME LoopInv, NEW a \in Agents, Stage(a) \/ SignalDone(a) \/ Stray(a)
  PROVE  FlagsComeFromWindows' /\ SetsAreOnDisk' /\ DiskIsInSets' /\ AboutToLaunch'
<1> USE DEF LoopInv
<1>1. UNCHANGED <<state, windows, loopVars>> /\ flag \subseteq flag'
  BY DEF Stage, SignalDone, Stray
<1>2. FlagsComeFromWindows'
  BY DEF FlagsComeFromWindows, Stage, SignalDone, Stray
<1>3. SetsAreOnDisk'
  BY <1>1 DEF SetsAreOnDisk, loopVars
<1>4. DiskIsInSets' /\ AboutToLaunch'
  BY <1>1 DEF DiskIsInSets, Knows, AboutToLaunch, This, loopVars
<1> QED
  BY <1>2, <1>3, <1>4

\* Seeding teaches the loop about the agents one by one.
LEMMA SeedStep ==
  ASSUME LoopInv, Seed
  PROVE  FlagsComeFromWindows' /\ SetsAreOnDisk' /\ DiskIsInSets' /\ AboutToLaunch'
<1> USE DEF LoopInv
<1>1. pc = "seed" /\ UNCHANGED <<state, windows, flag>> /\ pos \in 1..Len(Order)
  BY DEF Seed, diskVars, TypeOK
<1>2. FlagsComeFromWindows' /\ SetsAreOnDisk'
  BY <1>1 DEF Seed, FlagsComeFromWindows, SetsAreOnDisk
<1>3. \A i \in 1..pos : Knows(Order[i])'
  <2> SUFFICES ASSUME NEW i \in 1..pos PROVE Knows(Order[i])'
    OBVIOUS
  <2>1. CASE i = pos
    BY <2>1, <1>1 DEF Seed, Knows, This
  <2>2. CASE i \in 1..(pos - 1)
    BY <2>2, <1>1 DEF Seed, Knows, This, DiskIsInSets
  <2> QED
    BY <2>1, <2>2, <1>1, SessionOrder
<1>4. DiskIsInSets' /\ AboutToLaunch'
  <2>1. CASE pc' = "seed" /\ pos' = pos + 1
    <3>1. pos' - 1 = pos
      BY <2>1, <1>1, SessionOrder
    <3> QED
      BY <3>1, <2>1, <1>3 DEF DiskIsInSets, AboutToLaunch, Seeded
  <2>2. CASE pc' = "test" /\ pos = Len(Order)
    <3>1. \A a \in Agents : \E i \in 1..pos : a = Order[i]
      BY <2>2, LoopAssumption DEF LoopAssumption
    <3>2. \A a \in Agents : Knows(a)'
      BY <3>1, <1>3
    <3> QED
      BY <3>2, <2>2 DEF DiskIsInSets, AboutToLaunch
  <2> QED
    BY <2>1, <2>2, <1>1, AdvanceStays DEF Seed
<1> QED
  BY <1>2, <1>4

\* The other steps of the loop keep manifest and sets together.
LEMMA LoopPassStep ==
  ASSUME LoopInv, Test \/ Promote \/ Release \/ OpenWindow \/ OpenFails \/ MarkRunning \/ Guard
  PROVE  FlagsComeFromWindows' /\ SetsAreOnDisk' /\ DiskIsInSets' /\ AboutToLaunch'
<1> USE DEF LoopInv
<1>0. This \in Agents /\ pos \in 1..Len(Order) /\ state \in [Agents -> State]
      /\ done \subseteq Agents /\ launched \subseteq Agents /\ flag \subseteq Agents
      /\ windows \in [Agents -> Nat]
  BY ThisIsAgent DEF TypeOK
<1>1. CASE Test \/ Guard
  BY <1>1 DEF Test, Guard, diskVars, FlagsComeFromWindows, SetsAreOnDisk, DiskIsInSets,
              Knows, AboutToLaunch, Seeded
<1>2. CASE Promote
  <2>1. pc = "promote" /\ pc' \in {"promote", "release"}
    BY <1>2, <1>0, AdvanceStays DEF Promote
  <2>2. FlagsComeFromWindows' /\ SetsAreOnDisk'
    BY <1>2, <1>0 DEF Promote, FlagsComeFromWindows, SetsAreOnDisk
  <2>3. \A a \in Agents : Knows(a)'
    BY <1>2, <1>0, <2>1 DEF Promote, DiskIsInSets, Knows, Seeded
  <2> QED
    BY <2>1, <2>2, <2>3 DEF DiskIsInSets, AboutToLaunch
<1>3. CASE Release
  <2>1. pc = "release" /\ pc' \in {"release", "guard", "open"}
    BY <1>3, <1>0, AdvanceStays DEF Release
  <2>2. \A a \in Agents : Knows(a)
    BY <2>1 DEF DiskIsInSets, Seeded
  <2>3. UNCHANGED <<windows, flag, done, launched>>
    BY <1>3 DEF Release
  <2>4. \A a \in Agents : state'[a] = state[a] \/ (state'[a] = "ready" /\ a \notin done \cup launched)
    BY <1>3, <1>0 DEF Release, Ready
  <2>5. FlagsComeFromWindows' /\ SetsAreOnDisk'
    BY <2>3, <2>4, <1>0 DEF FlagsComeFromWindows, SetsAreOnDisk
  <2>6. \A a \in Agents : Knows(a)'
    BY <2>2, <2>3, <2>4 DEF Knows
  <2>7. AboutToLaunch'
    BY <1>3, <1>0, <2>1, AdvanceStays DEF Release, AboutToLaunch, Ready, This
  <2> QED
    BY <2>1, <2>5, <2>6, <2>7 DEF DiskIsInSets
<1>4. CASE OpenWindow \/ OpenFails
  <2>1. pc = "open" /\ pc' = "mark" /\ UNCHANGED <<state, flag, pos, done, launched>>
    BY <1>4 DEF OpenWindow, OpenFails, diskVars
  <2>2. \A a \in Agents : windows[a] > 0 => windows'[a] > 0
    BY <1>4, <1>0 DEF OpenWindow, OpenFails, diskVars
  <2>3. FlagsComeFromWindows'
    BY <2>1, <2>2, <1>0 DEF FlagsComeFromWindows
  <2> QED
    BY <2>1, <2>3 DEF SetsAreOnDisk, DiskIsInSets, Knows, AboutToLaunch, This, Seeded
<1>5. CASE MarkRunning
  <2>1. pc = "mark" /\ pc' \in {"release", "guard"}
    BY <1>5 DEF MarkRunning
  <2>2. state[This] = "ready"
    BY <2>1 DEF AboutToLaunch
  <2>3. FlagsComeFromWindows' /\ SetsAreOnDisk'
    BY <1>5, <1>0, <2>2 DEF MarkRunning, FlagsComeFromWindows, SetsAreOnDisk
  <2>4. \A a \in Agents : Knows(a)'
    BY <1>5, <1>0, <2>1 DEF MarkRunning, DiskIsInSets, Knows, Seeded
  <2> QED
    BY <2>1, <2>3, <2>4 DEF DiskIsInSets, AboutToLaunch
<1> QED
  BY <1>1, <1>2, <1>3, <1>4, <1>5

\* A conductor that goes away forgets what the disk still knows, and one that
\* comes back has seeded nothing yet.
LEMMA ConductorStep ==
  ASSUME LoopInv, Stop \/ Resume
  PROVE  FlagsComeFromWindows' /\ SetsAreOnDisk' /\ DiskIsInSets' /\ AboutToLaunch'
BY DEF LoopInv, Stop, Resume, diskVars, TypeOK, FlagsComeFromWindows, SetsAreOnDisk,
       DiskIsInSets, AboutToLaunch, Seeded

\* Every step keeps the invariant.
LEMMA LoopInvStep == LoopInv /\ [Next]_vars => LoopInv'
<1> SUFFICES ASSUME LoopInv, [Next]_vars PROVE LoopInv'
  OBVIOUS
<1>1. CASE Next
  <2>1. TypeOK'
    BY <1>1, TypeStep DEF LoopInv
  <2>2. FlagsComeFromWindows' /\ SetsAreOnDisk' /\ DiskIsInSets' /\ AboutToLaunch'
    BY <1>1, AgentStep, SeedStep, LoopPassStep, ConductorStep DEF Next, LoopStep
  <2> QED
    BY <2>1, <2>2 DEF LoopInv
<1>2. CASE UNCHANGED vars
  BY <1>2 DEF vars, diskVars, loopVars, LoopInv, TypeOK, FlagsComeFromWindows, SetsAreOnDisk,
              DiskIsInSets, Knows, AboutToLaunch, This
<1> QED
  BY <1>1, <1>2

\* The invariant holds in every reachable state of the release loop.
THEOREM Invariance == Spec => []LoopInv
BY LoopInit, LoopInvStep, PTL DEF Spec

----------------------------------------------------------------------------
(* The theorems *)

\* Every reachable state is well typed; in particular "failed" and "blocked",
\* which the loop reads, are never written.
THEOREM TypeCorrect == Spec => []TypeOK
<1>1. LoopInv => TypeOK
  BY DEF LoopInv
<1> QED
  BY <1>1, Invariance, PTL

\* A conductor that goes away between two polls is resumed with all that it
\* knew, however often that happens.
THEOREM NothingLost == Spec => []ResumeLosesNothing
<1>1. LoopInv => ResumeLosesNothing
  BY DEF LoopInv, TypeOK, SetsAreOnDisk, DiskIsInSets, Knows, Seeded, ResumeLosesNothing
<1> QED
  BY <1>1, Invariance, PTL

----------------------------------------------------------------------------
(* Refinement: every step is a step of DependencyOrder, or no step there. *)

StageOf(a) ==
  IF a \in flag \/ state[a] = "done" THEN "finished"
  ELSE IF windows[a] > 0 \/ state[a] = "running" THEN "started"
  ELSE "waiting"

\* The abstract state is a function of flags, manifest and windows.
LEMMA StageUnchanged ==
  ASSUME \A a \in Agents : StageOf(a)' = StageOf(a), (pc = "returned")' = (pc = "returned")
  PROVE  UNCHANGED Launch!oVars
BY DEF Launch!oVars, StageOf

\* A distributed session is an abstract session in which nobody has started.
LEMMA LaunchInit == Init => Launch!Init
BY DEF Init, Launch!Init

\* When the loop returns, every agent has signalled.
LEMMA ReturnIsReturn ==
  ASSUME LoopInv, Test \/ Guard
  PROVE  Launch!Return \/ UNCHANGED Launch!oVars
<1>1. UNCHANGED <<state, windows, flag, done>> /\ pc # "returned"
  BY DEF Test, Guard, diskVars
<1>2. \A a \in Agents : StageOf(a)' = StageOf(a)
  BY <1>1 DEF StageOf
<1>3. CASE pc' = "returned"
  <2>1. done = Agents
    BY <1>3 DEF Test, Guard
  <2>2. Launch!Finished = Agents
    BY <2>1 DEF Launch!Finished, LoopInv, SetsAreOnDisk
  <2> QED
    BY <1>1, <1>3, <2>2 DEF Launch!Return
<1>4. CASE pc' # "returned"
  BY <1>1, <1>2, <1>4, StageUnchanged
<1> QED
  BY <1>3, <1>4

\* An agent that signals at work finishes...
LEMMA SignalIsFinish ==
  ASSUME LoopInv, NEW a \in Agents, SignalDone(a)
  PROVE  Launch!Finish(a) \/ UNCHANGED Launch!oVars
<1>1. /\ StageOf(a) \in {"started", "finished"} /\ StageOf(a)' = "finished"
      /\ \A b \in Agents \ {a} : StageOf(b)' = StageOf(b)
  BY DEF SignalDone, StageOf, LoopInv, TypeOK
<1>2. (pc = "returned")' = (pc = "returned")
  BY DEF SignalDone, loopVars
<1>3. CASE StageOf(a) = "finished"
  BY <1>1, <1>2, <1>3, StageUnchanged
<1>4. CASE StageOf(a) = "started"
  BY <1>1, <1>2, <1>4 DEF Launch!Finish, StageOf
<1> QED
  BY <1>1, <1>3, <1>4

\* ... and so does one that the loop promotes.
LEMMA PromoteIsFinish ==
  ASSUME LoopInv, Promote
  PROVE  (\E b \in Agents : Launch!Finish(b)) \/ UNCHANGED Launch!oVars
<1>a. PICK a \in Agents : a = This
  BY ThisIsAgent DEF LoopInv, TypeOK
<1>0. /\ state \in [Agents -> State]
      /\ UNCHANGED <<flag, windows>> /\ (pc = "returned")' = (pc = "returned")
  BY ThisIsAgent, AdvanceStays DEF Promote, LoopInv, TypeOK
<1>1. CASE a \in launched \ done /\ Signals(a)
  <2>1. state' = [state EXCEPT ![a] = "done"]
    BY <1>a, <1>1 DEF Promote
  <2>2. state[a] \in {"running", "done"}
    BY <1>1 DEF LoopInv, SetsAreOnDisk
  <2>3. StageOf(a) \in {"started", "finished"} /\ StageOf(a)' = "finished"
    BY <1>0, <2>1, <2>2 DEF StageOf
  <2>4. \A b \in Agents \ {a} : StageOf(b)' = StageOf(b)
    BY <1>0, <2>1 DEF StageOf
  <2>5. CASE StageOf(a) = "finished"
    BY <1>0, <2>3, <2>4, <2>5, StageUnchanged
  <2>6. CASE StageOf(a) = "started"
    BY <1>0, <2>3, <2>4, <2>6 DEF Launch!Finish, StageOf
  <2> QED
    BY <2>3, <2>5, <2>6
<1>2. CASE ~(a \in launched \ done /\ Signals(a))
  <2>1. \A b \in Agents : StageOf(b)' = StageOf(b)
    BY <1>a, <1>0, <1>2 DEF Promote, StageOf
  <2> QED
    BY <1>0, <2>1, StageUnchanged
<1> QED
  BY <1>1, <1>2

\* A window is opened, or an agent marked running, only after its dependencies
\* have finished.
LEMMA OpenIsStart ==
  ASSUME LoopInv, OpenWindow \/ OpenFails \/ MarkRunning
  PROVE  (\E b \in Agents : Launch!Start(b)) \/ UNCHANGED Launch!oVars
<1>a. PICK a \in Agents : a = This
  BY ThisIsAgent DEF LoopInv, TypeOK
<1>0. /\ state \in [Agents -> State] /\ windows \in [Agents -> Nat]
      /\ flag' = flag /\ (pc = "returned")' = (pc = "returned")
  BY ThisIsAgent DEF OpenWindow, OpenFails, MarkRunning, diskVars, LoopInv, TypeOK
<1>1. state[a] = "ready" /\ Deps[a] \subseteq done
  BY <1>a DEF OpenWindow, OpenFails, MarkRunning, LoopInv, AboutToLaunch
<1>2. Deps[a] \subseteq Launch!Finished
  BY <1>0, <1>1 DEF Launch!Finished, LoopInv, TypeOK, SetsAreOnDisk
<1>3. \A b \in Agents \ {a} : StageOf(b)' = StageOf(b)
  BY <1>a, <1>0 DEF OpenWindow, OpenFails, MarkRunning, diskVars, StageOf
<1>4. \/ StageOf(a)' = StageOf(a)
      \/ StageOf(a) = "waiting" /\ StageOf(a)' = "started"
  <2>1. CASE OpenWindow
    BY <1>a, <1>0, <1>1, <2>1 DEF OpenWindow, StageOf
  <2>2. CASE OpenFails
    BY <2>2 DEF OpenFails, diskVars, StageOf
  <2>3. CASE MarkRunning
    BY <1>a, <1>0, <1>1, <2>3 DEF MarkRunning, StageOf
  <2> QED
    BY <2>1, <2>2, <2>3
<1>5. CASE StageOf(a)' = StageOf(a)
  BY <1>0, <1>3, <1>5, StageUnchanged
<1>6. CASE StageOf(a) = "waiting" /\ StageOf(a)' = "started"
  BY <1>0, <1>2, <1>3, <1>6 DEF Launch!Start, StageOf
<1> QED
  BY <1>4, <1>5, <1>6

\* All other steps change nothing that the abstract launch knows of.
LEMMA OthersStutter ==
  ASSUME LoopInv,
         \/ \E a \in Agents : Stage(a) \/ Stray(a)
         \/ Seed \/ Release \/ Stop \/ Resume \/ UNCHANGED vars
  PROVE  UNCHANGED Launch!oVars
<1>0. This \in Agents /\ state \in [Agents -> State] /\ pos \in 1..Len(Order)
  BY ThisIsAgent DEF LoopInv, TypeOK
<1>1. CASE Release
  <2>1. pc = "release" /\ UNCHANGED <<flag, windows>>
    BY <1>1 DEF Release
  <2>2. state[This] \in {"running", "done"} => This \in launched
    BY <1>0, <2>1 DEF LoopInv, DiskIsInSets, Knows, Seeded
  <2>3. \A a \in Agents : StageOf(a)' = StageOf(a)
    BY <1>0, <1>1, <2>1, <2>2 DEF Release, StageOf
  <2>4. pc' # "returned"
    BY <1>0, <1>1, AdvanceStays DEF Release
  <2> QED
    BY <2>1, <2>3, <2>4, StageUnchanged
<1>2. CASE Seed
  <2>1. pc = "seed" /\ pc' # "returned" /\ UNCHANGED diskVars
    BY <1>0, <1>2, AdvanceStays DEF Seed
  <2> QED
    BY <2>1, StageUnchanged DEF diskVars, StageOf
<1>3. CASE \/ \E a \in Agents : Stage(a) \/ Stray(a)
           \/ Stop \/ Resume \/ UNCHANGED vars
  <2>1. UNCHANGED <<state, windows, flag>> /\ (pc = "returned")' = (pc = "returned")
    BY <1>3 DEF Stage, Stray, Stop, Resume, vars, diskVars, loopVars
  <2> QED
    BY <2>1, StageUnchanged DEF StageOf
<1> QED
  BY <1>1, <1>2, <1>3

\* Every step of the loop, of the agents and of a conductor that dies and
\* comes back is a step of the abstract launch, or none.
LEMMA LaunchStep == LoopInv /\ [Next]_vars => [Launch!Next]_(Launch!oVars)
<1> SUFFICES ASSUME LoopInv, [Next]_vars PROVE Launch!Next \/ UNCHANGED Launch!oVars
  OBVIOUS
<1> QED
  BY ReturnIsReturn, SignalIsFinish, PromoteIsFinish, OpenIsStart, OthersStutter
     DEF Next, LoopStep, Launch!Next

\* The release loop implements the launch in dependency order.
THEOREM LoopImplementsLaunch == Spec => ImplementsLaunch
BY LaunchInit, LaunchStep, Invariance, PTL DEF Spec, Launch!Spec, ImplementsLaunch

----------------------------------------------------------------------------
(* What a second window costs *)

\* Agents with a window that the manifest does not know of: a conductor that is
\* resumed will launch them again.
Pending ==
  {a \in Agents : /\ windows[a] > 0 /\ state[a] \in {"waiting", "ready"}
                  /\ ~(pc = "mark" /\ a = This)}

\* What faults have been spent on: extra windows, and windows forgotten.
Spent ==
  {e \in Agents \X (1..(MaxFaults + 2)) :
     IF e[2] = 1 THEN e[1] \in Pending ELSE e[2] <= windows[e[1]]}

EachSpentOnce == Cardinality(Spent) <= faults

\* A session has finitely many agents, so what is spent can be counted.
LEMMA AgentsAreFinite == IsFiniteSet(Agents)
<1>1. Order \in Surjection(1..Len(Order), Agents)
  <2>1. Order \in [1..Len(Order) -> Agents]
    BY LoopAssumption DEF LoopAssumption
  <2>2. \A a \in Agents : \E i \in 1..Len(Order) : Order[i] = a
    BY LoopAssumption DEF LoopAssumption
  <2> QED
    BY <2>1, <2>2 DEF Surjection
<1>2. Len(Order) \in Nat
  BY LoopAssumption DEF LoopAssumption
<1> QED
  BY <1>1, <1>2, FS_Surjection, FS_Interval

LEMMA SpentIsFinite == IsFiniteSet(Spent) /\ Cardinality(Spent) \in Nat
<1>1. IsFiniteSet(1..(MaxFaults + 2))
  BY SessionOrder, FS_Interval
<1>2. IsFiniteSet(Agents \X (1..(MaxFaults + 2)))
  BY AgentsAreFinite, <1>1, FS_Product
<1>3. Spent \in SUBSET (Agents \X (1..(MaxFaults + 2)))
  BY DEF Spent
<1>4. IsFiniteSet(Spent)
  BY <1>2, <1>3, FS_Subset
<1> QED
  BY <1>4, FS_CardinalityType

\* No more is spent than before...
LEMMA SpendsNothing ==
  ASSUME EachSpentOnce, faults \in Nat, faults' = faults, Spent' \subseteq Spent
  PROVE  EachSpentOnce'
<1>1. Spent' \in SUBSET Spent
  OBVIOUS
<1>2. Cardinality(Spent') <= Cardinality(Spent) /\ Cardinality(Spent') \in Nat
  BY <1>1, SpentIsFinite, FS_Subset, FS_CardinalityType
<1> QED
  BY <1>2, SpentIsFinite DEF EachSpentOnce

\* ... or one thing, with one fault...
LEMMA SpendsOne ==
  ASSUME EachSpentOnce, faults \in Nat, faults' = faults + 1, NEW e,
         Spent' \subseteq Spent \cup {e}
  PROVE  EachSpentOnce'
<1>1. /\ IsFiniteSet(Spent \cup {e})
      /\ Cardinality(Spent \cup {e}) <= Cardinality(Spent) + 1
      /\ Cardinality(Spent \cup {e}) \in Nat
  BY SpentIsFinite, FS_AddElement, FS_CardinalityType
<1>2. Cardinality(Spent') <= Cardinality(Spent \cup {e}) /\ Cardinality(Spent') \in Nat
  BY <1>1, FS_Subset, FS_CardinalityType
<1> QED
  BY <1>1, <1>2, SpentIsFinite DEF EachSpentOnce

\* ... or one thing in the place of another.
LEMMA SpendsAnew ==
  ASSUME EachSpentOnce, faults \in Nat, faults' = faults, NEW d \in Spent, NEW e,
         Spent' \subseteq (Spent \ {d}) \cup {e}
  PROVE  EachSpentOnce'
<1> DEFINE rest == Spent \ {d}
<1>1. /\ IsFiniteSet(rest) /\ Cardinality(rest) = Cardinality(Spent) - 1
      /\ Cardinality(rest) \in Nat
  BY SpentIsFinite, FS_RemoveElement, FS_CardinalityType
<1> HIDE DEF rest
<1>2. /\ IsFiniteSet(rest \cup {e})
      /\ Cardinality(rest \cup {e}) <= Cardinality(rest) + 1
      /\ Cardinality(rest \cup {e}) \in Nat
  <2>1. /\ IsFiniteSet(rest \cup {e})
        /\ Cardinality(rest \cup {e}) = IF e \in rest THEN Cardinality(rest)
                                                       ELSE Cardinality(rest) + 1
    BY <1>1, FS_AddElement, Zenon
  <2> QED
    BY <1>1, <2>1
<1>3. Spent' \in SUBSET (rest \cup {e})
  BY DEF rest
<1>4. Cardinality(Spent') <= Cardinality(rest \cup {e}) /\ Cardinality(Spent') \in Nat
  BY <1>2, <1>3, FS_Subset, FS_CardinalityType
<1> QED
  BY <1>1, <1>2, <1>4, SpentIsFinite DEF EachSpentOnce

\* Nothing is spent on a fresh session.
LEMMA SpentInit == Init => EachSpentOnce
<1> SUFFICES ASSUME Init PROVE EachSpentOnce
  OBVIOUS
<1>1. Spent = {}
  BY SessionOrder DEF Init, Spent, Pending
<1> QED
  BY <1>1, FS_EmptySet DEF Init, EachSpentOnce

\* A conductor that goes away forgets one window at most, the one it had just
\* opened; a window that is forgotten costs a fault when it is forgotten, and
\* none when it is opened again.
LEMMA SpentStep == LoopInv /\ EachSpentOnce /\ [Next]_vars => EachSpentOnce'
<1> SUFFICES ASSUME LoopInv, EachSpentOnce, [Next]_vars PROVE EachSpentOnce'
  OBVIOUS
<1>0. /\ faults \in Nat /\ This \in Agents /\ pos \in 1..Len(Order)
      /\ windows \in [Agents -> Nat] /\ state \in [Agents -> State]
      /\ MaxFaults \in Nat
  BY SessionOrder, ThisIsAgent DEF LoopInv, TypeOK
<1>1. ASSUME faults' = faults, windows' = windows, Pending' \subseteq Pending
      PROVE  EachSpentOnce'
  <2>1. Spent' \subseteq Spent
    BY <1>1 DEF Spent
  <2> QED
    BY <1>0, <1>1, <2>1, SpendsNothing
<1>2. CASE \/ \E a \in Agents : Stage(a) \/ SignalDone(a) \/ Stray(a)
           \/ UNCHANGED vars
  <2>1. UNCHANGED <<state, windows, pc, pos, faults>>
    BY <1>2 DEF Stage, SignalDone, Stray, loopVars, diskVars, vars
  <2>2. Pending' \subseteq Pending
    BY <2>1 DEF Pending, This
  <2> QED
    BY <1>1, <2>1, <2>2
<1>3. CASE Seed \/ Test \/ Guard \/ Resume
  <2>1. UNCHANGED <<state, windows, faults>> /\ pc # "mark"
    BY <1>3 DEF Seed, Test, Guard, Resume, diskVars
  <2>2. Pending' \subseteq Pending
    BY <2>1 DEF Pending
  <2> QED
    BY <1>1, <2>1, <2>2
<1>4. CASE Promote
  <2>1. UNCHANGED <<windows, faults>> /\ pc = "promote"
        /\ \A a \in Agents : state'[a] \in {state[a], "done"}
    BY <1>0, <1>4 DEF Promote
  <2>2. Pending' \subseteq Pending
    BY <2>1 DEF Pending
  <2> QED
    BY <1>1, <2>1, <2>2
<1>5. CASE Release
  <2>1. UNCHANGED <<windows, faults>> /\ pc = "release"
    BY <1>5 DEF Release
  <2>2. \A a \in Agents : a \notin launched => state[a] \in {"waiting", "ready"}
    BY <1>0, <2>1 DEF LoopInv, DiskIsInSets, Knows, Seeded, State
  <2>3. \A a \in Agents : state'[a] \in {"waiting", "ready"} => state[a] \in {"waiting", "ready"}
    BY <1>0, <1>5, <2>2 DEF Release
  <2>4. Pending' \subseteq Pending
    BY <2>1, <2>3 DEF Pending
  <2> QED
    BY <1>1, <2>1, <2>4
<1>6. CASE MarkRunning
  <2>1. UNCHANGED <<windows, faults>> /\ pc = "mark" /\ state' = [state EXCEPT ![This] = "running"]
    BY <1>6 DEF MarkRunning
  <2>2. \A a \in Agents : state'[a] \in {"waiting", "ready"} => a # This /\ state'[a] = state[a]
    BY <1>0, <2>1
  <2>3. Pending' \subseteq Pending
    BY <2>1, <2>2 DEF Pending
  <2> QED
    BY <1>1, <2>1, <2>3
<1>7. CASE OpenFails
  <2>1. UNCHANGED <<state, windows, pos>> /\ faults' = faults + 1 /\ pc = "open"
    BY <1>7 DEF OpenFails, Fault, diskVars
  <2>2. Pending' \subseteq Pending
    BY <2>1 DEF Pending
  <2>3. Spent' \subseteq Spent \cup {This}
    BY <2>1, <2>2 DEF Spent
  <2> QED
    BY <1>0, <2>1, <2>3, SpendsOne
<1>8. CASE Stop
  <2>1. UNCHANGED <<state, windows>> /\ faults' = faults + 1 /\ pc' = "off"
    BY <1>8 DEF Stop, Fault, diskVars
  <2>2. Pending' \subseteq Pending \cup {This}
    BY <2>1 DEF Pending
  <2> DEFINE a == This
             e == <<a, 1>>
  <2>3. Spent' \subseteq Spent \cup {e}
    <3> SUFFICES ASSUME NEW d \in Spent', d \notin Spent PROVE d = e
      OBVIOUS
    <3>1. d \in Agents \X (1..(MaxFaults + 2)) /\ d[2] = 1 /\ d[1] \in Pending' \ Pending
      BY <2>1 DEF Spent
    <3>2. d = <<d[1], d[2]>> /\ d[1] = a
      BY <2>2, <3>1
    <3> QED
      BY <3>1, <3>2
  <2> HIDE DEF a, e
  <2> QED
    BY <1>0, <2>1, <2>3, SpendsOne
<1>9. CASE OpenWindow
  <2> DEFINE a == This
             w == windows[a]
             e == <<a, w + 1>>
  <2>1. /\ UNCHANGED <<state, pos, faults>> /\ pc = "open" /\ pc' = "mark"
        /\ windows' = [windows EXCEPT ![a] = w + 1] /\ a \in Agents /\ w \in Nat
        /\ state[a] = "ready"
    BY <1>0, <1>9 DEF OpenWindow, LoopInv, AboutToLaunch
  <2>2. This' = a
    BY <2>1 DEF This
  <2>3. Pending' \subseteq Pending \ {a}
    BY <2>1, <2>2 DEF Pending
  <2>4. ASSUME NEW d \in Spent'
        PROVE  (d \in Spent \/ (d = e /\ w > 0)) /\ d # <<a, 1>>
    <3>1. d \in Agents \X (1..(MaxFaults + 2)) /\ d = <<d[1], d[2]>>
      BY DEF Spent
    <3>2. CASE d[2] = 1
      <4>1. d[1] \in Pending'
        BY <3>2 DEF Spent
      <4> QED
        BY <2>3, <3>1, <3>2, <4>1 DEF Spent
    <3>3. CASE d[2] # 1
      <4>1. d[2] <= windows'[d[1]]
        BY <3>3 DEF Spent
      <4>2. d[2] <= windows[d[1]] \/ (d[1] = a /\ d[2] = w + 1)
        BY <2>1, <1>0, <3>1, <4>1
      <4> QED
        BY <2>1, <3>1, <3>3, <4>2 DEF Spent
    <3> QED
      BY <3>2, <3>3
  <2>5. CASE w > 0
    <3>1. <<a, 1>> \in Spent
      BY <1>0, <2>1, <2>5 DEF Spent, Pending
    <3>2. Spent' \subseteq (Spent \ {<<a, 1>>}) \cup {e}
      BY <2>4
    <3> HIDE DEF a, e, w
    <3> QED
      BY <1>0, <2>1, <3>1, <3>2, SpendsAnew
  <2>6. CASE w = 0
    <3>1. Spent' \subseteq Spent
      BY <2>4, <2>6
    <3> QED
      BY <1>0, <2>1, <3>1, SpendsNothing
  <2> QED
    BY <2>1, <2>5, <2>6
<1> QED
  BY <1>2, <1>3, <1>4, <1>5, <1>6, <1>7, <1>8, <1>9 DEF Next, LoopStep

\* A second window on an agent's staging directory needs a conductor that went
\* away or a window that did not open, and each of them costs one window at most.
THEOREM ExtraWindowsNeedFaults == Spec => []WindowsNeedFaults
<1>1. LoopInv /\ EachSpentOnce => WindowsNeedFaults
  <2> SUFFICES ASSUME LoopInv, EachSpentOnce PROVE WindowsNeedFaults
    OBVIOUS
  <2> DEFINE extra == {e \in Agents \X (2..(MaxFaults + 2)) : e[2] <= windows[e[1]]}
  <2>1. extra \in SUBSET Spent
    BY SessionOrder DEF Spent
  <2>2. Cardinality(extra) <= Cardinality(Spent) /\ Cardinality(extra) \in Nat
    BY <2>1, SpentIsFinite, FS_Subset, FS_CardinalityType
  <2> QED
    BY <2>2, SpentIsFinite DEF EachSpentOnce, LoopInv, TypeOK, WindowsNeedFaults
<1> QED
  BY Invariance, SpentInit, SpentStep, <1>1, PTL DEF Spec

----------------------------------------------------------------------------
(* The stall guard *)

\* No agents wait for one another in a circle: what DAGBuilder._validate()
\* has checked of every session that is launched (DependencyGraph's CycleVerdict).
Acyclic == \A S \in (SUBSET Agents) \ {{}} : \E a \in S : Deps[a] \cap S = {}

NotStalled == pc # "stalled"

\* In an acyclic graph one of the agents that are not done waits for none of
\* the others, so the guard finds it ready.
LEMMA GuardNeverTrips ==
  ASSUME Acyclic, LoopInv, NotStalled, [Next]_vars
  PROVE  NotStalled'
<1> USE DEF NotStalled
<1>0. This \in Agents /\ pos \in 1..Len(Order) /\ done \subseteq Agents
  BY ThisIsAgent DEF LoopInv, TypeOK
<1>1. CASE Guard
  <2>1. CASE done = Agents
    BY <1>1, <2>1 DEF Guard
  <2>2. CASE done # Agents
    <3>1. PICK a \in Agents \ done : Deps[a] \cap (Agents \ done) = {}
      BY <1>0, <2>2 DEF Acyclic
    <3>2. Ready(a)
      BY <3>1, LoopAssumption DEF LoopAssumption, Ready
    <3> QED
      BY <1>1, <2>2, <3>1, <3>2 DEF Guard
  <2> QED
    BY <2>1, <2>2
<1>2. CASE Seed \/ Promote \/ Release
  BY <1>0, <1>2, AdvanceStays DEF Seed, Promote, Release
<1>3. CASE Test \/ OpenWindow \/ OpenFails \/ MarkRunning \/ Stop \/ Resume
  BY <1>3 DEF Test, OpenWindow, OpenFails, MarkRunning, Stop, Resume
<1>4. CASE (\E a \in Agents : Stage(a) \/ SignalDone(a) \/ Stray(a)) \/ UNCHANGED vars
  BY <1>4 DEF Stage, SignalDone, Stray, vars, loopVars
<1> QED
  BY <1>1, <1>2, <1>3, <1>4 DEF Next, LoopStep

\* The loop never gives up on a session whose graph is acyclic, whatever
\* windows failed to open and however often the conductor went away.
THEOREM AcyclicNeverStalls == ASSUME Acyclic PROVE Spec => []NeverStalls
<1>1. Init => NotStalled
  BY DEF Init, NotStalled
<1>2. LoopInv /\ NotStalled /\ [Next]_vars => NotStalled'
  BY GuardNeverTrips
<1>3. NotStalled => NeverStalls
  BY DEF NotStalled, NeverStalls
<1> QED
  BY Invariance, <1>1, <1>2, <1>3, PTL DEF Spec

----------------------------------------------------------------------------
(* Where agents' files go: the inductive invariant *)

\* A conductor whose session no other one can know of.
Alone(c) == at[c] \in {"wizard", "save", "prime"}

\* A conductor that left holds nothing; one that is in a session has begun it.
Held ==
  /\ \A c \in Conductors :
       /\ at[c] # "off" => session[c] # NoSession /\ session[c].id <= begun
       /\ at[c] \in {"off", "wizard", "save", "prime"} => router[c] = NoPaths
  /\ manifest.id <= begun /\ sidecar.id <= begun
  /\ \A i \in staging \cup clashed \cup foreign : i <= begun
  /\ \A e \in entries : e.id <= begun

\* Until it distributes it, a session is its conductor's only: no one else holds it,
\* and neither the manifest, nor the staging base, nor the queue knows of it.
Private ==
  \A c \in Conductors : Alone(c) =>
    /\ \A d \in Conductors : d # c /\ at[d] # "off" => session[d].id # session[c].id
    /\ manifest.id # session[c].id /\ session[c].id \notin staging
    /\ \A e \in entries : e.id # session[c].id
    /\ at[c] = "wizard" => sidecar.id # session[c].id

\* What is on the default repository of a session was to be on its target.
OnTarget(s) ==
  s.id \notin clashed =>
    \A a \in Team : s.repo[a] = Default => typed[s.id][a] = s.root

\* The other names of a session mean the repositories that were entered.
Means(s, paths) ==
  s.id \notin clashed =>
    \A a \in Team : s.repo[a] # Default =>
      s.repo[a] \in DOMAIN paths /\ paths[s.repo[a]] = typed[s.id][a]

\* A session that can still be routed, or become the manifest, has its names from the
\* wizard or, once that has written them, from the sidecar, if that is its own.
Carried(s) ==
  /\ OnTarget(s)
  /\ sidecar.id = s.id => Means(s, sidecar.paths)

Targets ==
  /\ manifest # NoSession => Carried(manifest)
  /\ \A c \in Conductors :
       /\ at[c] # "off" => OnTarget(session[c])
       /\ at[c] \in {"prime", "route", "agents"} => Carried(session[c])
       /\ Alone(c) => Means(session[c], session[c].paths)

\* A session that is routed has its target as the default, and its agents' paths are
\* those entered, unless it was to have one name for two, or another's sidecar.
Routed ==
  \A c \in Conductors : at[c] = "agents" /\ MultiRepo(session[c]) =>
    /\ Default \in DOMAIN router[c] /\ router[c][Default] = session[c].root
    /\ \A a \in Team :
         PathOf(c, a) # typed[session[c].id][a] =>
           \/ session[c].id \in clashed
           \/ session[c].id \in foreign /\ session[c].repo[a] # Default

\* The inductive invariant.
RouteInv ==
  /\ RoutingTypeOK
  /\ Held
  /\ Private
  /\ Targets
  /\ Routed
  /\ RoutedAsTyped
  /\ CopiedWhereQueued

----------------------------------------------------------------------------
(* Lemmas about routes *)

LEMMA TeamIsNumbers ==
  Team \subseteq Nat
<1>1. Cardinality(Team) \in Nat
  BY RoutingAssumption, FS_CardinalityType DEF RoutingAssumption
<1>2. Team = 1..Cardinality(Team)
  BY RoutingAssumption DEF RoutingAssumption
<1>3. QED
  BY <1>1, <1>2

LEMMA FirstOfThem ==
  ASSUME NEW S \in SUBSET Team, S # {}
  PROVE  Min(S) \in S
<1> DEFINE R == OpToRel(<, Nat)
<1>1. IsWellFoundedOn(R, Nat)
  BY NatLessThanWellFounded
<1>2. \A x, y \in Nat : x < y => <<x, y>> \in R
  BY DEF OpToRel
<1>3. S \in SUBSET Nat
  BY TeamIsNumbers
<1> HIDE DEF R
<1>4. PICK x \in S : \A y \in S : ~(<<y, x>> \in R)
  BY <1>1, <1>3, WFMin
<1>5. \A y \in S : x <= y
  <2> TAKE y \in S
  <2>1. x \in Nat /\ y \in Nat
    BY <1>3
  <2>2. ~(y < x)
    BY <1>2, <1>4, <2>1
  <2>3. QED
    BY <2>1, <2>2
<1>6. QED
  BY <1>5 DEF Min

\* A session one is in, and one that is none.
Sessions == [id : 1..MaxSessions, root : Roots, repo : [Team -> Names], paths : Known]

LEMMA SessionOrNone ==
  ASSUME NEW s \in Session
  PROVE  /\ s # NoSession => s \in Sessions
         /\ s.id \in 0..MaxSessions
  BY RoutingAssumption DEF Session, NoSession, Sessions, RoutingAssumption

LEMMA SessionIsOne ==
  ASSUME NEW s \in Sessions
  PROVE  s \in Session /\ s # NoSession
<1>1. s.id # 0
  BY DEF Sessions
<1>2. QED
  BY <1>1 DEF Session, NoSession, Sessions

LEMMA KnownPaths ==
  ASSUME NEW f
  PROVE  f \in Known <=>
           /\ f = [n \in DOMAIN f |-> f[n]]
           /\ DOMAIN f \subseteq Names /\ \A n \in DOMAIN f : f[n] \in Paths
  BY DEF Known

LEMMA NoPathsIsKnown == NoPaths \in Known
  BY DEF Known, NoPaths

\* One by one, what may happen.
LEMMA RouteSteps ==
  ASSUME RoutingNext
  PROVE  \E c \in Conductors :
           \/ \E root \in Roots : Begin(c, root)
           \/ \E who \in {0} \cup Team : Ask(c, who)
           \/ Confirm(c) \/ FillSidecar(c) \/ Abort(c) \/ Distribute(c)
           \/ ResumeSession(c) \/ Route(c) \/ UpdateState(c) \/ Commit(c)
           \/ StopConductor(c)
  BY DEF RoutingNext

----------------------------------------------------------------------------
(* Types *)

\* What a name is added to still knows paths, and those it knew as it knew them.
LEMMA WithKnows ==
  ASSUME NEW f \in Known, NEW name \in Names, NEW path \in Paths
  PROVE  /\ With(f, name, path) \in Known
         /\ DOMAIN With(f, name, path) = DOMAIN f \cup {name}
         /\ \A n \in DOMAIN f : With(f, name, path)[n] = f[n]
         /\ name \notin DOMAIN f => With(f, name, path)[name] = path
<1> DEFINE g == With(f, name, path)
<1>1. /\ DOMAIN f \subseteq Names /\ \A n \in DOMAIN f : f[n] \in Paths
  BY KnownPaths
<1>2. /\ g = [n \in (DOMAIN f) \cup {name} |-> IF n \in DOMAIN f THEN f[n] ELSE path]
  BY DEF With
<1> HIDE DEF g
<1>3. /\ DOMAIN g = DOMAIN f \cup {name}
      /\ \A n \in DOMAIN f : g[n] = f[n]
      /\ name \notin DOMAIN f => g[name] = path
  BY <1>2
<1>4. g = [n \in DOMAIN g |-> g[n]]
  BY <1>2
<1>5. g \in Known
  BY <1>1, <1>2, <1>3, <1>4, KnownPaths
<1>6. QED
  BY <1>3, <1>5 DEF g

\* What an answer of the wizard does to the session it is about.
Resolved(c, asked, name, path) ==
  /\ session' = [session EXCEPT ![c] = session'[c]] /\ session'[c] \in Sessions
  /\ session'[c].id = session[c].id /\ session'[c].root = session[c].root
  /\ session'[c].repo = [a \in Team |-> IF a \in asked THEN name ELSE session[c].repo[a]]
  /\ session'[c].paths = With(session[c].paths, name, path)
  /\ typed' = [typed EXCEPT ![session[c].id] =
                 [a \in Team |-> IF a \in asked THEN path ELSE typed[session[c].id][a]]]

LEMMA ResolveEffect ==
  ASSUME RoutingTypeOK,
         NEW c \in Conductors, session[c] \in Sessions,
         NEW who \in {0} \cup Team, NEW name \in Names, NEW path \in Paths,
         Resolve(c, who, name, path)
  PROVE  \E asked \in SUBSET Team : Resolved(c, asked, name, path)
<1> DEFINE asked == IF who = 0 THEN Team ELSE {who}
           old == session[c]
           new == [id |-> old.id, root |-> old.root,
                   repo |-> [a \in Team |-> IF a \in asked THEN name ELSE old.repo[a]],
                   paths |-> With(old.paths, name, path)]
<1>1. asked \in SUBSET Team
  OBVIOUS
<1>2. old = [id |-> old.id, root |-> old.root, repo |-> old.repo, paths |-> old.paths]
      /\ old.id \in 1..MaxSessions /\ old.root \in Roots /\ old.repo \in [Team -> Names]
      /\ old.paths \in Known
  BY DEF Sessions
<1>3. session' = [session EXCEPT ![c] = new]
  <2> DEFINE repos == [a \in Team |-> IF a \in asked THEN name ELSE old.repo[a]]
             paths == With(old.paths, name, path)
  <2>1. session' = [session EXCEPT ![c].repo = repos, ![c].paths = paths]
    BY DEF Resolve
  <2>2. session = [x \in Conductors |-> session[x]]
    BY DEF RoutingTypeOK
  <2>3. new = [id |-> old.id, root |-> old.root, repo |-> repos, paths |-> paths]
    OBVIOUS
  <2> HIDE DEF new, repos, paths
  <2>4. session'[c] = new
    BY <1>2, <2>1, <2>2, <2>3
  <2>5. session' = [session EXCEPT ![c] = session'[c]]
    BY <2>1, <2>2
  <2> QED
    BY <2>4, <2>5
<1>4. new \in Sessions
  <2>1. With(old.paths, name, path) \in Known
    BY <1>2, WithKnows
  <2>2. [a \in Team |-> IF a \in asked THEN name ELSE old.repo[a]] \in [Team -> Names]
    BY <1>2
  <2> QED
    BY <1>2, <2>1, <2>2 DEF Sessions
<1>5. session'[c] = new
  BY <1>3 DEF RoutingTypeOK
<1>6. typed' = [typed EXCEPT ![old.id] =
                  [a \in Team |-> IF a \in asked THEN path ELSE typed[old.id][a]]]
  <2>1. typed' = [typed EXCEPT ![old.id] =
                    [a \in Team |-> IF a \in asked THEN path ELSE @[a]]]
    BY DEF Resolve
  <2> QED
    BY <1>2, <2>1 DEF RoutingTypeOK
<1> HIDE DEF asked
<1>7. QED
  <2> WITNESS asked \in SUBSET Team
  <2>1. session' = [session EXCEPT ![c] = session'[c]]
    BY <1>3, <1>5
  <2> QED
    BY <1>4, <1>5, <1>6, <2>1 DEF Resolved

\* A conductor that leaves.
LEMMA LeaveTypes ==
  ASSUME RoutingTypeOK, NEW c \in Conductors, Leave(c)
  PROVE  /\ at' \in [Conductors -> {"off", "wizard", "save", "prime", "route", "agents"}]
         /\ session' \in [Conductors -> Session] /\ router' \in [Conductors -> Known]
         /\ answered' \in [Conductors -> SUBSET ({0} \cup Team)]
<1>1. NoSession \in Session
  BY DEF Session
<1>2. QED
  BY <1>1, NoPathsIsKnown DEF RoutingTypeOK, Leave, Goto

\* What build_router() registers is paths, the target for one.
LEMMA RegisteredKnows ==
  ASSUME NEW s \in Sessions, NEW f \in Known
  PROVE  /\ Registered(s, f) \in Known
         /\ DOMAIN Registered(s, f) = ({s.repo[a] : a \in Team} \cap DOMAIN f) \cup {Default}
         /\ Registered(s, f)[Default] = s.root
         /\ \A n \in DOMAIN Registered(s, f) :
              n # Default => Registered(s, f)[n] = f[n]
<1> DEFINE g == Registered(s, f)
           D == ({s.repo[a] : a \in Team} \cap DOMAIN f) \cup {Default}
<1>1. g = [n \in D |-> IF n = Default THEN s.root ELSE f[n]]
  BY DEF Registered, Default
<1>2. /\ DOMAIN f \subseteq Names /\ \A n \in DOMAIN f : f[n] \in Paths
  BY KnownPaths
<1>3. s.root \in Paths /\ Default \in Names
  BY RoutingAssumption DEF Sessions, RoutingAssumption, Default
<1>4. Default \in D /\ D \subseteq Names /\ \A n \in D : n # Default => n \in DOMAIN f
  BY <1>2, <1>3
<1> HIDE DEF g, D
<1>5. DOMAIN g = D /\ g = [n \in DOMAIN g |-> g[n]] /\ g[Default] = s.root
      /\ \A n \in D : n # Default => g[n] = f[n]
  BY <1>1, <1>4
<1>6. \A n \in D : g[n] \in Paths
  BY <1>2, <1>3, <1>4, <1>5
<1>7. g \in Known
  BY <1>4, <1>5, <1>6, KnownPaths
<1>8. QED
  BY <1>5, <1>7 DEF g, D

\* An agent's path is a path of its session's router.
LEMMA PathIsPath ==
  ASSUME RoutingTypeOK, NEW c \in Conductors, session[c] \in Sessions,
         Default \in DOMAIN router[c]
  PROVE  \A a \in Team : /\ PathOf(c, a) \in Paths
                         /\ CopyRoot(c, session[c].repo[a]) \in Paths
<1>1. router[c] \in Known
  BY DEF RoutingTypeOK
<1>2. \A n \in DOMAIN router[c] : router[c][n] \in Paths
  BY <1>1, KnownPaths
<1>3. session[c].root \in Paths
  BY RoutingAssumption DEF Sessions, RoutingAssumption
<1>4. QED
  BY <1>2, <1>3 DEF PathOf, CopyRoot, Default

\* What the queue is given: an entry for each name, or one.
LEMMA EntriesOf ==
  ASSUME RoutingTypeOK, NEW c \in Conductors, session[c] \in Sessions,
         MultiRepo(session[c]) => Default \in DOMAIN router[c],
         NEW e \in Entries(c)
  PROVE  /\ e \in [id : 1..MaxSessions, repo : Names, agents : SUBSET Team,
                   copied : Paths, path : Paths]
         /\ e.id = session[c].id
         /\ MultiRepo(session[c]) =>
              \A a \in Team : a \in e.agents =>
                /\ session[c].repo[a] = e.repo /\ e.path = PathOf(c, a)
         /\ MultiRepo(session[c]) =>
              \E a \in Team : /\ e.repo = session[c].repo[a] /\ e.path = PathOf(c, a)
                              /\ e.copied = CopyRoot(c, e.repo)
         /\ ~MultiRepo(session[c]) =>
              e.repo = Default /\ e.path = session[c].root /\ e.copied = session[c].root
<1> DEFINE s == session[c]
           group(name) == {a \in Team : s.repo[a] = name}
<1>1. s.id \in 1..MaxSessions /\ s.root \in Paths /\ s.repo \in [Team -> Names]
      /\ Default \in Names
  BY RoutingAssumption DEF Sessions, RoutingAssumption, Default
<1>2. CASE ~MultiRepo(s)
  <2>1. e = [id |-> s.id, repo |-> Default, agents |-> Team, copied |-> s.root, path |-> s.root]
    BY <1>2 DEF Entries, Default
  <2> QED
    BY <1>1, <1>2, <2>1
<1>3. CASE MultiRepo(s)
  <2>1. PICK b \in Team :
          e = [id |-> s.id, repo |-> s.repo[b], agents |-> group(s.repo[b]),
               copied |-> CopyRoot(c, s.repo[b]),
               path |-> PathOf(c, Min(group(s.repo[b])))]
    BY <1>3 DEF Entries
  <2> DEFINE G == group(s.repo[b])
             first == Min(G)
  <2>2. G \in SUBSET Team /\ G # {}
    OBVIOUS
  <2>3. first \in G
    <3> HIDE DEF G
    <3> QED BY <2>2, FirstOfThem
  <2>4. first \in Team /\ s.repo[first] = s.repo[b] /\ \A a \in G : s.repo[a] = s.repo[b]
    BY <2>3
  <2>5. \A a \in Team : s.repo[a] = s.repo[b] => PathOf(c, a) = PathOf(c, first)
    BY <2>4 DEF PathOf
  <2>6. PathOf(c, first) \in Paths /\ CopyRoot(c, s.repo[b]) \in Paths
    BY <1>3, <2>4, PathIsPath
  <2> HIDE DEF first
  <2>7. /\ e.id = s.id /\ e.repo = s.repo[b] /\ e.agents = G
        /\ e.copied = CopyRoot(c, s.repo[b]) /\ e.path = PathOf(c, first)
    BY <2>1 DEF first
  <2>8. e \in [id : 1..MaxSessions, repo : Names, agents : SUBSET Team,
               copied : Paths, path : Paths]
    <3> HIDE DEF G
    <3> QED BY <1>1, <2>1, <2>2, <2>6 DEF G, first
  <2> QED
    BY <1>3, <2>2, <2>4, <2>5, <2>7, <2>8
<1>4. QED
  BY <1>2, <1>3

\* The session of a conductor that is in one.
LEMMA HeldSession ==
  ASSUME RoutingTypeOK, Held, NEW c \in Conductors, at[c] # "off"
  PROVE  session[c] \in Sessions /\ session[c].id \in 1..begun /\ begun \in 1..MaxSessions
<1>1. session[c] \in Sessions
  BY SessionOrNone DEF RoutingTypeOK, Held
<1>2. session[c].id \in 1..MaxSessions /\ begun \in 0..MaxSessions /\ session[c].id <= begun
      /\ MaxSessions \in Nat
  BY <1>1, RoutingAssumption DEF Sessions, RoutingTypeOK, Held, RoutingAssumption
<1>3. QED
  BY <1>1, <1>2

LEMMA BeginEffect ==
  ASSUME RoutingTypeOK, NEW c \in Conductors, NEW root \in Roots,
         Begin(c, root)
  PROVE  /\ begun' = begun + 1 /\ begun' \in 1..MaxSessions
         /\ New(begun', root) \in Sessions
         /\ session' = [session EXCEPT ![c] = New(begun', root)]
         /\ typed' = [typed EXCEPT ![begun'] = [a \in Team |-> root]]
         /\ at[c] = "off" /\ at' = [at EXCEPT ![c] = "wizard"]
         /\ UNCHANGED <<answered, router, manifest, sidecar, staging, entries, kills, clashed, foreign>>
         /\ session'[c].id = begun' /\ session'[c] # NoSession /\ at'[c] = "wizard"
         /\ \A d \in Conductors : d # c => session'[d] = session[d] /\ at'[d] = at[d]
<1>1. begun' = begun + 1 /\ begun' \in 1..MaxSessions
  BY RoutingAssumption DEF Begin, RoutingTypeOK, RoutingAssumption
<1>2. New(begun', root) \in Sessions
  <2>1. [a \in Team |-> Default] \in [Team -> Names]
    BY RoutingAssumption DEF RoutingAssumption, Default
  <2> QED
    BY <1>1, <2>1, NoPathsIsKnown DEF New, Sessions, Default
<1>3. New(begun', root) # NoSession /\ New(begun', root).id = begun'
  BY <1>2, SessionIsOne DEF New
<1>4. /\ session' = [session EXCEPT ![c] = New(begun', root)]
      /\ at[c] = "off" /\ at' = [at EXCEPT ![c] = "wizard"]
  BY DEF Begin, Goto
<1>5. session'[c] = New(begun', root) /\ at'[c] = "wizard"
      /\ \A d \in Conductors : d # c => session'[d] = session[d] /\ at'[d] = at[d]
  BY <1>4 DEF RoutingTypeOK
<1>6. QED
  BY <1>1, <1>2, <1>3, <1>4, <1>5 DEF Begin, disk

LEMMA AskIsResolve ==
  ASSUME NEW c \in Conductors, NEW who \in {0} \cup Team, Ask(c, who)
  PROVE  /\ at[c] = "wizard"
         /\ UNCHANGED <<at, router, manifest, sidecar, staging, entries, begun, kills, foreign>>
         /\ \E path \in Paths, name \in Names : Resolve(c, who, name, path)
<1>1. \A path \in Paths : NameOf[path] \in Names
  BY RoutingAssumption DEF RoutingAssumption
<1>2. QED
  BY <1>1 DEF Ask, EnterPath, EnterName, disk

LEMMA RouteTypes ==
  ASSUME RoutingTypeOK, Held, Routed, [RoutingNext]_routingVars
  PROVE  RoutingTypeOK'
<1> USE DEF RoutingTypeOK, disk, history
<1>1. ASSUME NEW c \in Conductors, NEW root \in Roots, Begin(c, root)
      PROVE  RoutingTypeOK'
  <2>1. New(begun', root) \in Session
    BY <1>1, BeginEffect, SessionIsOne
  <2>2. begun' \in 0..MaxSessions
    BY <1>1, BeginEffect
  <2>3. [a \in Team |-> root] \in [Team -> Paths]
    BY RoutingAssumption DEF RoutingAssumption
  <2> HIDE DEF RoutingTypeOK
  <2>4. /\ session' = [session EXCEPT ![c] = New(begun', root)]
        /\ typed' = [typed EXCEPT ![begun'] = [a \in Team |-> root]]
        /\ at' = [at EXCEPT ![c] = "wizard"]
        /\ UNCHANGED <<answered, router, manifest, sidecar, staging, entries, kills, clashed, foreign>>
    BY <1>1, BeginEffect
  <2> QED
    BY <2>1, <2>2, <2>3, <2>4 DEF RoutingTypeOK
<1>2. ASSUME NEW c \in Conductors, NEW who \in {0} \cup Team, Ask(c, who)
      PROVE  RoutingTypeOK'
  <2>1. PICK path \in Paths, name \in Names : Resolve(c, who, name, path)
    BY <1>2, AskIsResolve
  <2>2. /\ session[c] \in Sessions /\ session[c].id \in 1..MaxSessions
        /\ UNCHANGED <<at, router, manifest, sidecar, staging, entries, begun, kills, foreign>>
    <3>1. session[c] \in Sessions
      BY <1>2, AskIsResolve, HeldSession
    <3> QED
      BY <1>2, <3>1, AskIsResolve DEF Sessions
  <2> HIDE DEF RoutingTypeOK
  <2>3. PICK asked \in SUBSET Team : Resolved(c, asked, name, path)
    BY <2>1, <2>2, ResolveEffect
  <2>4. session'[c] \in Session
    BY <2>3, SessionIsOne DEF Resolved
  <2>5. [a \in Team |-> IF a \in asked THEN path ELSE typed[session[c].id][a]] \in [Team -> Paths]
    BY <2>2 DEF RoutingTypeOK
  <2>6. typed' \in [1..MaxSessions -> [Team -> Paths]]
    BY <2>2, <2>3, <2>5 DEF RoutingTypeOK, Resolved
  <2>7. session' \in [Conductors -> Session]
    BY <2>3, <2>4 DEF RoutingTypeOK, Resolved
  <2>8. /\ answered' = [answered EXCEPT ![c] = answered[c] \cup {who}]
        /\ clashed' \subseteq clashed \cup {session[c].id}
    BY <2>1 DEF Resolve, RoutingTypeOK
  <2>9. answered' \in [Conductors -> SUBSET ({0} \cup Team)] /\ clashed' \subseteq 1..MaxSessions
    BY <2>2, <2>8 DEF RoutingTypeOK
  <2> QED
    BY <2>2, <2>6, <2>7, <2>9 DEF RoutingTypeOK
<1>3. ASSUME NEW c \in Conductors, Confirm(c) PROVE RoutingTypeOK'
  <2>1. session[c] \in Sessions
    BY <1>3, HeldSession DEF Confirm
  <2>2. [id |-> session[c].id, paths |-> NoPaths] \in [id : 0..MaxSessions, paths : Known]
    BY <2>1, NoPathsIsKnown, RoutingAssumption DEF Sessions, RoutingAssumption
  <2> QED
    BY <1>3, <2>2 DEF Confirm, Goto
<1>4. ASSUME NEW c \in Conductors, Abort(c) PROVE RoutingTypeOK'
  BY <1>4, LeaveTypes DEF Abort
<1>5. ASSUME NEW c \in Conductors, Distribute(c) PROVE RoutingTypeOK'
  <2>1. session[c] \in Sessions
    BY <1>5, HeldSession DEF Distribute
  <2>2. session[c].id \in 1..MaxSessions
    BY <2>1 DEF Sessions
  <2> QED
    BY <1>5, <2>2 DEF Distribute, Goto
<1>6. ASSUME NEW c \in Conductors, ResumeSession(c) PROVE RoutingTypeOK'
  <2>1. manifest \in Sessions
    BY <1>6, SessionOrNone DEF ResumeSession
  <2>2. [manifest EXCEPT !.paths = NoPaths] \in Sessions
    BY <2>1, NoPathsIsKnown DEF Sessions
  <2>3. [manifest EXCEPT !.paths = NoPaths] \in Session
    BY <2>2, SessionIsOne
  <2> QED
    BY <1>6, <2>3 DEF ResumeSession, Goto
<1>7. ASSUME NEW c \in Conductors, Route(c) PROVE RoutingTypeOK'
  <2>1. session[c] \in Sessions
    BY <1>7, HeldSession DEF Route
  <2>2. session[c].id \in 1..MaxSessions /\ Registered(session[c], sidecar.paths) \in Known
    BY <2>1, RegisteredKnows DEF Sessions
  <2> QED
    BY <1>7, <2>2 DEF Route, Goto
<1>8. ASSUME NEW c \in Conductors, Commit(c) PROVE RoutingTypeOK'
  <2>1. session[c] \in Sessions /\ (MultiRepo(session[c]) => Default \in DOMAIN router[c])
    BY <1>8, HeldSession DEF Commit, Routed
  <2>2. Entries(c) \subseteq [id : 1..MaxSessions, repo : Names, agents : SUBSET Team,
                                    copied : Paths, path : Paths]
    <3> HIDE DEF RoutingTypeOK
    <3> QED BY <2>1, EntriesOf
  <2> QED
    BY <1>8, <2>2, LeaveTypes DEF Commit
<1>9. ASSUME NEW c \in Conductors, StopConductor(c) PROVE RoutingTypeOK'
  <2>1. kills' \in 0..MaxKills
    BY <1>9, RoutingAssumption DEF StopConductor, RoutingAssumption
  <2> QED
    BY <1>9, <2>1, LeaveTypes DEF StopConductor
<1>10. ASSUME NEW c \in Conductors, FillSidecar(c) PROVE RoutingTypeOK'
  <2>1. session[c] \in Sessions
    BY <1>10, HeldSession DEF FillSidecar
  <2>2. [id |-> session[c].id, paths |-> session[c].paths] \in [id : 0..MaxSessions, paths : Known]
    BY <2>1, RoutingAssumption DEF Sessions, RoutingAssumption
  <2> QED
    BY <1>10, <2>2 DEF FillSidecar, Goto
<1>11. ASSUME NEW c \in Conductors, UpdateState(c) PROVE RoutingTypeOK'
  BY <1>11 DEF UpdateState, conductor
<1>12. CASE UNCHANGED routingVars
  BY <1>12 DEF routingVars, conductor
<1>13. QED
  BY <1>1, <1>2, <1>3, <1>4, <1>5, <1>6, <1>7, <1>8, <1>9, <1>10, <1>11, <1>12, RouteSteps

----------------------------------------------------------------------------
(* Whose a session is *)

\* The wizard's answers leave every session its id, and everything else as it is.
LEMMA AskKeepsIds ==
  ASSUME RoutingTypeOK, Held,
         NEW c \in Conductors, NEW who \in {0} \cup Team, Ask(c, who)
  PROVE  /\ \A d \in Conductors : session'[d].id = session[d].id
         /\ \A d \in Conductors : at[d] # "off" => session'[d] # NoSession
         /\ clashed' \subseteq clashed \cup {session[c].id}
         /\ at[c] = "wizard" /\ session[c] \in Sessions
         /\ UNCHANGED <<at, router, manifest, sidecar, staging, entries, begun, kills, foreign>>
<1>1. at[c] = "wizard"
      /\ UNCHANGED <<at, router, manifest, sidecar, staging, entries, begun, kills, foreign>>
  BY AskIsResolve
<1>2. PICK path \in Paths, name \in Names : Resolve(c, who, name, path)
  BY AskIsResolve
<1>3. session[c] \in Sessions
  BY <1>1, HeldSession
<1>4. PICK asked \in SUBSET Team : Resolved(c, asked, name, path)
  BY <1>2, <1>3, ResolveEffect
<1>5. session'[c] # NoSession /\ session'[c].id = session[c].id
      /\ session' = [session EXCEPT ![c] = session'[c]]
  BY <1>4, SessionIsOne DEF Resolved
<1>6. \A d \in Conductors : d # c => session'[d] = session[d]
  BY <1>5 DEF RoutingTypeOK
<1>7. clashed' \subseteq clashed \cup {session[c].id}
  BY <1>2 DEF Resolve
<1>8. QED
  BY <1>1, <1>3, <1>5, <1>6, <1>7 DEF Held

\* A conductor that leaves takes nothing along.
LEMMA LeaveEffect ==
  ASSUME RoutingTypeOK, NEW c \in Conductors, Leave(c)
  PROVE  /\ at'[c] = "off" /\ router'[c] = NoPaths
         /\ \A d \in Conductors : d # c =>
              at'[d] = at[d] /\ session'[d] = session[d] /\ router'[d] = router[d]
  BY DEF RoutingTypeOK, Leave, Goto

LEMMA HeldStep ==
  ASSUME RoutingTypeOK, Held, Routed, [RoutingNext]_routingVars
  PROVE  Held'
<1>0. /\ begun \in Nat /\ \A d \in Conductors : session[d].id \in Nat
      /\ manifest.id \in Nat /\ sidecar.id \in Nat
      /\ \A i \in staging \cup clashed \cup foreign : i \in Nat
      /\ \A e \in entries : e.id \in Nat
  <2>1. \A s \in Session : s.id \in Nat
    BY SessionOrNone, RoutingAssumption DEF RoutingAssumption
  <2>2. \A e \in entries : e.id \in 1..MaxSessions
    BY DEF RoutingTypeOK
  <2> QED
    BY <2>1, <2>2, RoutingAssumption DEF RoutingTypeOK, RoutingAssumption
<1> USE DEF Held, disk, history
<1>1. ASSUME NEW c \in Conductors, NEW root \in Roots, Begin(c, root)
      PROVE  Held'
  <2> HIDE DEF Held
  <2>1. /\ begun' = begun + 1 /\ session'[c] # NoSession /\ session'[c].id = begun'
        /\ at'[c] = "wizard" /\ at[c] = "off"
        /\ \A d \in Conductors : d # c => session'[d] = session[d] /\ at'[d] = at[d]
        /\ UNCHANGED <<router, manifest, sidecar, staging, entries, clashed, foreign>>
    BY <1>1, BeginEffect
  <2>3. \A x \in Nat : x <= begun => x <= begun'
    BY <1>0, <2>1
  <2>4. begun' <= begun'
    BY <1>0, <2>1
  <2> QED
    BY <1>0, <2>1, <2>3, <2>4 DEF Held
<1>2. ASSUME NEW c \in Conductors, NEW who \in {0} \cup Team, Ask(c, who)
      PROVE  Held'
  <2>1. session[c].id <= begun
    BY <1>2, AskKeepsIds
  <2> HIDE DEF Held
  <2>2. /\ \A d \in Conductors : session'[d].id = session[d].id
        /\ \A d \in Conductors : at[d] # "off" => session'[d] # NoSession
        /\ clashed' \subseteq clashed \cup {session[c].id}
        /\ UNCHANGED <<at, router, manifest, sidecar, staging, entries, begun, foreign>>
    BY <1>2, AskKeepsIds
  <2> QED
    BY <2>1, <2>2 DEF Held
<1>3. ASSUME NEW c \in Conductors, Confirm(c) PROVE Held'
  BY <1>3 DEF Confirm, Goto, RoutingTypeOK
<1>4. ASSUME NEW c \in Conductors, Abort(c) PROVE Held'
  BY <1>4, LeaveEffect DEF Abort
<1>5. ASSUME NEW c \in Conductors, Distribute(c) PROVE Held'
  BY <1>5 DEF Distribute, Goto, RoutingTypeOK
<1>6. ASSUME NEW c \in Conductors, ResumeSession(c) PROVE Held'
  <2>1. manifest \in Sessions
    BY <1>6, SessionOrNone DEF ResumeSession, RoutingTypeOK
  <2>2. [manifest EXCEPT !.paths = NoPaths] \in Sessions
        /\ [manifest EXCEPT !.paths = NoPaths].id = manifest.id
    BY <2>1, NoPathsIsKnown DEF Sessions
  <2>3. [manifest EXCEPT !.paths = NoPaths] # NoSession
    BY <2>2, SessionIsOne
  <2> QED
    BY <1>6, <2>2, <2>3 DEF ResumeSession, Goto, RoutingTypeOK
<1>7. ASSUME NEW c \in Conductors, Route(c) PROVE Held'
  BY <1>7 DEF Route, Goto, RoutingTypeOK
<1>8. ASSUME NEW c \in Conductors, Commit(c) PROVE Held'
  <2>1. session[c] \in Sessions /\ (MultiRepo(session[c]) => Default \in DOMAIN router[c])
    BY <1>8, HeldSession DEF Commit, Routed
  <2>2. \A e \in Entries(c) : e.id = session[c].id
    BY <2>1, EntriesOf
  <2> QED
    BY <1>8, <2>2, LeaveEffect DEF Commit
<1>9. ASSUME NEW c \in Conductors, StopConductor(c) PROVE Held'
  BY <1>9, LeaveEffect DEF StopConductor
<1>10. ASSUME NEW c \in Conductors, FillSidecar(c) PROVE Held'
  BY <1>10 DEF FillSidecar, Goto, RoutingTypeOK
<1>11. ASSUME NEW c \in Conductors, UpdateState(c) PROVE Held'
  BY <1>11 DEF UpdateState, conductor
<1>12. CASE UNCHANGED routingVars
  BY <1>12 DEF routingVars, conductor
<1>13. QED
  BY <1>1, <1>2, <1>3, <1>4, <1>5, <1>6, <1>7, <1>8, <1>9, <1>10, <1>11, <1>12, RouteSteps

LEMMA PrivateStep ==
  ASSUME RoutingTypeOK, Held, Routed, Private, [RoutingNext]_routingVars
  PROVE  Private'
<1> USE DEF Private, Alone, disk, history
<1>1. ASSUME NEW c \in Conductors, NEW root \in Roots, Begin(c, root)
      PROVE  Private'
  <2>1. /\ begun' = begun + 1 /\ session'[c].id = begun' /\ at'[c] = "wizard"
        /\ \A d \in Conductors : d # c => session'[d] = session[d] /\ at'[d] = at[d]
        /\ at[c] = "off"
        /\ UNCHANGED <<router, manifest, sidecar, staging, entries, clashed, foreign>>
    BY <1>1, BeginEffect
  <2>2. \A x : x <= begun => x # begun'
    <3>1. begun \in Nat
      BY RoutingAssumption DEF RoutingTypeOK, RoutingAssumption
    <3> QED
      BY <2>1, <3>1
  <2>3. /\ \A d \in Conductors : at[d] # "off" => session[d].id # begun'
        /\ manifest.id # begun' /\ sidecar.id # begun' /\ begun' \notin staging
        /\ \A e \in entries : e.id # begun'
    BY <2>2 DEF Held
  <2> QED
    BY <2>1, <2>3
<1>2. ASSUME NEW c \in Conductors, NEW who \in {0} \cup Team, Ask(c, who)
      PROVE  Private'
  BY <1>2, AskKeepsIds
<1>3. ASSUME NEW c \in Conductors, Confirm(c) PROVE Private'
  <2>1. PICK place \in {"save", "prime"} : at' = [at EXCEPT ![c] = place]
    BY <1>3 DEF Confirm, Goto
  <2>2. /\ at[c] = "wizard" /\ sidecar'.id \in {sidecar.id, session[c].id}
        /\ UNCHANGED <<session, router, manifest, staging, entries>>
    BY <1>3 DEF Confirm
  <2> QED
    BY <2>1, <2>2 DEF RoutingTypeOK
<1>4. ASSUME NEW c \in Conductors, Abort(c) PROVE Private'
  BY <1>4, LeaveEffect DEF Abort
<1>5. ASSUME NEW c \in Conductors, Distribute(c) PROVE Private'
  BY <1>5 DEF Distribute, Goto, RoutingTypeOK
<1>6. ASSUME NEW c \in Conductors, ResumeSession(c) PROVE Private'
  <2>1. /\ at[c] = "off" /\ at'[c] = "route" /\ session'[c].id = manifest.id
        /\ \A d \in Conductors : d # c => session'[d] = session[d] /\ at'[d] = at[d]
        /\ UNCHANGED <<router, manifest, sidecar, staging, entries>>
    <3>1. manifest \in Sessions
      BY <1>6, SessionOrNone DEF ResumeSession, RoutingTypeOK
    <3> QED
      BY <1>6, <3>1 DEF ResumeSession, Goto, RoutingTypeOK, Sessions
  <2> QED
    BY <2>1
<1>7. ASSUME NEW c \in Conductors, Route(c) PROVE Private'
  BY <1>7 DEF Route, Goto, RoutingTypeOK
<1>8. ASSUME NEW c \in Conductors, Commit(c) PROVE Private'
  <2>1. session[c] \in Sessions /\ (MultiRepo(session[c]) => Default \in DOMAIN router[c])
    BY <1>8, HeldSession DEF Commit, Routed
  <2>2. \A e \in Entries(c) : e.id = session[c].id
    BY <2>1, EntriesOf
  <2>3. at[c] = "agents" /\ entries' \subseteq entries \cup Entries(c) /\ staging' \subseteq staging
        /\ UNCHANGED <<manifest, sidecar>>
    BY <1>8 DEF Commit
  <2> QED
    BY <1>8, <2>2, <2>3, LeaveEffect DEF Commit
<1>9. ASSUME NEW c \in Conductors, StopConductor(c) PROVE Private'
  BY <1>9, LeaveEffect DEF StopConductor
<1>10. ASSUME NEW c \in Conductors, FillSidecar(c) PROVE Private'
  <2>1. /\ at[c] = "save" /\ at' = [at EXCEPT ![c] = "prime"] /\ sidecar'.id = session[c].id
        /\ UNCHANGED <<session, router, manifest, staging, entries>>
    BY <1>10 DEF FillSidecar, Goto
  <2> QED
    BY <2>1 DEF RoutingTypeOK
<1>11. ASSUME NEW c \in Conductors, UpdateState(c) PROVE Private'
  BY <1>11 DEF UpdateState, conductor
<1>12. CASE UNCHANGED routingVars
  BY <1>12 DEF routingVars, conductor
<1>13. QED
  BY <1>1, <1>2, <1>3, <1>4, <1>5, <1>6, <1>7, <1>8, <1>9, <1>10, <1>11, <1>12, RouteSteps

----------------------------------------------------------------------------
(* What a session's names mean *)

LEMMA BeginTargets ==
  ASSUME RoutingTypeOK, Held, Targets,
         NEW c \in Conductors, NEW root \in Roots, Begin(c, root)
  PROVE  Targets'
<1> DEFINE new == New(begun', root)
<1>1. /\ session'[c] = new /\ at'[c] = "wizard"
      /\ \A d \in Conductors : d # c => session'[d] = session[d] /\ at'[d] = at[d]
      /\ UNCHANGED <<manifest, sidecar, clashed>>
  <2>1. session' = [session EXCEPT ![c] = new]
    BY BeginEffect
  <2>2. session'[c] = new
    BY <2>1 DEF RoutingTypeOK
  <2> QED
    BY <2>2, BeginEffect
<1>2. begun' \in 1..MaxSessions /\ \A x : x <= begun => x # begun'
  <2>1. begun \in Nat
    BY RoutingAssumption DEF RoutingTypeOK, RoutingAssumption
  <2>2. begun' = begun + 1 /\ begun' \in 1..MaxSessions
    BY BeginEffect
  <2> QED
    BY <2>1, <2>2
<1>3. typed'[begun'] = [a \in Team |-> root] /\ \A i : i # begun' => typed'[i] = typed[i]
  <2>1. typed' = [typed EXCEPT ![begun'] = [a \in Team |-> root]]
    BY BeginEffect
  <2> QED
    BY <1>2, <2>1 DEF RoutingTypeOK
<1>4. new.id = begun' /\ new.root = root /\ \A a \in Team : new.repo[a] = Default
  BY DEF New, Default
<1> HIDE DEF new
<1>5. (OnTarget(session[c]) /\ Means(session[c], session[c].paths))'
  BY <1>1, <1>3, <1>4 DEF OnTarget, Means
<1>6. \A d \in Conductors : d # c =>
        /\ at'[d] # "off" => OnTarget(session[d])'
        /\ at'[d] \in {"prime", "route", "agents"} => Carried(session[d])'
        /\ Alone(d)' => Means(session[d], session[d].paths)'
  <2> TAKE d \in Conductors
  <2> SUFFICES ASSUME d # c, at[d] # "off"
               PROVE  /\ OnTarget(session[d])'
                      /\ at'[d] \in {"prime", "route", "agents"} => Carried(session[d])'
                      /\ Alone(d)' => Means(session[d], session[d].paths)'
    BY <1>1 DEF Alone
  <2>1. typed'[session[d].id] = typed[session[d].id]
    BY <1>2, <1>3 DEF Held
  <2> QED
    BY <1>1, <2>1 DEF Targets, Carried, OnTarget, Means, Alone
<1>7. manifest' # NoSession => Carried(manifest)'
  <2>1. typed'[manifest.id] = typed[manifest.id]
    BY <1>2, <1>3 DEF Held
  <2> QED
    BY <1>1, <2>1 DEF Targets, Carried, OnTarget, Means
<1>8. QED
  BY <1>1, <1>5, <1>6, <1>7 DEF Targets

\* An answer is what it says: unless a name was to mean two paths, the session's
\* names go on meaning what was entered.
LEMMA AnswerMeans ==
  ASSUME RoutingTypeOK, NEW c \in Conductors, session[c] \in Sessions,
         OnTarget(session[c]), Means(session[c], session[c].paths),
         NEW who \in {0} \cup Team, NEW name \in Names, NEW path \in Paths,
         Resolve(c, who, name, path)
  PROVE  (OnTarget(session[c]) /\ Means(session[c], session[c].paths))'
<1> DEFINE s == session[c]
<1>1. PICK asked \in SUBSET Team : Resolved(c, asked, name, path)
  BY ResolveEffect
<1>2. /\ s'.id = s.id /\ s'.root = s.root /\ s.paths \in Known /\ s.id \in 1..MaxSessions
      /\ s'.paths = With(s.paths, name, path)
      /\ \A a \in Team : s'.repo[a] = IF a \in asked THEN name ELSE s.repo[a]
  BY <1>1 DEF Resolved, Sessions
<1>3. \A a \in Team : typed'[s.id][a] = IF a \in asked THEN path ELSE typed[s.id][a]
  BY <1>1, <1>2 DEF Resolved, RoutingTypeOK
<1>4. /\ DOMAIN s'.paths = DOMAIN s.paths \cup {name}
      /\ \A n \in DOMAIN s.paths : s'.paths[n] = s.paths[n]
      /\ name \notin DOMAIN s.paths => s'.paths[name] = path
  <2> DEFINE f == s.paths
             g == With(f, name, path)
  <2>1. f \in Known /\ s'.paths = g
    BY <1>2
  <2> HIDE DEF f
  <2>2. /\ DOMAIN g = DOMAIN f \cup {name} /\ \A n \in DOMAIN f : g[n] = f[n]
        /\ name \notin DOMAIN f => g[name] = path
    BY <2>1, WithKnows
  <2> HIDE DEF g
  <2> QED
    BY <2>1, <2>2 DEF f
<1>5. clashed' = IF name \in DOMAIN Meaning(s) /\ Meaning(s)[name] # path
                 THEN clashed \cup {s.id} ELSE clashed
  BY DEF Resolve
<1>6. /\ DOMAIN Meaning(s) = DOMAIN s.paths \cup {Default}
      /\ \A n \in DOMAIN s.paths \cup {Default} :
           Meaning(s)[n] = IF n = Default THEN s.root ELSE s.paths[n]
  BY DEF Meaning, Default
<1>7. s.id \notin clashed' =>
        /\ s.id \notin clashed
        /\ name = Default => path = s.root
        /\ name # Default => s'.paths[name] = path
  BY <1>4, <1>5, <1>6
<1> HIDE DEF s
<1>8. OnTarget(s)'
  BY <1>2, <1>3, <1>7 DEF OnTarget, s
<1>9. Means(s, s.paths)'
  BY <1>2, <1>3, <1>4, <1>7 DEF Means, s
<1>10. QED
  BY <1>8, <1>9 DEF s

\* No answer is about a session that anyone else holds.
LEMMA AskElsewhere ==
  ASSUME RoutingTypeOK, Held, Private,
         NEW c \in Conductors, NEW who \in {0} \cup Team, Ask(c, who)
  PROVE  /\ \A d \in Conductors : d # c => session'[d] = session[d]
         /\ \A i : i # session[c].id => typed'[i] = typed[i] /\ (i \in clashed' <=> i \in clashed)
<1>1. PICK path \in Paths, name \in Names : Resolve(c, who, name, path)
  BY AskIsResolve
<1>2. session[c] \in Sessions
  BY AskKeepsIds
<1>3. PICK asked \in SUBSET Team : Resolved(c, asked, name, path)
  BY <1>1, <1>2, ResolveEffect
<1>4. \A d \in Conductors : d # c => session'[d] = session[d]
  BY <1>3 DEF Resolved, RoutingTypeOK
<1>5. \A i : i # session[c].id => typed'[i] = typed[i]
  BY <1>2, <1>3 DEF Resolved, RoutingTypeOK, Sessions
<1>6. clashed' = clashed \/ clashed' = clashed \cup {session[c].id}
  BY <1>1 DEF Resolve
<1>7. QED
  BY <1>4, <1>5, <1>6

LEMMA AskTargets ==
  ASSUME RoutingTypeOK, Held, Private, Targets,
         NEW c \in Conductors, NEW who \in {0} \cup Team, Ask(c, who)
  PROVE  Targets'
<1>1. at[c] = "wizard" /\ session[c] \in Sessions /\ UNCHANGED <<at, manifest, sidecar>>
  BY AskKeepsIds
<1>2. (OnTarget(session[c]) /\ Means(session[c], session[c].paths))'
  <2>1. PICK path \in Paths, name \in Names : Resolve(c, who, name, path)
    BY AskIsResolve
  <2>2. OnTarget(session[c]) /\ Means(session[c], session[c].paths)
    BY <1>1 DEF Targets, Alone
  <2> QED
    BY <1>1, <2>1, <2>2, AnswerMeans
<1>3. \A d \in Conductors : d # c =>
        /\ at'[d] # "off" => OnTarget(session[d])'
        /\ at'[d] \in {"prime", "route", "agents"} => Carried(session[d])'
        /\ Alone(d)' => Means(session[d], session[d].paths)'
  <2> TAKE d \in Conductors
  <2> SUFFICES ASSUME d # c, at[d] # "off"
               PROVE  /\ OnTarget(session[d])'
                      /\ at'[d] \in {"prime", "route", "agents"} => Carried(session[d])'
                      /\ Alone(d)' => Means(session[d], session[d].paths)'
    BY <1>1 DEF Alone
  <2>1. session[d].id # session[c].id /\ session'[d] = session[d]
    BY <1>1, AskElsewhere DEF Private, Alone
  <2>2. typed'[session[d].id] = typed[session[d].id]
        /\ (session[d].id \in clashed' <=> session[d].id \in clashed)
    BY <2>1, AskElsewhere
  <2> QED
    BY <1>1, <2>1, <2>2 DEF Targets, Carried, OnTarget, Means, Alone
<1>4. manifest' # NoSession => Carried(manifest)'
  <2>1. manifest.id # session[c].id
    BY <1>1 DEF Private, Alone
  <2>2. typed'[manifest.id] = typed[manifest.id] /\ (manifest.id \in clashed' <=> manifest.id \in clashed)
    BY <2>1, AskElsewhere
  <2> QED
    BY <1>1, <2>2 DEF Targets, Carried, OnTarget, Means
<1>5. at'[c] \notin {"prime", "route", "agents"}
  BY <1>1
<1>6. QED
  BY <1>2, <1>3, <1>4, <1>5 DEF Targets

LEMMA TargetsStep ==
  ASSUME RoutingTypeOK, Held, Private, Targets, [RoutingNext]_routingVars
  PROVE  Targets'
<1>1. ASSUME NEW c \in Conductors, NEW root \in Roots, Begin(c, root)
      PROVE  Targets'
  BY <1>1, BeginTargets
<1>2. ASSUME NEW c \in Conductors, NEW who \in {0} \cup Team, Ask(c, who)
      PROVE  Targets'
  BY <1>2, AskTargets
<1> USE DEF Targets, Carried, OnTarget, Means, Alone, disk, history
<1>3. ASSUME NEW c \in Conductors, Confirm(c) PROVE Targets'
  <2>1. /\ at[c] = "wizard" /\ session[c].id # sidecar.id
        /\ \/ at' = [at EXCEPT ![c] = "prime"] /\ sidecar' = sidecar
           \/ at' = [at EXCEPT ![c] = "save"] /\ sidecar'.id = session[c].id
        /\ UNCHANGED <<session, manifest, typed, clashed>>
    BY <1>3 DEF Confirm, Goto, Private
  <2>2. /\ at'[c] = "prime" => sidecar' = sidecar
        /\ at'[c] \in {"save", "prime"}
        /\ \A d \in Conductors : d # c => at'[d] = at[d]
    BY <2>1 DEF RoutingTypeOK
  <2>3. at'[c] = "prime" => sidecar'.id # session[c].id
    BY <2>1, <2>2
  <2>4. \A d \in Conductors :
          d # c /\ at[d] # "off" /\ sidecar'.id = session[d].id => sidecar' = sidecar
    BY <2>1 DEF Private
  <2>5. sidecar'.id = manifest.id => sidecar' = sidecar
    BY <2>1 DEF Private
  <2>6. manifest' # NoSession => Carried(manifest)'
    BY <2>1, <2>5
  <2>7. \A d \in Conductors : at'[d] # "off" => OnTarget(session[d])'
    BY <2>1, <2>2
  <2>8. \A d \in Conductors : Alone(d)' => Means(session[d], session[d].paths)'
    BY <2>1, <2>2
  <2>9. \A d \in Conductors : at'[d] \in {"prime", "route", "agents"} => Carried(session[d])'
    BY <2>1, <2>2, <2>3, <2>4
  <2> HIDE DEF Carried, OnTarget, Means, Alone
  <2> QED
    BY <2>6, <2>7, <2>8, <2>9
<1>4. ASSUME NEW c \in Conductors, Abort(c) PROVE Targets'
  BY <1>4, LeaveEffect DEF Abort
<1>5. ASSUME NEW c \in Conductors, Distribute(c) PROVE Targets'
  <2>1. /\ at[c] = "prime" /\ at' = [at EXCEPT ![c] = "route"] /\ manifest' = session[c]
        /\ UNCHANGED <<session, sidecar, typed, clashed>>
    BY <1>5 DEF Distribute, Goto
  <2>2. at'[c] = "route" /\ \A d \in Conductors : d # c => at'[d] = at[d]
    BY <2>1 DEF RoutingTypeOK
  <2> QED
    BY <2>1, <2>2
<1>6. ASSUME NEW c \in Conductors, ResumeSession(c) PROVE Targets'
  <2>1. manifest \in Sessions
    BY <1>6, SessionOrNone DEF ResumeSession, RoutingTypeOK
  <2>2. /\ manifest # NoSession /\ at'[c] = "route"
        /\ session'[c].id = manifest.id /\ session'[c].root = manifest.root
        /\ session'[c].repo = manifest.repo
        /\ \A d \in Conductors : d # c => session'[d] = session[d] /\ at'[d] = at[d]
        /\ UNCHANGED <<manifest, sidecar, typed, clashed>>
    BY <1>6, <2>1 DEF ResumeSession, Goto, RoutingTypeOK, Sessions
  <2> QED
    BY <2>2
<1>7. ASSUME NEW c \in Conductors, Route(c) PROVE Targets'
  BY <1>7 DEF Route, Goto, RoutingTypeOK
<1>8. ASSUME NEW c \in Conductors, Commit(c) PROVE Targets'
  BY <1>8, LeaveEffect DEF Commit
<1>9. ASSUME NEW c \in Conductors, StopConductor(c) PROVE Targets'
  BY <1>9, LeaveEffect DEF StopConductor
<1>10. ASSUME NEW c \in Conductors, FillSidecar(c) PROVE Targets'
  <2>1. /\ at[c] = "save" /\ at' = [at EXCEPT ![c] = "prime"]
        /\ sidecar'.id = session[c].id /\ sidecar'.paths = session[c].paths
        /\ UNCHANGED <<session, manifest, typed, clashed>>
    BY <1>10 DEF FillSidecar, Goto
  <2>2. at'[c] = "prime" /\ \A d \in Conductors : d # c => at'[d] = at[d]
    BY <2>1 DEF RoutingTypeOK
  <2>3. Alone(c)
    BY <2>1
  <2>4. \A d \in Conductors : d # c /\ at[d] # "off" => sidecar'.id # session[d].id
    <3> HIDE DEF Alone
    <3> QED BY <2>1, <2>3 DEF Private
  <2>5. sidecar'.id # manifest.id
    <3> HIDE DEF Alone
    <3> QED BY <2>1, <2>3 DEF Private
  <2>6. manifest' # NoSession => Carried(manifest)'
    BY <2>1, <2>5
  <2>7. \A d \in Conductors : at'[d] # "off" => OnTarget(session[d])'
    BY <2>1, <2>2
  <2>8. \A d \in Conductors : Alone(d)' => Means(session[d], session[d].paths)'
    BY <2>1, <2>2
  <2>9. \A d \in Conductors : at'[d] \in {"prime", "route", "agents"} => Carried(session[d])'
    BY <2>1, <2>2, <2>3, <2>4
  <2> HIDE DEF Carried, OnTarget, Means, Alone
  <2> QED
    BY <2>6, <2>7, <2>8, <2>9
<1>11. ASSUME NEW c \in Conductors, UpdateState(c) PROVE Targets'
  <2>1. /\ at[c] = "agents" /\ manifest' = session[c]
        /\ UNCHANGED <<at, session, sidecar, typed, clashed>>
    BY <1>11 DEF UpdateState, conductor
  <2> QED
    BY <2>1
<1>12. CASE UNCHANGED routingVars
  BY <1>12 DEF routingVars, conductor
<1>13. QED
  <2> HIDE DEF Targets
  <2> QED
    BY <1>1, <1>2, <1>3, <1>4, <1>5, <1>6, <1>7, <1>8, <1>9, <1>10, <1>11, <1>12, RouteSteps

----------------------------------------------------------------------------
(* Routes and entries *)

\* What a router is told of a session, as far as it is the session's own doing.
RoutedWell(c) ==
  /\ Default \in DOMAIN router[c] /\ router[c][Default] = session[c].root
  /\ \A a \in Team :
       PathOf(c, a) # typed[session[c].id][a] =>
         \/ session[c].id \in clashed
         \/ session[c].id \in foreign /\ session[c].repo[a] # Default

\* A router stays right while its session means the same.
LEMMA StaysRouted ==
  ASSUME Routed, NEW d \in Conductors, at[d] = "agents", MultiRepo(session[d]),
         session'[d] = session[d], router'[d] = router[d],
         typed'[session[d].id] = typed[session[d].id], clashed \subseteq clashed',
         foreign \subseteq foreign'
  PROVE  RoutedWell(d)'
<1>1. \A a \in Team : PathOf(d, a)' = PathOf(d, a)
  BY DEF PathOf
<1>2. QED
  BY <1>1 DEF Routed, RoutedWell

LEMMA RouteIsRight ==
  ASSUME RoutingTypeOK, Held, Targets,
         NEW c \in Conductors, Route(c), MultiRepo(session[c])
  PROVE  RoutedWell(c)'
<1> DEFINE s == session[c]
           g == Registered(s, sidecar.paths)
<1>1. at[c] = "route" /\ s \in Sessions /\ s \in Session
      /\ UNCHANGED <<session, typed, clashed>>
  <2>1. at[c] = "route" /\ UNCHANGED <<session, typed, clashed>>
    BY DEF Route
  <2> QED
    BY <2>1, HeldSession DEF RoutingTypeOK
<1>2. router'[c] = g /\ foreign' = IF sidecar.id # s.id THEN foreign \cup {s.id} ELSE foreign
  BY DEF Route, RoutingTypeOK
<1>3. /\ DOMAIN g = ({s.repo[a] : a \in Team} \cap DOMAIN sidecar.paths) \cup {Default}
      /\ g[Default] = s.root
      /\ \A n \in DOMAIN g : n # Default => g[n] = sidecar.paths[n]
  BY <1>1, RegisteredKnows DEF RoutingTypeOK
<1>4. OnTarget(s) /\ (sidecar.id = s.id => Means(s, sidecar.paths))
  BY <1>1 DEF Targets, Carried
<1>5. \A a \in Team :
        PathOf(c, a)' = g[IF s.repo[a] \in DOMAIN g THEN s.repo[a] ELSE Default]
  BY <1>1, <1>2 DEF PathOf, Default
<1> HIDE DEF g
<1>6. ASSUME NEW a \in Team, PathOf(c, a)' # typed[s.id][a], s.id \notin clashed
      PROVE  s.id \in foreign' /\ s.repo[a] # Default
  <2>1. CASE s.repo[a] = Default
    BY <1>3, <1>4, <1>5, <1>6, <2>1 DEF OnTarget
  <2>2. CASE s.repo[a] # Default /\ sidecar.id = s.id
    <3>1. s.repo[a] \in DOMAIN sidecar.paths /\ sidecar.paths[s.repo[a]] = typed[s.id][a]
      BY <1>4, <1>6, <2>2 DEF Means
    <3>2. s.repo[a] \in DOMAIN g
      BY <1>3, <3>1
    <3> QED
      BY <1>3, <1>5, <1>6, <2>2, <3>1, <3>2
  <2>3. CASE s.repo[a] # Default /\ sidecar.id # s.id
    BY <1>2, <2>3
  <2> QED
    BY <2>1, <2>2, <2>3
<1>7. QED
  BY <1>1, <1>2, <1>3, <1>6 DEF RoutedWell

LEMMA RoutedStep ==
  ASSUME RoutingTypeOK, Held, Private, Targets, Routed,
         [RoutingNext]_routingVars
  PROVE  Routed'
<1>0. SUFFICES ASSUME NEW d \in Conductors, at'[d] = "agents", MultiRepo(session[d])'
               PROVE  RoutedWell(d)'
  BY DEF Routed, RoutedWell
<1> USE DEF disk, history
<1>1. ASSUME at[d] = "agents", session'[d] = session[d], router'[d] = router[d],
             typed' = typed, clashed' = clashed, foreign \subseteq foreign'
      PROVE  RoutedWell(d)'
  <2>1. MultiRepo(session[d])
    BY <1>0, <1>1 DEF MultiRepo
  <2> QED
    BY <1>1, <2>1, StaysRouted
<1>2. ASSUME NEW c \in Conductors, NEW root \in Roots, Begin(c, root)
      PROVE  RoutedWell(d)'
  <2>1. d # c /\ at[d] = "agents" /\ session'[d] = session[d]
        /\ UNCHANGED <<router, clashed, foreign>>
    BY <1>0, <1>2, BeginEffect
  <2>2. session[d].id # begun'
    <3>1. begun \in Nat /\ begun' = begun + 1 /\ session[d].id <= begun
      BY <1>2, <2>1, BeginEffect, RoutingAssumption DEF Held, RoutingTypeOK, RoutingAssumption
    <3>2. \A x : x <= begun => x # begun + 1
      BY <3>1
    <3> QED
      BY <3>1, <3>2
  <2>3. typed'[session[d].id] = typed[session[d].id]
    <3>1. typed' = [typed EXCEPT ![begun'] = [a \in Team |-> root]]
      BY <1>2, BeginEffect
    <3>2. session[d].id \in 1..MaxSessions
      BY <2>1, HeldSession DEF Sessions
    <3> QED
      BY <2>2, <3>1, <3>2 DEF RoutingTypeOK
  <2>4. MultiRepo(session[d])
    BY <1>0, <2>1 DEF MultiRepo
  <2> QED
    BY <2>1, <2>3, <2>4, StaysRouted
<1>3. ASSUME NEW c \in Conductors, NEW who \in {0} \cup Team, Ask(c, who)
      PROVE  RoutedWell(d)'
  <2>1. at[c] = "wizard" /\ UNCHANGED <<at, router, foreign>>
    BY <1>3, AskKeepsIds
  <2>2. d # c /\ at[d] = "agents"
    BY <1>0, <2>1
  <2>3. session'[d] = session[d] /\ typed'[session[d].id] = typed[session[d].id]
    <3>1. session[d].id # session[c].id
      <4>1. Alone(c) /\ at[d] # "off"
        BY <2>1, <2>2 DEF Alone
      <4> QED
        BY <2>2, <4>1 DEF Private
    <3>2. /\ \A e \in Conductors : e # c => session'[e] = session[e]
          /\ \A i : i # session[c].id => typed'[i] = typed[i]
      BY <1>3, AskElsewhere
    <3> QED
      BY <2>2, <3>1, <3>2
  <2>4. clashed \subseteq clashed'
    <3>1. \E path \in Paths, name \in Names : Resolve(c, who, name, path)
      BY <1>3, AskIsResolve
    <3> QED
      BY <3>1 DEF Resolve
  <2>5. MultiRepo(session[d])
    BY <1>0, <2>3 DEF MultiRepo
  <2> QED
    BY <2>1, <2>2, <2>3, <2>4, <2>5, StaysRouted
<1>4. ASSUME NEW c \in Conductors, Confirm(c) \/ FillSidecar(c) \/ Distribute(c) \/ UpdateState(c)
      PROVE  RoutedWell(d)'
  <2>1. at[d] = "agents"
    BY <1>0, <1>4 DEF Confirm, FillSidecar, Distribute, UpdateState, conductor, Goto, RoutingTypeOK
  <2> QED
    BY <1>1, <1>4, <2>1 DEF Confirm, FillSidecar, Distribute, UpdateState, conductor
<1>5. ASSUME NEW c \in Conductors, Abort(c) \/ Commit(c) \/ StopConductor(c)
      PROVE  RoutedWell(d)'
  <2>1. Leave(c) /\ UNCHANGED <<typed, clashed, foreign>>
    BY <1>5 DEF Abort, Commit, StopConductor
  <2> QED
    BY <1>0, <1>1, <2>1, LeaveEffect
<1>6. ASSUME NEW c \in Conductors, ResumeSession(c) PROVE RoutedWell(d)'
  <2>1. at[d] = "agents" /\ session'[d] = session[d]
    BY <1>0, <1>6 DEF ResumeSession, Goto, RoutingTypeOK
  <2> QED
    BY <1>1, <1>6, <2>1 DEF ResumeSession
<1>7. ASSUME NEW c \in Conductors, Route(c) PROVE RoutedWell(d)'
  <2>1. /\ at' = [at EXCEPT ![c] = "agents"] /\ UNCHANGED <<session, typed, clashed>>
        /\ foreign \subseteq foreign'
    BY <1>7 DEF Route, Goto
  <2>2. CASE d = c
    <3>1. MultiRepo(session[c])
      BY <1>0, <2>1, <2>2 DEF MultiRepo
    <3> QED
      BY <1>7, <2>2, <3>1, RouteIsRight
  <2>3. CASE d # c
    <3>1. at[d] = "agents"
      BY <1>0, <2>1, <2>3 DEF RoutingTypeOK
    <3>2. router'[d] = router[d]
      BY <1>7, <2>3 DEF Route, RoutingTypeOK
    <3> QED
      BY <1>1, <2>1, <3>1, <3>2
  <2> QED
    BY <2>2, <2>3
<1>8. CASE UNCHANGED routingVars
  BY <1>0, <1>1, <1>8 DEF routingVars, conductor
<1>9. QED
  BY <1>2, <1>3, <1>4, <1>5, <1>6, <1>7, <1>8, RouteSteps

\* An entry stays right while the queue has it.
LEMMA EntriesStay ==
  ASSUME RoutedAsTyped, CopiedWhereQueued, entries' = entries,
         \A e \in entries : typed'[e.id] = typed[e.id],
         clashed \subseteq clashed', foreign \subseteq foreign'
  PROVE  (RoutedAsTyped /\ CopiedWhereQueued)'
  BY DEF RoutedAsTyped, CopiedWhereQueued, Default

LEMMA EntriesAreRight ==
  ASSUME RoutingTypeOK, Held, Targets, Routed,
         NEW c \in Conductors, at[c] = "agents", NEW e \in Entries(c)
  PROVE  /\ \A a \in Team : a \in e.agents =>
              (e.path # typed[e.id][a] => e.id \in clashed \/ (e.id \in foreign /\ e.repo # Default))
         /\ e.copied = e.path
         /\ e.agents \subseteq Team
<1> DEFINE s == session[c]
<1>1. s \in Sessions /\ (MultiRepo(s) => RoutedWell(c))
  BY HeldSession DEF Routed, RoutedWell
<1>2. MultiRepo(s) => Default \in DOMAIN router[c]
  BY <1>1 DEF RoutedWell
<1>3. /\ e.id = s.id /\ e.agents \subseteq Team
      /\ MultiRepo(s) =>
           \A a \in Team : a \in e.agents => s.repo[a] = e.repo /\ e.path = PathOf(c, a)
      /\ MultiRepo(s) =>
           \E a \in Team : /\ e.repo = s.repo[a] /\ e.path = PathOf(c, a)
                           /\ e.copied = CopyRoot(c, e.repo)
      /\ ~MultiRepo(s) => e.repo = Default /\ e.path = s.root /\ e.copied = s.root
  BY <1>1, <1>2, EntriesOf
<1>4. CASE MultiRepo(s)
  <2>1. e.copied = e.path
    <3>1. router[c][Default] = s.root
      BY <1>1, <1>4 DEF RoutedWell
    <3> QED
      BY <1>3, <1>4, <3>1 DEF PathOf, CopyRoot, Default
  <2> QED
    BY <1>1, <1>3, <1>4, <2>1 DEF RoutedWell
<1>5. CASE ~MultiRepo(s)
  <2>1. \A a \in Team : s.repo[a] = Default
    BY <1>5 DEF MultiRepo, Default
  <2>2. OnTarget(s)
    BY DEF Targets
  <2> QED
    BY <1>3, <1>5, <2>1, <2>2 DEF OnTarget
<1>6. QED
  BY <1>4, <1>5

LEMMA EntriesStep ==
  ASSUME RoutingTypeOK, Held, Private, Targets, Routed,
         RoutedAsTyped, CopiedWhereQueued, [RoutingNext]_routingVars
  PROVE  (RoutedAsTyped /\ CopiedWhereQueued)'
<1> USE DEF disk, history
<1>1. ASSUME NEW c \in Conductors, NEW root \in Roots, Begin(c, root)
      PROVE  (RoutedAsTyped /\ CopiedWhereQueued)'
  <2>1. /\ typed' = [typed EXCEPT ![begun'] = [a \in Team |-> root]] /\ begun' = begun + 1
        /\ UNCHANGED <<entries, clashed, foreign>>
    BY <1>1, BeginEffect
  <2>2. begun \in Nat
    BY RoutingAssumption DEF RoutingTypeOK, RoutingAssumption
  <2>3. \A x : x <= begun => x # begun + 1
    BY <2>2
  <2>4. \A e \in entries : e.id # begun' /\ e.id \in 1..MaxSessions
    BY <2>1, <2>3 DEF Held, RoutingTypeOK
  <2>5. \A e \in entries : typed'[e.id] = typed[e.id]
    BY <2>1, <2>4 DEF RoutingTypeOK
  <2> QED
    BY <2>1, <2>5, EntriesStay
<1>2. ASSUME NEW c \in Conductors, NEW who \in {0} \cup Team, Ask(c, who)
      PROVE  (RoutedAsTyped /\ CopiedWhereQueued)'
  <2>1. at[c] = "wizard" /\ UNCHANGED <<entries, foreign>>
    BY <1>2, AskKeepsIds
  <2>2. \A e \in entries : typed'[e.id] = typed[e.id]
    BY <1>2, <2>1, AskElsewhere DEF Private, Alone
  <2>3. clashed \subseteq clashed'
    <3>1. \E path \in Paths, name \in Names : Resolve(c, who, name, path)
      BY <1>2, AskIsResolve
    <3> QED
      BY <3>1 DEF Resolve
  <2> QED
    BY <2>1, <2>2, <2>3, EntriesStay
<1>3. ASSUME NEW c \in Conductors,
             \/ Confirm(c) \/ FillSidecar(c) \/ Abort(c) \/ Distribute(c)
             \/ ResumeSession(c) \/ Route(c) \/ UpdateState(c) \/ StopConductor(c)
      PROVE  (RoutedAsTyped /\ CopiedWhereQueued)'
  <2>1. UNCHANGED <<entries, typed, clashed>> /\ foreign \subseteq foreign'
    BY <1>3 DEF Confirm, FillSidecar, Abort, Distribute, ResumeSession, Route, UpdateState,
                StopConductor
  <2> QED
    BY <2>1, EntriesStay
<1>4. ASSUME NEW c \in Conductors, Commit(c)
      PROVE  (RoutedAsTyped /\ CopiedWhereQueued)'
  <2>1. /\ at[c] = "agents" /\ entries' \subseteq entries \cup Entries(c)
        /\ UNCHANGED <<typed, clashed, foreign>>
    BY <1>4 DEF Commit
  <2>2. \A e \in Entries(c) :
          /\ \A a \in e.agents :
               e.path # typed[e.id][a] => e.id \in clashed \/ (e.id \in foreign /\ e.repo # Default)
          /\ e.copied = e.path
    BY <2>1, EntriesAreRight
  <2> QED
    BY <2>1, <2>2 DEF RoutedAsTyped, CopiedWhereQueued, Default
<1>5. CASE UNCHANGED routingVars
  BY <1>5, EntriesStay DEF routingVars, conductor
<1>6. QED
  BY <1>1, <1>2, <1>3, <1>4, <1>5, RouteSteps

----------------------------------------------------------------------------
(* Theorems about routing *)

LEMMA RouteInit == ASSUME RoutingInit PROVE RouteInv
<1>1. RoutingTypeOK
  <2>1. NoSession \in Session /\ MaxSessions \in Nat /\ MaxKills \in Nat
    BY RoutingAssumption DEF Session, RoutingAssumption
  <2>2. (CHOOSE p \in Paths : TRUE) \in Paths
    BY RoutingAssumption DEF RoutingAssumption
  <2> QED
    BY <2>1, <2>2, NoPathsIsKnown DEF RoutingInit, RoutingTypeOK
<1>2. Held
  <2>1. begun \in Nat /\ begun = 0
    BY DEF RoutingInit
  <2> QED
    BY <2>1 DEF RoutingInit, Held, NoSession
<1>3. Private
  BY DEF RoutingInit, Private, Alone
<1>4. Targets /\ Routed
  BY DEF RoutingInit, Targets, Routed, Alone
<1>5. RoutedAsTyped /\ CopiedWhereQueued
  BY DEF RoutingInit, RoutedAsTyped, CopiedWhereQueued
<1>6. QED
  BY <1>1, <1>2, <1>3, <1>4, <1>5 DEF RouteInv

LEMMA RouteStep ==
  ASSUME RouteInv, [RoutingNext]_routingVars
  PROVE  RouteInv'
<1>1. RoutingTypeOK' /\ Held' /\ Private'
  BY RouteTypes, HeldStep, PrivateStep DEF RouteInv
<1>2. Targets' /\ Routed' /\ (RoutedAsTyped /\ CopiedWhereQueued)'
  BY TargetsStep, RoutedStep, EntriesStep DEF RouteInv
<1>3. QED
  BY <1>1, <1>2 DEF RouteInv

LEMMA RouteInvariant ==
  RoutingSpec => []RouteInv
<1>1. RoutingInit => RouteInv
  BY RouteInit
<1>2. RouteInv /\ [RoutingNext]_routingVars => RouteInv'
  BY RouteStep
<1>3. QED
  BY <1>1, <1>2, PTL DEF RoutingSpec

\* In every state of Routing each variable has its type.
THEOREM RouteTypeCorrect ==
  RoutingSpec => []RoutingTypeOK
<1>1. RouteInv => RoutingTypeOK
  BY DEF RouteInv
<1>2. QED
  BY <1>1, RouteInvariant, PTL

\* However many conductors share a staging base, and however they are stopped and
\* resumed, an agent's files go where the operator said, unless one name was to mean
\* two repositories or another wizard's sidecar was read; what is on the default
\* repository is not touched by the latter.
THEOREM FilesGoWhereTyped ==
  RoutingSpec => []RoutedAsTyped
<1>1. RouteInv => RoutedAsTyped
  BY DEF RouteInv
<1>2. QED
  BY <1>1, RouteInvariant, PTL

\* Files are copied to the worktree of the repository their entry is queued for.
THEOREM CopiesFollowEntries ==
  RoutingSpec => []CopiedWhereQueued
<1>1. RouteInv => CopiedWhereQueued
  BY DEF RouteInv
<1>2. QED
  BY <1>1, RouteInvariant, PTL
=============================================================================
