---------------------------- MODULE ReleaseLoop ----------------------------
(***************************************************************************)
(* The dependency-aware launch of a conductor session,                     *)
(* run_dependency_aware() in conductor/distributor.py: agents' terminal    *)
(* windows are opened as their dependencies signal, every transition is    *)
(* written to the session manifest, and a conductor that went away is      *)
(* replaced by `conductor --resume`, which seeds itself from the manifest   *)
(* and the .done flags.                                                    *)
(*                                                                         *)
(* The loop's passes go agent by agent, as in the code, and agents write   *)
(* and signal between any two steps.  The conductor can go away between    *)
(* any two steps too.                                                      *)
(*                                                                         *)
(* Left out, for no execution reaches it: the states "failed" and          *)
(* "blocked", which are read but never written by anything, and the        *)
(* deadline, which run_session() never gives.  An agent's staging area is  *)
(* reduced to whether it holds a deliverable.                              *)
(***************************************************************************)
EXTENDS Integers, Sequences, FiniteSets

CONSTANTS
  Agents,
  Order,     \* session.agents; their zero-padded ids sort in the same order
  Deps,      \* depends_on of each agent, from the session's DAG
  MaxFaults  \* bound: conductors that go away, windows that do not open

ASSUME LoopAssumption ==
  /\ Order \in Seq(Agents) /\ Order # <<>>   \* run_session() needs an agent
  /\ Agents = {Order[i] : i \in 1..Len(Order)}
  /\ Deps \in [Agents -> SUBSET Agents]
  /\ MaxFaults \in Nat

VARIABLES
  state,     \* AgentSpec.state, in memory and in the manifest
  windows,   \* terminal windows opened for each agent
  flag,      \* agents with a .done file
  staged,    \* agents with a deliverable in their staging directory
  stray,     \* agents whose module_key matches an untracked file of the repo
  pc,        \* where the conductor stands
  pos,       \* index of the agent its present pass is at
  done,      \* the loop's local sets
  launched,
  faults

diskVars == <<state, windows, flag, staged, stray>>
loopVars == <<pc, pos, done, launched>>
vars     == <<diskVars, loopVars, faults>>

----------------------------------------------------------------------------
State   == {"waiting", "ready", "running", "done"}
Passes  == {"seed", "promote", "release"}
Pc      == Passes \cup {"off", "test", "open", "mark", "guard", "returned", "stalled"}

This == Order[pos]

\* Mutant of Ready: only dependencies this conductor has launched count.
ReadyHere(a) == a \notin done /\ Deps[a] \subseteq done \cap launched

\* ready_agents(): neither done nor waiting for anything.
Ready(a) == a \notin done /\ Deps[a] \subseteq done

\* _agent_done(): the .done file, or the soft signal of an agent that staged
\* nothing and seems to have written to the repository.
Signals(a) == a \in flag \/ (a \notin staged /\ a \in stray)

Fault == faults < MaxFaults /\ faults' = faults + 1

\* The next agent of the present pass, or the first step of what follows it.
Advance(nextPc) ==
  IF pos < Len(Order) THEN pos' = pos + 1 /\ pc' = pc
                      ELSE pos' = 1 /\ pc' = nextPc

\* A session whose agents were distributed, DAG built and manifest saved.
Init ==
  /\ state = [a \in Agents |-> "waiting"]
  /\ windows = [a \in Agents |-> 0]
  /\ flag = {} /\ staged = {}
  /\ stray \in SUBSET Agents
  /\ pc = "seed" /\ pos = 1
  /\ done = {} /\ launched = {}
  /\ faults = 0

----------------------------------------------------------------------------
(* The agents *)

\* An agent at work in its window writes a file to its staging directory...
Stage(a) ==
  /\ windows[a] > 0 /\ a \notin staged
  /\ staged' = staged \cup {a}
  /\ UNCHANGED <<state, windows, flag, stray, loopVars, faults>>

\* ... and touches .done when it has finished.
SignalDone(a) ==
  /\ windows[a] > 0 /\ a \notin flag
  /\ flag' = flag \cup {a}
  /\ UNCHANGED <<state, windows, staged, stray, loopVars, faults>>

\* Some untracked file whose path has the agent's module_key in it appears.
Stray(a) ==
  /\ a \notin stray
  /\ stray' = stray \cup {a}
  /\ UNCHANGED <<state, windows, flag, staged, loopVars, faults>>

----------------------------------------------------------------------------
(* run_dependency_aware() *)

\* Mutant of Seed: an agent that was about to be launched counts as launched.
SeedReady ==
  /\ pc = "seed"
  /\ done' = IF state[This] = "done" \/ This \in flag THEN done \cup {This} ELSE done
  /\ launched' = IF state[This] # "waiting" THEN launched \cup {This} ELSE launched
  /\ Advance("test")
  /\ UNCHANGED <<diskVars, faults>>

\* The sets are seeded from the manifest and the flags.
Seed ==
  /\ pc = "seed"
  /\ done' = IF state[This] = "done" \/ This \in flag THEN done \cup {This} ELSE done
  /\ launched' = IF state[This] \in {"running", "done"} THEN launched \cup {This} ELSE launched
  /\ Advance("test")
  /\ UNCHANGED <<diskVars, faults>>

\* while done != all_ids
Test ==
  /\ pc = "test"
  /\ pc' = IF done = Agents THEN "returned" ELSE "promote"
  /\ UNCHANGED <<pos, done, launched, diskVars, faults>>

\* 1. Promote an agent that has signalled.
Promote ==
  /\ pc = "promote"
  /\ IF This \in launched \ done /\ Signals(This)
     THEN done' = done \cup {This} /\ state' = [state EXCEPT ![This] = "done"]
     ELSE UNCHANGED <<done, state>>
  /\ Advance("release")
  /\ UNCHANGED <<windows, flag, staged, stray, launched, faults>>

\* Mutants of Release: one cleared dependency is enough; the agents already
\* launched are not passed over.
ReleaseAny ==
  /\ pc = "release"
  /\ IF This \notin done \cup launched /\ (Deps[This] = {} \/ Deps[This] \cap done # {})
     THEN state' = [state EXCEPT ![This] = "ready"] /\ pc' = "open" /\ pos' = pos
     ELSE state' = state /\ Advance("guard")
  /\ UNCHANGED <<windows, flag, staged, stray, done, launched, faults>>

ReleaseAgain ==
  /\ pc = "release"
  /\ IF Ready(This) /\ windows[This] <= 1
     THEN state' = [state EXCEPT ![This] = "ready"] /\ pc' = "open" /\ pos' = pos
     ELSE state' = state /\ Advance("guard")
  /\ UNCHANGED <<windows, flag, staged, stray, done, launched, faults>>

\* 2. Release an agent whose dependencies have cleared: first "ready"...
Release ==
  /\ pc = "release"
  /\ IF This \notin launched /\ Ready(This)
     THEN state' = [state EXCEPT ![This] = "ready"] /\ pc' = "open" /\ pos' = pos
     ELSE state' = state /\ Advance("guard")
  /\ UNCHANGED <<windows, flag, staged, stray, done, launched, faults>>

\* ... then launch_agent_window()...
OpenWindow ==
  /\ pc = "open"
  /\ windows' = [windows EXCEPT ![This] = @ + 1]
  /\ pc' = "mark"
  /\ UNCHANGED <<state, flag, staged, stray, pos, done, launched, faults>>

\* ... which logs a failure of osascript and returns all the same...
OpenFails ==
  /\ pc = "open" /\ Fault
  /\ pc' = "mark"
  /\ UNCHANGED <<diskVars, pos, done, launched>>

\* Mutant of MarkRunning: the state is set but not saved.
MarkUnsaved ==
  /\ pc = "mark"
  /\ launched' = launched \cup {This}
  /\ IF pos < Len(Order) THEN pos' = pos + 1 /\ pc' = "release"
                         ELSE pos' = 1 /\ pc' = "guard"
  /\ UNCHANGED <<diskVars, done, faults>>

\* ... then "running", and on with the pass.
MarkRunning ==
  /\ pc = "mark"
  /\ launched' = launched \cup {This}
  /\ state' = [state EXCEPT ![This] = "running"]
  /\ IF pos < Len(Order) THEN pos' = pos + 1 /\ pc' = "release"
                         ELSE pos' = 1 /\ pc' = "guard"
  /\ UNCHANGED <<windows, flag, staged, stray, done, faults>>

\* The end of a pass: return, give up on a stall, or sleep and go round.
Guard ==
  /\ pc = "guard"
  /\ pc' = IF done = Agents THEN "returned"
           ELSE IF launched \subseteq done /\ \A a \in Agents : ~Ready(a) THEN "stalled"
           ELSE "test"
  /\ UNCHANGED <<pos, done, launched, diskVars, faults>>

----------------------------------------------------------------------------
(* The conductor goes away, and comes back *)

\* Stopped by the operator, killed, or an exception such as a full disk.  What
\* happens once the launch has returned is the business of proofing.
Stop ==
  /\ pc \notin {"off", "returned", "stalled"} /\ Fault
  /\ pc' = "off" /\ pos' = 1
  /\ done' = {} /\ launched' = {}
  /\ UNCHANGED diskVars

\* conductor --resume: the manifest and the staging directories are all it has.
Resume ==
  /\ pc = "off"
  /\ pc' = "seed"
  /\ UNCHANGED <<pos, done, launched, diskVars, faults>>

----------------------------------------------------------------------------
LoopStep == Seed \/ Test \/ Promote \/ Release \/ OpenWindow \/ MarkRunning \/ Guard

Next ==
  \/ \E a \in Agents : Stage(a) \/ SignalDone(a) \/ Stray(a)
  \/ LoopStep \/ OpenFails
  \/ Stop \/ Resume

Spec == Init /\ [][Next]_vars

\* The loop polls on, and an agent that was given a window finishes in the
\* end.  Nobody need resume a conductor.
FairSpec ==
  /\ Spec
  /\ WF_vars(LoopStep)
  /\ \A a \in Agents : WF_vars(SignalDone(a))

----------------------------------------------------------------------------
(* Properties *)

\* Every state is well typed; in particular the states "failed" and "blocked"
\* of VALID_STATES, from which nothing would recover, are never written.
TypeOK ==
  /\ state \in [Agents -> State]
  /\ windows \in [Agents -> Nat]
  /\ flag \subseteq Agents /\ staged \subseteq Agents /\ stray \subseteq Agents
  /\ pc \in Pc
  /\ pos \in 1..Len(Order)
  /\ done \subseteq Agents /\ launched \subseteq Agents
  /\ faults \in 0..MaxFaults

\* The loop, with all its crashes and resumes, soft signals and windows that
\* do not open, implements the launch in dependency order.
Launch == INSTANCE DependencyOrder WITH
  stage <- [a \in Agents |->
              IF a \in flag \/ state[a] = "done" THEN "finished"
              ELSE IF windows[a] > 0 \/ state[a] = "running" THEN "started"
              ELSE "waiting"],
  over  <- pc = "returned"

ImplementsLaunch == Launch!Spec

\* "agents ... running are re-polled (not relaunched - their window is
\* already open)" (run_dependency_aware): a second window on an agent's
\* staging directory, where two agents would overwrite each other, needs a
\* conductor that went away between the window and the manifest, and each
\* such conductor costs one window at most.
WindowsNeedFaults ==
  LET extra == {e \in Agents \X (2..(MaxFaults + 2)) : e[2] <= windows[e[1]]}
  IN Cardinality(extra) <= faults

\* "Every transition is persisted ... so a crash mid-session is
\* recoverable": a conductor that goes away between two polls is resumed
\* with what it knew, or more.
ResumeLosesNothing ==
  pc = "test" =>
    /\ launched = {a \in Agents : state[a] \in {"running", "done"}}
    /\ done \subseteq {a \in Agents : state[a] = "done" \/ a \in flag}

\* The stall guard never gives up on a session: in an acyclic graph some
\* remaining agent is always at work or ready.
NeverStalls == pc # "stalled"

\* The loop ends once the agents have finished, unless the conductor goes
\* away or an agent was marked running without a window.
LaunchReturns ==
  pc = "seed" ~> \/ pc \in {"off", "returned"}
                 \/ \E a \in Agents : state[a] = "running" /\ windows[a] = 0

\* "one un-openable window never wedges the release loop"
\* (launch_agent_window): the loop ends unless the conductor goes away.  It does
\* not hold, and no run checks it: an agent whose window did not open counts as
\* running, and nobody signals for it.
NeverWedged == pc = "seed" ~> pc \in {"off", "returned"}

=============================================================================
