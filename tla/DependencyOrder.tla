-------------------------- MODULE DependencyOrder --------------------------
(***************************************************************************)
(* What the dependency-aware launch promises, in the words of              *)
(* conductor/distributor.py: it "releases agents as their dependencies     *)
(* clear" and returns "when every agent is done".                          *)
(*                                                                         *)
(* An agent is started only when all it depends on have finished, is       *)
(* never un-started or un-finished, and the session is over only when all  *)
(* have finished.                                                          *)
(***************************************************************************)
CONSTANTS Agents, Deps

VARIABLES
  stage,  \* where each agent stands
  over    \* whether the launch has returned

oVars == <<stage, over>>

Finished == {a \in Agents : stage[a] = "finished"}

Init ==
  /\ stage = [a \in Agents |-> "waiting"]
  /\ over = FALSE

Start(a) ==
  /\ stage[a] = "waiting"
  /\ Deps[a] \subseteq Finished
  /\ stage' = [stage EXCEPT ![a] = "started"]
  /\ UNCHANGED over

Finish(a) ==
  /\ stage[a] = "started"
  /\ stage' = [stage EXCEPT ![a] = "finished"]
  /\ UNCHANGED over

Return ==
  /\ Finished = Agents
  /\ over' = TRUE
  /\ UNCHANGED stage

Next == (\E a \in Agents : Start(a) \/ Finish(a)) \/ Return

Spec == Init /\ [][Next]_oVars

=============================================================================
