------------------------------ MODULE Proofing ------------------------------
(***************************************************************************)
(* Proofing a session before its commit: proof_session() and                *)
(* agents_in_parse_order() in conductor/prover.py, write_conflict_report()  *)
(* and wait_for_done() in conductor/distributor.py, with the peer check of  *)
(* PeerCheck.                                                               *)
(*                                                                         *)
(* Agents are taken one after the other in the order of their module_keys  *)
(* (no code ever fills in AgentSpec.dependencies, so parse_order() is      *)
(* sorted()).  An agent's schema is published to live/ and checked against *)
(* its peers there; an agent in conflict is sent a report, loses its .done *)
(* and is waited for.  Agents change their schemas while they are at work, *)
(* and only then.  The conductor can go away between any two steps and be  *)
(* resumed; live/ stays as it is.                                           *)
(*                                                                         *)
(* Left out: the wording of the reports, which escalates with the attempt, *)
(* and the time-out, which run_session() never gives.  Publishing the      *)
(* files of one agent is one step.                                          *)
(***************************************************************************)
EXTENDS PeerCheck, FiniteSets

CONSTANTS
  N,          \* number of agents
  Key,        \* module_key of each agent, as its rank among names
  Versions,   \* the schemas each agent may declare: their shape, and the entry of each module
  Template,   \* the one it is given
  Soft,       \* agents that stage nothing and seem to have written to the repository
  MaxCrashes  \* bound: conductors that go away

Agents == 1..N

ASSUME ProofingAssumption ==
  /\ N \in Nat \ {0} /\ MaxCrashes \in Nat
  /\ Key \in [Agents -> Nat]
  /\ Soft \subseteq Agents
  /\ \A a \in Agents : Template[a] \in Versions[a]
  /\ \A a \in Agents : \A v \in Versions[a] : v.shape \in Shapes

VARIABLES
  schema,   \* session_schema.json in each agent's staging directory
  working,  \* agents at work in their windows
  flag,     \* agents with a .done file
  live,     \* the VDB's live/ directory
  settled,  \* the manifest has every agent "done" (dependency-aware sessions)
  dag,      \* is the session dependency-aware?
  pc,       \* where the conductor stands
  cur,      \* the agent being proofed
  seen,     \* its schema as it was read
  crashes,
  stale     \* history: agents put to work behind a .done that stood

agentVars == <<schema, working, flag>>
vars      == <<agentVars, live, settled, dag, pc, cur, seen, crashes, stale>>

----------------------------------------------------------------------------
Proofs == {"publish", "check", "report", "clear", "wait"}
Pc     == Proofs \cup {"off", "gather", "proved"}

\* agents_in_parse_order(): by_key holds the last agent of each module_key.
Parsed == {a \in Agents : \A b \in Agents : Key[b] = Key[a] => b <= a}

After(a) == {b \in Parsed : Key[b] > Key[a]}

IsFirst(a, S) == \A b \in S : Key[a] <= Key[b]

\* wait_for_done() on one agent.
Signals(a) == a \in flag \/ a \in Soft

Init ==
  /\ schema = [a \in Agents |-> Template[a]]
  /\ working = Agents \ Soft
  /\ flag = {} /\ live = [k \in {} |-> {}]
  /\ settled = FALSE /\ dag \in BOOLEAN
  /\ pc = "gather" /\ cur \in Parsed /\ IsFirst(cur, Parsed) /\ seen = schema[cur]
  /\ crashes = 0 /\ stale = {}

----------------------------------------------------------------------------
(* The agents *)

Edit(a) ==
  /\ a \in working
  /\ \E v \in Versions[a] : schema' = [schema EXCEPT ![a] = v]
  /\ UNCHANGED <<working, flag, live, settled, dag, pc, cur, seen, crashes, stale>>

SignalDone(a) ==
  /\ a \in working
  /\ working' = working \ {a}
  /\ flag' = flag \cup {a}
  /\ UNCHANGED <<schema, live, settled, dag, pc, cur, seen, crashes, stale>>

----------------------------------------------------------------------------
(* The conductor *)

\* On with the first agent of S, if there is one.
GoOn(S) ==
  IF S = {} THEN pc' = "proved" /\ cur' = cur
  ELSE \E a \in S : IsFirst(a, S) /\ pc' = "publish" /\ cur' = a

\* The launch is over: each agent has signalled, now or, in a session with
\* dependencies, at some time according to the manifest.
Gather ==
  /\ pc = "gather"
  /\ settled \/ \A a \in Agents : Signals(a)
  /\ settled' = dag
  /\ GoOn(Parsed)
  /\ UNCHANGED <<agentVars, live, dag, seen, crashes, stale>>

\* The modules _publish_live() has a file for: none, unless the schema has
\* the key "modules".
Published(s) == IF s.shape = "modules" THEN DOMAIN s.entries ELSE {}

\* _publish_live()
Publish ==
  /\ pc = "publish"
  /\ seen' = schema[cur]
  /\ live' = [k \in (DOMAIN live) \cup ({cur} \X Published(schema[cur])) |->
                IF k[1] = cur /\ k[2] \in Published(schema[cur])
                  THEN schema[cur].entries[k[2]] ELSE live[k]]
  /\ pc' = "check"
  /\ UNCHANGED <<agentVars, settled, dag, cur, crashes, stale>>

\* A clean agent is done with; the next one, or the end.
Clean ==
  /\ pc = "check"
  /\ Conflicts(live, cur, Entries(seen)) = {}
  /\ GoOn(After(cur))
  /\ UNCHANGED <<agentVars, live, settled, dag, seen, crashes, stale>>

Conflict ==
  /\ pc = "check"
  /\ Conflicts(live, cur, Entries(seen)) # {}
  /\ pc' = "report"
  /\ UNCHANGED <<agentVars, live, settled, dag, cur, seen, crashes, stale>>

\* write_conflict_report(): the report, which sets the agent to work...
Report ==
  /\ pc = "report"
  /\ working' = working \cup {cur}
  /\ pc' = "clear"
  /\ UNCHANGED <<schema, flag, live, settled, dag, cur, seen, crashes, stale>>

\* Mutant of Clear: the old .done is left.
ClearNothing ==
  /\ pc = "clear"
  /\ pc' = "wait"
  /\ UNCHANGED <<agentVars, live, settled, dag, cur, seen, crashes, stale>>

\* ... and then clear_done().
Clear ==
  /\ pc = "clear"
  /\ flag' = flag \ {cur}
  /\ pc' = "wait"
  /\ UNCHANGED <<schema, working, live, settled, dag, cur, seen, crashes, stale>>

\* Mutants of Wait: a rewritten schema is not checked again; it waits for the
\* whole session's .done files.
WaitAndTrust ==
  /\ pc = "wait" /\ Signals(cur)
  /\ GoOn(After(cur))
  /\ UNCHANGED <<agentVars, live, settled, dag, seen, crashes, stale>>

WaitForAll ==
  /\ pc = "wait" /\ flag = Agents
  /\ pc' = "publish"
  /\ UNCHANGED <<agentVars, live, settled, dag, cur, seen, crashes, stale>>

Wait ==
  /\ pc = "wait" /\ Signals(cur)
  /\ pc' = "publish"
  /\ UNCHANGED <<agentVars, live, settled, dag, cur, seen, crashes, stale>>

----------------------------------------------------------------------------
(* Crash and resume *)

\* The conductor goes away.  An agent at work whose .done stands, or that the
\* manifest has as "done", will not be waited for.
Stop ==
  /\ pc \notin {"off", "proved"} /\ crashes < MaxCrashes
  /\ crashes' = crashes + 1
  /\ pc' = "off"
  /\ stale' = stale \cup {a \in working : a \in flag \/ settled}
  /\ UNCHANGED <<agentVars, live, settled, dag, cur, seen>>

\* conductor --resume keeps the .done files and live/.
Resume ==
  /\ pc = "off"
  /\ pc' = "gather"
  /\ UNCHANGED <<agentVars, live, settled, dag, cur, seen, crashes, stale>>

\* The operator of a resumed session runs the launch script it prints.
Relaunch(a) ==
  /\ crashes > 0 /\ ~dag /\ pc \notin {"off", "proved"}
  /\ a \notin working
  /\ working' = working \cup {a}
  /\ stale' = stale \cup ({a} \cap flag)
  /\ UNCHANGED <<schema, flag, live, settled, dag, pc, cur, seen, crashes>>

----------------------------------------------------------------------------
Prove == Gather \/ Publish \/ Clean \/ Conflict \/ Report \/ Clear \/ Wait

Next ==
  \/ \E a \in Agents : Edit(a) \/ SignalDone(a) \/ Relaunch(a)
  \/ Prove \/ Stop \/ Resume

Spec == Init /\ [][Next]_vars

\* The conductor polls on, and an agent at work finishes in the end.
FairSpec ==
  /\ Spec
  /\ WF_vars(Prove)
  /\ \A a \in Agents : WF_vars(SignalDone(a))

----------------------------------------------------------------------------
(* Properties *)

\* Every state is well typed; in particular the agents proofed have a
\* module_key of their own, and live/ holds only what its agent once declared.
TypeOK ==
  /\ schema \in [Agents -> UNION {Versions[a] : a \in Agents}]
  /\ \A a \in Agents : schema[a] \in Versions[a]
  /\ working \subseteq Agents /\ flag \subseteq Agents /\ stale \subseteq Agents
  /\ \A k \in DOMAIN live : \E v \in Versions[k[1]] :
       k[2] \in Published(v) /\ live[k] = v.entries[k[2]]
  /\ settled \in BOOLEAN /\ dag \in BOOLEAN
  /\ pc \in Pc
  /\ cur \in Parsed
  /\ crashes \in 0..MaxCrashes

\* An agent's schema is read only when the agent is not at work on it: it was
\* waited for, however often it was sent back, unless a restart took an old
\* .done for a new one or the agent never used .done at all.
ReadsFinishedWork ==
  pc \in {"publish", "check"} /\ cur \in working => cur \in stale \cup Soft

\* What two agents say of their modules goes together.
Agree(a, b) ==
  /\ ~Collide(Entries(schema[a]), Entries(schema[b]))
  /\ ~Clash(Entries(schema[a]), Entries(schema[b]))

\* Of the agents that were waited for, none that proofing passed collides with
\* or contradicts an earlier one whose schema was published, in what lies in
\* their staging directories to be committed, although each was checked only
\* once.  An earlier schema without the key "modules" is compared with
\* nothing that comes after it.
PeersAgreeWhenProved ==
  pc = "proved" =>
    \A a, b \in Parsed \ (stale \cup Soft) :
      Key[a] < Key[b] /\ schema[a].shape = "modules" => Agree(a, b)

\* "Check this agent's declared contracts against all peers" (peer_checker.py):
\* of the agents that were waited for, no two that proofing passed disagree,
\* whichever of the accepted shapes their schemas have.
AllPeersAgreeWhenProved ==
  pc = "proved" => \A a, b \in Parsed \ (stale \cup Soft) : Key[a] < Key[b] => Agree(a, b)

\* "Blocks waiting for agent .done signals between retries" (proof_session):
\* an agent that is at work when the wait begins is heard.
WaitEnds == pc = "wait" /\ cur \in working ~> pc # "wait"

\* "nothing reaches the repo until every agent's output is internally
\* consistent" (README): what lies in the staging directories when proofing
\* is over passes the peer check as a whole.
Staged ==
  [k \in {k \in Agents \X UNION {DOMAIN schema[b].entries : b \in Agents} :
            k[2] \in DOMAIN schema[k[1]].entries}
     |-> schema[k[1]].entries[k[2]]]

ProvedIsConsistent ==
  pc = "proved" => \A a \in Agents : Conflicts(Staged, a, Entries(schema[a])) = {}

=============================================================================
