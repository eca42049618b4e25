---------------------------- MODULE Orchestrator ---------------------------
(***************************************************************************)
(* The gate chain, orchestrator/orchestrator.py: POST /commit runs the     *)
(* parallel gates at once, saves their results in registry order, then     *)
(* calls the sequential gates one after the other, and issues a merge      *)
(* token when nothing failed.                                              *)
(*                                                                         *)
(* A gate is a service of its own (gates/base_gate.py) that runs a tool in *)
(* its working directory; the request it gets carries nothing, so the tool *)
(* sees the tree as it is at that moment.  Handlers of several requests    *)
(* interleave at their awaits; a step here is one gate call, one gate      *)
(* answer or one database row, with a crash possible between any two.      *)
(*                                                                         *)
(* Abstracted: a commit is its request; outputs, durations and exit codes  *)
(* are left out; a tool's verdict is a function of the tree it sees.       *)
(***************************************************************************)
EXTENDS Integers, Sequences, FiniteSets

CONSTANTS
  Requests,    \* POST /commit requests
  Trusted,     \* those with a valid X-Gate-Token (all, under CDMAD_LOCAL_DEV)
  Parallel,    \* the parallel gates, in registry order
  Sequential,  \* the sequential gates, by "order"
  Trees,       \* states of the directory the gates run in
  Clean,       \* per gate, the trees its tool accepts
  MaxFaults    \* bound: crashes and database errors

ParallelGates   == {Parallel[i] : i \in 1..Len(Parallel)}
SequentialGates == {Sequential[i] : i \in 1..Len(Sequential)}
Gates           == ParallelGates \cup SequentialGates

ASSUME ChainAssumption ==
  /\ Trusted \subseteq Requests
  /\ Parallel \in Seq(Gates) /\ Parallel # <<>>
  /\ Sequential \in Seq(Gates) /\ Sequential # <<>>
  /\ ParallelGates \cap SequentialGates = {}
  /\ \A i, j \in 1..Len(Parallel) : Parallel[i] = Parallel[j] => i = j
  /\ \A i, j \in 1..Len(Sequential) : Sequential[i] = Sequential[j] => i = j
  /\ Trees # {}
  /\ Clean \in [Gates -> SUBSET Trees]
  /\ MaxFaults \in Nat

VARIABLES
  pc,      \* where the handler of each request stands
  pos,     \* the gate it is at: index into Parallel or Sequential
  calls,   \* outstanding gate calls
  reply,   \* per request and gate, what call_gate() returned
  audit,   \* table gate_runs
  tokens,  \* table merge_tokens: the requests that were given one
  tree,    \* what the gates' working directory holds
  faults

handlerVars == <<pc, pos>>
vars == <<handlerVars, calls, reply, audit, tokens, tree, faults>>

----------------------------------------------------------------------------
Running  == {"phase1", "saving", "phase2", "issue"}
Answered == {"refused", "blocked", "passed", "error", "lost"}
Reply    == {"none", "pass", "fail", "malformed"}

Goto(q, to)    == pc' = [pc EXCEPT ![q] = to]
Outstanding(q) == {c \in calls : c[1] = q}
Tell(q, g, r)  == /\ reply' = [reply EXCEPT ![q][g] = r]
                  /\ calls' = calls \ {<<q, g>>}
Fault          == faults < MaxFaults /\ faults' = faults + 1

Init ==
  /\ pc = [q \in Requests |-> "new"]
  /\ pos = [q \in Requests |-> 1]
  /\ calls = {}
  /\ reply = [q \in Requests |-> [g \in Gates |-> "none"]]
  /\ audit = {}
  /\ tokens = {}
  /\ tree \in Trees
  /\ faults = 0

----------------------------------------------------------------------------
(* The gates and their surroundings *)

\* Somebody edits, adds or commits files where the gates run.
Move(t) ==
  /\ t # tree
  /\ tree' = t
  /\ UNCHANGED <<handlerVars, calls, reply, audit, tokens, faults>>

\* BaseGate.run(): the tool runs on the present tree; a zero exit is a pass.
GateRuns(q, g) ==
  /\ <<q, g>> \in calls
  /\ Tell(q, g, IF tree \in Clean[g] THEN "pass" ELSE "fail")
  /\ UNCHANGED <<handlerVars, audit, tokens, tree, faults>>

\* call_gate() catches everything: no service, a reset, 300 s without an
\* answer, an answer that is not JSON (a gate that raised); the gate counts as
\* failed.
CallFails(q, g) ==
  /\ <<q, g>> \in calls
  /\ Tell(q, g, "fail")
  /\ UNCHANGED <<handlerVars, audit, tokens, tree, faults>>

\* JSON without a status, such as the 404 of another service on the gate's
\* port: call_gate() does not look at the HTTP status and returns it.
ForeignAnswer(q, g) ==
  /\ <<q, g>> \in calls
  /\ Tell(q, g, "malformed")
  /\ UNCHANGED <<handlerVars, audit, tokens, tree, faults>>

----------------------------------------------------------------------------
(* handle_commit() *)

\* auth_middleware(): 401.
Refuse(q) ==
  /\ pc[q] = "new" /\ q \notin Trusted
  /\ Goto(q, "refused")
  /\ UNCHANGED <<pos, calls, reply, audit, tokens, tree, faults>>

\* asyncio.gather() over all parallel gates.
Begin(q) ==
  /\ pc[q] = "new" /\ q \in Trusted
  /\ Goto(q, "phase1")
  /\ calls' = calls \cup {<<q, g>> : g \in ParallelGates}
  /\ UNCHANGED <<pos, reply, audit, tokens, tree, faults>>

\* Mutant of Gathered: waiting until every gate passes.
GatheredPassing(q) ==
  /\ pc[q] = "phase1" /\ \A g \in ParallelGates : reply[q][g] = "pass"
  /\ Goto(q, "saving")
  /\ UNCHANGED <<pos, calls, reply, audit, tokens, tree, faults>>

\* gather() returns when every call has.
Gathered(q) ==
  /\ pc[q] = "phase1" /\ Outstanding(q) = {}
  /\ Goto(q, "saving")
  /\ UNCHANGED <<pos, calls, reply, audit, tokens, tree, faults>>

\* Mutant of Save: the early return forgotten.
SaveAnyway(q, g, nextPc, nextPos) ==
  /\ IF reply[q][g] = "malformed"
     THEN Goto(q, "error") /\ UNCHANGED <<pos, audit>>
     ELSE /\ audit' = audit \cup {[req |-> q, gate |-> g, status |-> reply[q][g]]}
          /\ Goto(q, IF nextPc = "issue" /\ reply[q][g] = "fail" THEN "blocked" ELSE nextPc)
          /\ pos' = [pos EXCEPT ![q] = nextPos]
  /\ UNCHANGED <<calls, reply, tokens, tree, faults>>

\* save_result() and the test on result["status"] for the gate at hand, where
\* `nextPc` and `nextPos` say what follows a gate that did not fail.
Save(q, g, nextPc, nextPos) ==
  /\ IF reply[q][g] = "malformed"
     THEN Goto(q, "error") /\ UNCHANGED <<pos, audit>>        \* KeyError: HTTP 500
     ELSE /\ audit' = audit \cup {[req |-> q, gate |-> g, status |-> reply[q][g]]}
          /\ IF reply[q][g] = "fail"
             THEN Goto(q, "blocked") /\ UNCHANGED pos
             ELSE Goto(q, nextPc) /\ pos' = [pos EXCEPT ![q] = nextPos]
  /\ UNCHANGED <<calls, reply, tokens, tree, faults>>

\* One turn of the loop over the gathered responses, in registry order.
SaveParallel(q) ==
  /\ pc[q] = "saving"
  /\ IF pos[q] < Len(Parallel)
     THEN Save(q, Parallel[pos[q]], "saving", pos[q] + 1)
     ELSE Save(q, Parallel[pos[q]], "phase2", 1)

\* The sequential loop: call the next gate and await it...
CallSequential(q) ==
  /\ pc[q] = "phase2"
  /\ Outstanding(q) = {} /\ reply[q][Sequential[pos[q]]] = "none"
  /\ calls' = calls \cup {<<q, Sequential[pos[q]]>>}
  /\ UNCHANGED <<handlerVars, reply, audit, tokens, tree, faults>>

\* Mutant of SaveSequential: the loop ends one gate early.
SaveSequentialShort(q) ==
  /\ pc[q] = "phase2"
  /\ reply[q][Sequential[pos[q]]] # "none"
  /\ IF pos[q] + 1 < Len(Sequential)
     THEN Save(q, Sequential[pos[q]], "phase2", pos[q] + 1)
     ELSE Save(q, Sequential[pos[q]], "issue", pos[q])

\* ... then save its result.
SaveSequential(q) ==
  /\ pc[q] = "phase2"
  /\ reply[q][Sequential[pos[q]]] # "none"
  /\ IF pos[q] < Len(Sequential)
     THEN Save(q, Sequential[pos[q]], "phase2", pos[q] + 1)
     ELSE Save(q, Sequential[pos[q]], "issue", pos[q])

\* generate_token(), save_token() and the answer.
IssueToken(q) ==
  /\ pc[q] = "issue"
  /\ tokens' = tokens \cup {q}
  /\ Goto(q, "passed")
  /\ UNCHANGED <<pos, calls, reply, audit, tree, faults>>

\* sqlite3 raises in save_result() or save_token(): HTTP 500.
DatabaseError(q) ==
  /\ \/ pc[q] \in {"saving", "issue"}
     \/ pc[q] = "phase2" /\ reply[q][Sequential[pos[q]]] # "none"
  /\ Fault
  /\ Goto(q, "error")
  /\ UNCHANGED <<pos, calls, reply, audit, tokens, tree>>

\* The orchestrator process ends and is started again: the requests in hand
\* are gone, the database stays.
Crash ==
  /\ Fault
  /\ pc' = [q \in Requests |-> IF pc[q] \in Running THEN "lost" ELSE pc[q]]
  /\ calls' = {}
  /\ UNCHANGED <<pos, reply, audit, tokens, tree>>

----------------------------------------------------------------------------
Handle(q) ==
  \/ Refuse(q) \/ Begin(q) \/ Gathered(q) \/ SaveParallel(q)
  \/ CallSequential(q) \/ SaveSequential(q) \/ IssueToken(q)

Return(q, g) == GateRuns(q, g) \/ CallFails(q, g) \/ ForeignAnswer(q, g)

Next ==
  \/ \E t \in Trees : Move(t)
  \/ \E q \in Requests : \/ Handle(q) \/ DatabaseError(q)
                         \/ \E g \in Gates : Return(q, g)
  \/ Crash

Spec == Init /\ [][Next]_vars

\* The event loop runs every handler on, and the client gives up on a gate
\* after 300 s at the latest.  No gate need ever answer.
FairSpec ==
  /\ Spec
  /\ \A q \in Requests : WF_vars(Handle(q))
  /\ \A q \in Requests, g \in Gates : WF_vars(CallFails(q, g))

----------------------------------------------------------------------------
(* Properties *)

TypeOK ==
  /\ pc \in [Requests -> {"new"} \cup Running \cup Answered]
  /\ pos \in [Requests -> Nat]
  /\ calls \subseteq Requests \X Gates
  /\ reply \in [Requests -> [Gates -> Reply]]
  /\ audit \subseteq [req : Requests, gate : Gates, status : {"pass", "fail"}]
  /\ tokens \subseteq Requests
  /\ tree \in Trees
  /\ faults \in 0..MaxFaults

Passed(q, g) == [req |-> q, gate |-> g, status |-> "pass"] \in audit
Failed(q, g) == [req |-> q, gate |-> g, status |-> "fail"] \in audit

\* "Every commit must pass all seven gates before a merge token is issued"
\* (README): a request has a token only if the database has a pass of every
\* gate for it, whatever crashed, timed out or answered nonsense meanwhile.
TokenNeedsWholeChain == \A q \in tokens : \A g \in Gates : Passed(q, g)

\* The chain: what the database has on a request is the results of its first
\* n gates; all are passes, but for the last one when the answer was
\* "blocked".  Nothing is recorded after the gate that blocked, however the
\* parallel gates finished.
AuditIsPrefixOfChain ==
  LET gateChain == Parallel \o Sequential
  IN \A q \in Requests : \E n \in 0..Len(gateChain) :
       \A i \in 1..Len(gateChain) :
         /\ Passed(q, gateChain[i]) <=> i < n \/ (i = n /\ pc[q] # "blocked")
         /\ Failed(q, gateChain[i]) <=> i = n /\ pc[q] = "blocked"

\* The phases: a sequential gate is called only when every gate before it in
\* the chain has passed for that request.
PhasesInOrder ==
  \A q \in Requests, j \in 1..Len(Sequential) :
    <<q, Sequential[j]>> \in calls =>
      /\ \A g \in ParallelGates : Passed(q, g)
      /\ \A i \in 1..(j - 1) : Passed(q, Sequential[i])

\* A request the handler took up is answered, or lost with the process, even
\* if no gate ever answers.
EveryRequestAnswered == \A q \in Requests : pc[q] = "phase1" ~> pc[q] \in Answered

\* "a merge token - a timestamped record that the full chain ran clean"
\* (README): then some tree has passed the full chain.  It does not hold, and no
\* run checks it: each gate judges the tree of its own moment.
TokenMeansCleanTree ==
  tokens # {} => \E t \in Trees : \A g \in Gates : t \in Clean[g]

=============================================================================
