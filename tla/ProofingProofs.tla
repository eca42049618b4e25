--------------------------- MODULE ProofingProofs ---------------------------
(***************************************************************************)
(* Proofs about Proofing, for any number of agents, schemas, module_keys   *)
(* and crashes.                                                             *)
(***************************************************************************)
EXTENDS Proofing, TLAPS

----------------------------------------------------------------------------
(* The inductive invariant *)

Proofed == Proofs \cup {"proved"}

\* The agents the properties speak of.
Heard == Agents \ (stale \cup Soft)

\* The agents proofing has passed since it last started.
Passed ==
  IF pc = "proved" THEN Parsed
  ELSE IF pc \in Proofs THEN {a \in Parsed : Key[a] < Key[cur]} ELSE {}

\* An agent works behind a standing .done only while its report is under way.
FlagsAreFresh ==
  \A a \in working \cap flag : a \in stale \/ (a = cur /\ pc = "clear")

\* Agents at work are waited for after a restart.
RestartsWait ==
  /\ settled => dag
  /\ pc \in {"off", "gather"} /\ settled => working \subseteq stale

\* In a session without dependencies, only the agent waited for lacks .done.
AllSignalled ==
  ~dag /\ pc \in Proofs => \A a \in Agents : Signals(a) \/ (a = cur /\ pc = "wait")

\* Nobody is at work but the agent that was sent back.
OnlySentBackWork ==
  pc \in Proofed => \A a \in Heard \cap working : a = cur /\ pc \in {"clear", "wait"}

\* live/ holds what a's schema says of its modules, if that is published.
InLive(a) == schema[a].shape = "modules" =>
  \A m \in DOMAIN schema[a].entries :
    <<a, m>> \in DOMAIN live /\ live[<<a, m>>] = schema[a].entries[m]

\* live/ is up to date on the agents passed, and on the one being checked.
LiveIsCurrent ==
  /\ \A a \in Passed \cap Heard : InLive(a)
  /\ pc = "check" /\ cur \in Heard => seen = schema[cur] /\ InLive(cur)

PassedAgree ==
  \A a, b \in Passed \cap Heard : Key[a] < Key[b] /\ schema[a].shape = "modules" => Agree(a, b)

ProofInv ==
  /\ TypeOK
  /\ FlagsAreFresh
  /\ RestartsWait
  /\ AllSignalled
  /\ OnlySentBackWork
  /\ LiveIsCurrent
  /\ PassedAgree

----------------------------------------------------------------------------
(* Lemmas about the order and the check *)

\* The agents that are proofed have module_keys of their own.
LEMMA ParsedKeys ==
  /\ Parsed \subseteq Agents
  /\ \A a \in Parsed : Key[a] \in Nat
  /\ \A a, b \in Parsed : Key[a] = Key[b] => a = b
BY ProofingAssumption DEF ProofingAssumption, Parsed, Agents

\* Going on passes the present agent and no other.
LEMMA GoOnPasses ==
  ASSUME cur \in Parsed, pc \in Proofs, GoOn(After(cur))
  PROVE  /\ cur' \in Parsed /\ pc' \in {"publish", "proved"}
         /\ Passed' = Passed \cup {cur}
<1>1. Passed = {a \in Parsed : Key[a] < Key[cur]}
  BY DEF Passed, Proofs
<1>2. CASE After(cur) = {}
  <2>1. \A a \in Parsed : Key[a] < Key[cur] \/ a = cur
    BY <1>2, ParsedKeys DEF After
  <2> QED
    BY <1>1, <1>2, <2>1 DEF GoOn, Passed
<1>3. CASE After(cur) # {}
  <2>1. pc' = "publish" /\ cur' \in After(cur) /\ IsFirst(cur', After(cur))
    BY <1>3 DEF GoOn
  <2>2. \A a \in Parsed : Key[a] < Key[cur'] <=> (Key[a] < Key[cur] \/ a = cur)
    BY <2>1, ParsedKeys DEF After, IsFirst
  <2>3. Passed' = {a \in Parsed : Key[a] < Key[cur']}
    BY <2>1 DEF Passed, Proofs
  <2> QED
    BY <1>1, <2>1, <2>2, <2>3 DEF After
<1> QED
  BY <1>2, <1>3

\* More entries collide and clash more.
LEMMA ConflictsGrow ==
  ASSUME NEW E, NEW F, NEW G, F \subseteq G
  PROVE  /\ Collide(E, F) => Collide(E, G)
         /\ Clash(E, F) => Clash(E, G)
BY DEF Collide, Clash, Symbols, Assumptions

\* Collisions and clashes do not depend on who is checked against whom.
LEMMA ConflictsAreMutual ==
  ASSUME NEW E, NEW F
  PROVE  /\ Collide(E, F) <=> Collide(F, E)
         /\ Clash(E, F) <=> Clash(F, E)
BY DEF Collide, Clash

\* An agent whose check is clean agrees with every agent that is current in live/.
LEMMA CleanAgrees ==
  ASSUME Conflicts(live, cur, Entries(schema[cur])) = {},
         NEW a \in Agents, a # cur, schema[a].shape = "modules", InLive(a)
  PROVE  Agree(a, cur)
<1> DEFINE E == Entries(schema[cur])
           F == Entries(schema[a])
<1>1. F \subseteq View(live, a)
  BY DEF InLive, Entries, View
<1>2. CASE a \in Peers(live, cur)
  <2>1. ~Collide(E, View(live, a)) /\ ~Clash(E, View(live, a))
    <3>1. Collide(E, View(live, a)) => <<"COLLISION", a>> \in Conflicts(live, cur, E)
      BY <1>2, Zenon DEF Conflicts
    <3>2. Clash(E, View(live, a)) => <<"ASSUMPTION_CLASH", a>> \in Conflicts(live, cur, E)
      BY <1>2, Zenon DEF Conflicts
    <3> QED
      BY <3>1, <3>2
  <2>2. ~Collide(E, F) /\ ~Clash(E, F)
    BY <1>1, <2>1, ConflictsGrow
  <2> QED
    BY <2>2, ConflictsAreMutual DEF Agree
<1>3. CASE a \notin Peers(live, cur)
  <2>1. F = {}
    <3> SUFFICES ASSUME NEW m \in DOMAIN schema[a].entries PROVE FALSE
      BY DEF Entries
    <3>1. <<a, m>> \in DOMAIN live /\ <<a, m>>[1] = a
      BY DEF InLive
    <3>2. a \in {k[1] : k \in DOMAIN live}
      BY <3>1
    <3> QED
      BY <1>3, <3>2 DEF Peers
  <2>2. ~Collide(E, F) /\ ~Clash(E, F)
    BY <2>1 DEF Collide, Clash, Symbols, Assumptions
  <2> QED
    BY <2>2, ConflictsAreMutual DEF Agree
<1> QED
  BY <1>2, <1>3

----------------------------------------------------------------------------
(* The invariant holds of a session at its launch, and of every step *)

\* The invariant holds of a session at its launch.
LEMMA ProofInit == Init => ProofInv
<1> SUFFICES ASSUME Init PROVE ProofInv
  OBVIOUS
<1>1. TypeOK
  <2>1. \A a \in Agents : Template[a] \in Versions[a]
    BY ProofingAssumption DEF ProofingAssumption
  <2>2. /\ schema \in [Agents -> UNION {Versions[a] : a \in Agents}]
        /\ \A a \in Agents : schema[a] \in Versions[a]
    BY <2>1 DEF Init
  <2>3. crashes \in 0..MaxCrashes
    BY ProofingAssumption DEF ProofingAssumption, Init
  <2> QED
    BY <2>2, <2>3 DEF Init, TypeOK, Pc
<1>2. Passed = {} /\ pc \notin Proofed
  BY DEF Init, Passed, Proofs, Proofed
<1> QED
  BY <1>1, <1>2 DEF Init, ProofInv, FlagsAreFresh, RestartsWait, AllSignalled, OnlySentBackWork,
                    LiveIsCurrent, PassedAgree, Proofed

\* Every step keeps the types.
LEMMA TypeStep ==
  ASSUME TypeOK, Next
  PROVE  TypeOK'
<1> USE DEF TypeOK, Pc, Proofs
<1>0. Parsed \subseteq Agents /\ MaxCrashes \in Nat
  BY ParsedKeys, ProofingAssumption DEF ProofingAssumption
<1>1. CASE \E a \in Agents : Edit(a) \/ SignalDone(a) \/ Relaunch(a)
  <2>1. PICK a \in Agents : Edit(a) \/ SignalDone(a) \/ Relaunch(a)
    BY <1>1
  <2>2. CASE Edit(a)
    BY <2>2 DEF Edit
  <2>3. CASE SignalDone(a)
    BY <2>3 DEF SignalDone
  <2>4. CASE Relaunch(a)
    BY <2>4 DEF Relaunch
  <2> QED
    BY <2>1, <2>2, <2>3, <2>4
<1>2. CASE Gather
  BY <1>2 DEF Gather, GoOn, agentVars
<1>3. CASE Publish
  <2>1. \A k \in DOMAIN live' : \E v \in Versions[k[1]] :
          k[2] \in Published(v) /\ live'[k] = v.entries[k[2]]
    BY <1>3, <1>0 DEF Publish
  <2> QED
    BY <1>3, <2>1 DEF Publish, agentVars
<1>4. CASE Clean
  BY <1>4 DEF Clean, GoOn, After, agentVars
<1>5. CASE Conflict
  BY <1>5 DEF Conflict, agentVars
<1>6. CASE Report
  BY <1>6, <1>0 DEF Report
<1>7. CASE Clear
  BY <1>7 DEF Clear
<1>8. CASE Wait
  BY <1>8 DEF Wait, agentVars
<1>9. CASE Stop
  BY <1>9, <1>0 DEF Stop, agentVars
<1>10. CASE Resume
  BY <1>10 DEF Resume, agentVars
<1> QED
  BY <1>1, <1>2, <1>3, <1>4, <1>5, <1>6, <1>7, <1>8, <1>9, <1>10 DEF Next, Prove

\* What the properties speak of only shrinks.
LEMMA HeardShrinks ==
  ASSUME stale \subseteq stale'
  PROVE  Heard' \subseteq Heard
BY DEF Heard

\* The parts that say who works and who has signalled.
Waiting == FlagsAreFresh /\ RestartsWait /\ AllSignalled /\ OnlySentBackWork

\* Agents keep them: to signal is to stop working, and an agent relaunched
\* behind its .done is one that the restart mistook.
LEMMA WaitingAgentStep ==
  ASSUME ProofInv, NEW a \in Agents, Edit(a) \/ SignalDone(a) \/ Relaunch(a)
  PROVE  Waiting'
<1> USE DEF ProofInv, Waiting
<1>1. CASE Edit(a)
  BY <1>1 DEF Edit, FlagsAreFresh, RestartsWait, AllSignalled, OnlySentBackWork, Signals, Heard
<1>2. CASE SignalDone(a)
  BY <1>2 DEF SignalDone, FlagsAreFresh, RestartsWait, AllSignalled, OnlySentBackWork, Signals, Heard
<1>3. CASE Relaunch(a)
  <2>1. a \in flag => a \in stale'
    BY <1>3 DEF Relaunch
  <2>2. pc \in Proofs \cup {"off", "gather"}
    BY <1>3 DEF Relaunch, TypeOK, Pc
  <2>3. FlagsAreFresh' /\ RestartsWait' /\ AllSignalled'
    BY <1>3, <2>1 DEF Relaunch, FlagsAreFresh, RestartsWait, AllSignalled, Signals
  <2>4. OnlySentBackWork'
    BY <1>3, <2>1, <2>2 DEF Relaunch, AllSignalled, OnlySentBackWork, Signals, Heard, Proofed, Proofs
  <2> QED
    BY <2>3, <2>4
<1> QED
  BY <1>1, <1>2, <1>3

\* The conductor keeps them: it goes on only past an agent that has signalled
\* since it was sent back.
LEMMA WaitingProofStep ==
  ASSUME ProofInv, Prove \/ Stop \/ Resume
  PROVE  Waiting'
<1> USE DEF ProofInv, Waiting, FlagsAreFresh, RestartsWait, AllSignalled, OnlySentBackWork,
            Signals, Heard, Proofed, Proofs, TypeOK, Pc
<1>1. CASE Gather
  BY <1>1 DEF Gather, GoOn, agentVars
<1>2. CASE Publish
  BY <1>2 DEF Publish, agentVars
<1>3. CASE Clean
  <2>1. pc = "check" /\ pc' \in {"publish", "proved"}
    BY <1>3 DEF Clean, GoOn
  <2>2. UNCHANGED <<agentVars, settled, dag, stale>>
    BY <1>3 DEF Clean
  <2> QED
    BY <2>1, <2>2 DEF agentVars
<1>4. CASE Conflict
  BY <1>4 DEF Conflict, agentVars
<1>5. CASE Report
  BY <1>5 DEF Report
<1>6. CASE Clear
  BY <1>6 DEF Clear
<1>7. CASE Wait
  BY <1>7 DEF Wait, agentVars
<1>8. CASE Stop
  BY <1>8 DEF Stop, agentVars
<1>9. CASE Resume
  BY <1>9 DEF Resume, agentVars
<1> QED
  BY <1>1, <1>2, <1>3, <1>4, <1>5, <1>6, <1>7, <1>8, <1>9 DEF Prove

\* The parts about what has been checked, and what was found.
Checked == LiveIsCurrent /\ PassedAgree

\* They depend on the schemas of agents passed or being checked only.
LEMMA CheckedFrame ==
  ASSUME ProofInv, Passed' \subseteq Passed, stale \subseteq stale', UNCHANGED <<live, seen, cur>>,
         \A a \in Passed \cap Heard : schema'[a] = schema[a],
         pc' = "check" /\ cur \in Heard => pc = "check" /\ schema'[cur] = schema[cur]
  PROVE  Checked'
<1> USE DEF ProofInv
<1>1. Heard' \subseteq Heard
  BY HeardShrinks
<1>2. \A a \in (Passed \cap Heard)' : InLive(a)'
  BY <1>1 DEF LiveIsCurrent, InLive
<1>3. (pc = "check" /\ cur \in Heard)' => (seen = schema[cur] /\ InLive(cur))'
  BY <1>1 DEF LiveIsCurrent, InLive
<1>4. PassedAgree'
  BY <1>1 DEF PassedAgree, Agree
<1> QED
  BY <1>2, <1>3, <1>4 DEF Checked, LiveIsCurrent

\* Agents keep them, for only an agent at work edits and none of those passed is.
LEMMA CheckedAgentStep ==
  ASSUME ProofInv, NEW a \in Agents, Edit(a) \/ SignalDone(a) \/ Relaunch(a)
  PROVE  Checked'
<1>1. UNCHANGED <<live, seen, cur, pc>> /\ stale \subseteq stale' /\ Passed' = Passed
  BY DEF Edit, SignalDone, Relaunch, Passed
<1>2. CASE Edit(a)
  <2>1. \A b \in Agents \ {a} : schema'[b] = schema[b]
    BY <1>2 DEF Edit, ProofInv, TypeOK
  <2>2. a \in working
    BY <1>2 DEF Edit
  <2>3. a \notin Passed \cap Heard
    BY <2>2, ParsedKeys DEF ProofInv, OnlySentBackWork, Passed, Proofed, Proofs
  <2>4. pc = "check" /\ cur \in Heard => cur # a
    BY <2>2 DEF ProofInv, OnlySentBackWork, Proofed, Proofs
  <2>5. Heard \subseteq Agents
    BY DEF Heard
  <2> QED
    BY <1>1, <2>1, <2>3, <2>4, <2>5, CheckedFrame
<1>3. CASE SignalDone(a) \/ Relaunch(a)
  <2>1. schema' = schema
    BY <1>3 DEF SignalDone, Relaunch
  <2> QED
    BY <1>1, <2>1, CheckedFrame
<1> QED
  BY <1>2, <1>3

\* Publishing brings live/ up to date on the agent at hand and no other.
LEMMA CheckedPublish ==
  ASSUME ProofInv, Publish
  PROVE  Checked'
<1> USE DEF ProofInv
<1>1. /\ pc = "publish" /\ pc' = "check" /\ UNCHANGED <<schema, cur, stale>>
      /\ seen' = schema[cur] /\ Passed' = Passed /\ Heard' = Heard
  BY DEF Publish, agentVars, Passed, Proofs, Heard
<1>2. \A a \in Passed : a # cur
  BY <1>1, ParsedKeys DEF Passed, Proofs, TypeOK
<1>3. \A a : a # cur /\ InLive(a) => InLive(a)'
  BY DEF Publish, InLive, agentVars
<1>4. InLive(cur)'
  <2> SUFFICES ASSUME schema[cur].shape = "modules", NEW m \in DOMAIN schema[cur].entries
               PROVE  /\ <<cur, m>> \in DOMAIN live'
                      /\ live'[<<cur, m>>] = schema[cur].entries[m]
    BY <1>1 DEF InLive
  <2>1. /\ m \in Published(schema[cur]) /\ <<cur, m>> \in {cur} \X Published(schema[cur])
        /\ <<cur, m>>[1] = cur /\ <<cur, m>>[2] = m
    BY DEF Published
  <2> QED
    BY <2>1 DEF Publish
<1>5. LiveIsCurrent'
  BY <1>1, <1>2, <1>3, <1>4 DEF LiveIsCurrent
<1>6. PassedAgree'
  BY <1>1 DEF PassedAgree, Agree
<1> QED
  BY <1>5, <1>6 DEF Checked

\* A clean check makes the agent one of those passed.
LEMMA CheckedClean ==
  ASSUME ProofInv, Clean
  PROVE  Checked'
<1> USE DEF ProofInv
<1>1. /\ pc = "check" /\ UNCHANGED <<schema, live, stale>>
      /\ GoOn(After(cur)) /\ Conflicts(live, cur, Entries(seen)) = {}
  BY DEF Clean, agentVars
<1>2. cur' \in Parsed /\ pc' \in {"publish", "proved"} /\ Passed' = Passed \cup {cur} /\ Heard' = Heard
  BY <1>1, GoOnPasses DEF TypeOK, Proofs, Heard
<1>3. cur \in Heard => seen = schema[cur] /\ InLive(cur)
  BY <1>1 DEF LiveIsCurrent
<1>4. \A a \in (Passed \cap Heard) \ {cur} :
        cur \in Heard /\ schema[a].shape = "modules" => Agree(a, cur)
  BY <1>1, <1>3, CleanAgrees DEF LiveIsCurrent, Heard
<1>5. LiveIsCurrent'
  BY <1>1, <1>2, <1>3 DEF LiveIsCurrent, InLive
<1>6. ASSUME NEW a \in (Passed \cap Heard)', NEW b \in (Passed \cap Heard)', Key[a] < Key[b],
             schema[a].shape = "modules"
      PROVE  Agree(a, b)
  <2>1. CASE b = cur
    BY <1>2, <1>4, <1>6, <2>1, ParsedKeys DEF TypeOK
  <2>2. CASE b # cur
    <3>1. b \in Passed /\ a \in Parsed /\ cur \in Parsed
      BY <1>2, <2>2 DEF TypeOK, Passed
    <3>2. a # cur
      BY <1>1, <1>6, <3>1, ParsedKeys DEF Passed, Proofs
    <3>3. QED
      BY <1>2, <1>6, <3>1, <3>2 DEF PassedAgree
  <2> QED
    BY <2>1, <2>2
<1>7. PassedAgree'
  BY <1>1, <1>6 DEF PassedAgree, Agree
<1> QED
  BY <1>5, <1>7 DEF Checked

\* The conductor's other steps touch neither live/ nor who has passed, but for
\* a start from the beginning, when nobody has.
LEMMA CheckedOtherSteps ==
  ASSUME ProofInv, Gather \/ Conflict \/ Report \/ Clear \/ Wait \/ Stop \/ Resume
  PROVE  Checked'
<1>1. CASE Gather
  <2>1. Passed' = {}
    <3>1. CASE Parsed = {}
      BY <1>1, <3>1 DEF Gather, GoOn, Passed
    <3>2. CASE Parsed # {}
      <4>1. pc' = "publish" /\ cur' \in Parsed /\ IsFirst(cur', Parsed)
        BY <1>1, <3>2 DEF Gather, GoOn
      <4> QED
        BY <4>1, ParsedKeys DEF Passed, Proofs, IsFirst
    <3> QED
      BY <3>1, <3>2
  <2> QED
    BY <1>1, <2>1 DEF Gather, GoOn, Checked, LiveIsCurrent, PassedAgree
<1>2. CASE Stop \/ Resume
  <2>1. Passed' = {} /\ pc' # "check"
    BY <1>2 DEF Stop, Resume, Passed, Proofs
  <2> QED
    BY <2>1 DEF Checked, LiveIsCurrent, PassedAgree
<1>3. CASE Conflict \/ Report \/ Clear \/ Wait
  <2>1. /\ UNCHANGED <<schema, live, seen, cur, stale>> /\ pc' # "check"
        /\ pc \in Proofs /\ pc' \in Proofs /\ pc # "proved" /\ pc' # "proved"
    BY <1>3 DEF Conflict, Report, Clear, Wait, agentVars, Proofs
  <2>2. Passed' = Passed
    BY <2>1 DEF Passed
  <2> QED
    BY <2>1, <2>2, CheckedFrame
<1> QED
  BY <1>1, <1>2, <1>3

\* Every step keeps the invariant.
LEMMA ProofInvStep == ProofInv /\ [Next]_vars => ProofInv'
<1> SUFFICES ASSUME ProofInv, [Next]_vars PROVE ProofInv'
  OBVIOUS
<1>1. CASE Next
  <2>1. TypeOK'
    BY <1>1, TypeStep DEF ProofInv
  <2>2. Waiting'
    BY <1>1, WaitingAgentStep, WaitingProofStep DEF Next
  <2>3. Checked'
    BY <1>1, CheckedAgentStep, CheckedPublish, CheckedClean, CheckedOtherSteps DEF Next, Prove
  <2> QED
    BY <2>1, <2>2, <2>3 DEF ProofInv, Waiting, Checked
<1>2. CASE UNCHANGED vars
  BY <1>2 DEF vars, agentVars, ProofInv, TypeOK, FlagsAreFresh, RestartsWait, AllSignalled,
              OnlySentBackWork, LiveIsCurrent, PassedAgree, Passed, Heard, InLive, Agree, Signals
<1> QED
  BY <1>1, <1>2

\* The invariant holds in every reachable state of proofing.
THEOREM Invariance == Spec => []ProofInv
BY ProofInit, ProofInvStep, PTL DEF Spec

----------------------------------------------------------------------------
(* The theorems *)

\* Every reachable state is well typed, and live/ holds only what its agents
\* once declared.
THEOREM TypeCorrect == Spec => []TypeOK
<1>1. ProofInv => TypeOK
  BY DEF ProofInv
<1> QED
  BY <1>1, Invariance, PTL

\* No agent's schema is read while it is being rewritten, but for agents whose
\* old .done a restart took for a new one and those that use none.
THEOREM OnlyFinishedWorkIsRead == Spec => []ReadsFinishedWork
<1>1. ProofInv => ReadsFinishedWork
  BY ParsedKeys DEF ProofInv, TypeOK, OnlySentBackWork, Heard, Proofed, Proofs, ReadsFinishedWork
<1> QED
  BY <1>1, Invariance, PTL

\* However often agents are sent back and the conductor is restarted, no agent
\* that was waited for collides or clashes, when proofing is over, with an
\* earlier one whose schema has the key "modules", whatever shape its own has.
THEOREM PeersAgree == Spec => []PeersAgreeWhenProved
<1>1. ProofInv => PeersAgreeWhenProved
  BY ParsedKeys DEF ProofInv, PassedAgree, Passed, Heard, Agree, PeersAgreeWhenProved
<1> QED
  BY <1>1, Invariance, PTL

=============================================================================
