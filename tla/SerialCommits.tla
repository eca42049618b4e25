--------------------------- MODULE SerialCommits ---------------------------
(***************************************************************************)
(* What the commit queue promises, in the words of queue/commit_queue.py:  *)
(* it "serializes commits from concurrent agents", and an accepted entry   *)
(* "was processed serially and cleared the gate chain".                    *)
(*                                                                         *)
(* Each repository takes one entry in hand at a time, the oldest first;    *)
(* only the entry in hand may land a commit, at most one; and its verdict  *)
(* is final.  An entry whose worker is lost is abandoned where it stands.  *)
(* Others than the queue commit to the repository as they please.          *)
(***************************************************************************)
EXTENDS Integers, Sequences

CONSTANTS Repos, MaxEntries

VARIABLES
  home,     \* the repository of each entry
  verdict,  \* where each entry stands
  history   \* per repository, the entries that landed, oldest first; 0 is nobody's

sVars == <<home, verdict, history>>

Ids     == 1..MaxEntries
Verdict == {"unsubmitted", "waiting", "inhand", "accepted", "rejected", "abandoned"}

Landed(e)   == \E i \in 1..Len(history[home[e]]) : history[home[e]][i] = e
Give(e, v)  == verdict' = [verdict EXCEPT ![e] = v]

Init ==
  /\ home \in [Ids -> Repos]
  /\ verdict = [e \in Ids |-> "unsubmitted"]
  /\ history = [r \in Repos |-> <<>>]

\* Entries are numbered in the order they are submitted.
Submit(e, r) ==
  /\ verdict[e] = "unsubmitted"
  /\ \A e2 \in Ids : e2 < e => verdict[e2] # "unsubmitted"
  /\ Give(e, "waiting")
  /\ home' = [home EXCEPT ![e] = r]
  /\ UNCHANGED history

Begin(e) ==
  /\ verdict[e] = "waiting"
  /\ \A e2 \in Ids : home[e2] = home[e] =>
       /\ verdict[e2] # "inhand"
       /\ verdict[e2] = "waiting" => e <= e2
  /\ Give(e, "inhand")
  /\ UNCHANGED <<home, history>>

Land(e) ==
  /\ verdict[e] = "inhand"
  /\ ~Landed(e)
  /\ history' = [history EXCEPT ![home[e]] = Append(@, e)]
  /\ UNCHANGED <<home, verdict>>

Accept(e) ==
  /\ verdict[e] = "inhand"
  /\ Landed(e)
  /\ Give(e, "accepted")
  /\ UNCHANGED <<home, history>>

Reject(e) ==
  /\ verdict[e] = "inhand"
  /\ Give(e, "rejected")
  /\ UNCHANGED <<home, history>>

Abandon(e) ==
  /\ verdict[e] = "inhand"
  /\ Give(e, "abandoned")
  /\ UNCHANGED <<home, history>>

\* A commit that is no entry's.
Others(r) ==
  /\ history' = [history EXCEPT ![r] = Append(@, 0)]
  /\ UNCHANGED <<home, verdict>>

Next ==
  \/ \E e \in Ids :
       \/ \E r \in Repos : Submit(e, r)
       \/ Begin(e) \/ Land(e) \/ Accept(e) \/ Reject(e) \/ Abandon(e)
  \/ \E r \in Repos : Others(r)

Spec == Init /\ [][Next]_sVars

=============================================================================
