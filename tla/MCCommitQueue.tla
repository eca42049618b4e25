--------------------------- MODULE MCCommitQueue ---------------------------
(* Instances of CommitQueue for TLC. *)
EXTENDS CommitQueue

CONSTANTS r1, w1, w2, f1, f2

\* Every worker serves the same repository.
SameRepo == [w \in Workers |-> r1]

\* A bound on the surroundings: agents list one file at a time, and f1 is the one
\* that is edited.  An entry that lists f2 has nothing of its own to stage, so
\* whatever its commit holds is somebody else's.
OneFileEdited ==
  /\ \A e \in Ids : Cardinality(rows[e].files) <= 1
  /\ \A r \in Repos : worktree[r] \subseteq {f1}

=============================================================================
