---------------------------- MODULE MCCommitLog ----------------------------
(* Instances of CommitLog for TLC. *)
EXTENDS CommitLog, TLC

\* Writers are alike: no definition tells one from the other.
Symmetry == Permutations(Writers)

\* A bound on what overlaps: a devlog writer comes while no chain is under way and
\* no more than one chain has been saved.  A writer and a chain have nothing in
\* common but the hooks, which read what the one saves and append to what the other
\* rewrites, and the hooks are free.
Apart ==
  \/ \A w \in Writers : step[w] = "off"
  \/ Len(db) <= Token /\ \A p \in Committers : ~serving[p]

=============================================================================
