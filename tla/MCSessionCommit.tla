-------------------------- MODULE MCSessionCommit --------------------------
(* Instances of SessionCommit for TLC. *)
EXTENDS SessionCommit

CONSTANTS here, there

TwoRepos == <<here, there>>

=============================================================================
