------------------------- MODULE MCDependencyGraph -------------------------
(* Instances of DependencyGraph for TLC. *)
EXTENDS DependencyGraph

CONSTANTS here, there

=============================================================================
