----------------------------- MODULE MCRouting -----------------------------
(* Instances of Routing for TLC. *)
EXTENDS Routing, TLC

\* Each repository has the name of its directory.
Called == [p \in Paths |-> p]

\* Conductors are alike: no definition tells one from the other.
Symmetry == Permutations(Conductors)
=============================================================================
