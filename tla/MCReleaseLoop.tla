--------------------------- MODULE MCReleaseLoop ---------------------------
(* Instances of ReleaseLoop for TLC. *)
EXTENDS ReleaseLoop, TLC

CONSTANTS a1, a2, a3

ThreeAgents == <<a1, a2, a3>>

\* a1 waits for the two that follow it, a3 for a2.
Backwards == (a1 :> {a2, a3}) @@ (a2 :> {}) @@ (a3 :> {a2})

=============================================================================
