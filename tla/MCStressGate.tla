---------------------------- MODULE MCStressGate ----------------------------
(* Instances of StressGate for TLC. *)
EXTENDS StressGate

Loads == <<70, 100, 120>>
=============================================================================
