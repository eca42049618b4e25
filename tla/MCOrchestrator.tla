--------------------------- MODULE MCOrchestrator --------------------------
(* Instances of Orchestrator for TLC. *)
EXTENDS Orchestrator

CONSTANTS q1, q2, q3, t1, t2

ChainParallel   == <<"lint", "memory">>
ChainSequential == <<"test", "build">>

\* No tree is clean throughout: lint rejects t2 and the test suite rejects t1.
MixedTrees ==
  [g \in {"lint", "memory", "test", "build"} |->
     CASE g = "lint" -> {t1} [] g = "test" -> {t2} [] OTHER -> {t1, t2}]

=============================================================================
