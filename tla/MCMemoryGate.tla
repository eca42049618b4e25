---------------------------- MODULE MCMemoryGate ----------------------------
(* Instances of MemoryGate for TLC. *)
EXTENDS MemoryGate, TLC

Says(contracts, assumptions, dependencies) ==
  [contracts |-> contracts, assumptions |-> assumptions, dependencies |-> dependencies]

\* What is removed scores most: 45 of a hundred from "parse" to "index" and 55
\* from "metres" to "feet"; from "parse" to "metres" nothing but assumptions change.
Contracts ==
  "parse" :> Says("get" :> "id" @@ "put" :> "id", {}, {"json"})
  @@ "index" :> Says(<<>>, {}, {"sqlite"})
  @@ "metres" :> Says("get" :> "id" @@ "put" :> "id", {"metres"}, {"json"})
  @@ "feet" :> Says(<<>>, {"feet"}, {"units"})

=============================================================================
