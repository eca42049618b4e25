----------------------------- MODULE DriftScore -----------------------------
(***************************************************************************)
(* score_drift() of memory/drift_scorer.py, in whole numbers.              *)
(*                                                                         *)
(* A contract summary is a record: contracts maps the keys "type:name" to  *)
(* what a contract says, assumptions and dependencies are sets.  The score *)
(* is a fraction; Numerator over Hundredths is a hundred times it, and     *)
(* Score is what the gate compares, the fraction rounded to four digits,   *)
(* in ten-thousandths.  min(1.0, ...) is left out: 5500 is the most.       *)
(***************************************************************************)
EXTENDS Integers, FiniteSets

Removed(previous, current)  == DOMAIN previous.contracts \ DOMAIN current.contracts
Added(previous, current)    == DOMAIN current.contracts \ DOMAIN previous.contracts
Modified(previous, current) ==
  {k \in DOMAIN previous.contracts \cap DOMAIN current.contracts :
     previous.contracts[k] # current.contracts[k]}

\* How many elements two sets differ in.
Changes(S, T) == Cardinality((S \ T) \cup (T \ S))

\* Mutant of Whole: changes are measured against what there was before.
WholeBefore(S, T) == IF S = {} THEN 1 ELSE Cardinality(S)

\* How many they have; the code skips a division by 0, where Changes is 0 as well.
Whole(S, T) == IF S \cup T = {} THEN 1 ELSE Cardinality(S \cup T)

ContractChanges(previous, current) ==
  40 * Cardinality(Removed(previous, current))
    + 35 * Cardinality(Modified(previous, current))
    + 25 * Cardinality(Added(previous, current))

Score(previous, current) ==
  LET keys == Whole(DOMAIN previous.contracts, DOMAIN current.contracts)
      assumed == Whole(previous.assumptions, current.assumptions)
      needed  == Whole(previous.dependencies, current.dependencies)
      \* a hundred times the score, over keys * assumed * needed
      raw == ContractChanges(previous, current) * assumed * needed
               + 10 * Changes(previous.assumptions, current.assumptions) * keys * needed
               + 5 * Changes(previous.dependencies, current.dependencies) * keys * assumed
      all == keys * assumed * needed
  IN IF DOMAIN previous.contracts \cup DOMAIN current.contracts = {}
     THEN 0
     ELSE (2 * 100 * raw + all) \div (2 * all)

=============================================================================
