----------------------------- MODULE MCKpiRaces -----------------------------
(***************************************************************************)
(* Values for the constants of KpiRaces, chosen by the .cfg file.          *)
(***************************************************************************)
EXTENDS KpiRaces, TLC

CONSTANTS r1, r2, r3, fact, bonus

RequestSymmetry == Permutations(Request)

(* Every metric scores 1.                                                  *)
UnitScore == [f \in MetricInput |-> 1]

(* Every recipient is reached.                                             *)
AllReached == {{"sent"}}
=============================================================================
