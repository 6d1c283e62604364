------------------------------ MODULE MCReports ------------------------------
(***************************************************************************)
(* Values for the constants of Reports, chosen by the .cfg files.          *)
(***************************************************************************)
EXTENDS Reports, TLC

CONSTANTS r1, r2, s1, fact

RequestSymmetry == Permutations(Request)

(* Two employees, each with a month of their own.                          *)
TwoKeys == {[employee |-> "anna", month |-> "jan"],
            [employee |-> "boris", month |-> "feb"]}

UnitScore == [f \in MetricInput |-> 1]
=============================================================================
