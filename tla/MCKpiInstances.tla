--------------------------- MODULE MCKpiInstances ---------------------------
(***************************************************************************)
(* Values for the constants of KpiInstances, chosen by the .cfg files.     *)
(***************************************************************************)
EXTENDS KpiInstances, TLC

CONSTANTS r1, r2, r3, fact, bonus

RequestSymmetry == Permutations(Request)

(* Every metric scores 1.                                                  *)
UnitScore == [f \in MetricInput |-> 1]

(* A salary of 0 and one that matters.                                     *)
NoSalary  == {0}
AnySalary == {0, 5}

(* Every recipient is reached.                                             *)
AllReached == {{"sent"}}

(* Nobody to notify, or some reached and some not.                         *)
AnyDelivery == {{}, {"sent"}, {"failed"}, {"sent", "failed"}}

AllOperations == {"create", "finalize", "dispute", "bot"}
ApiOperations == {"create", "finalize", "dispute"}

(* Every request is answered, stated of r1: the specification treats the   *)
(* requests alike, so what holds of r1 holds of every one of them.         *)
AnyRequestAnswered == RequestAnswered(r1)
=============================================================================
