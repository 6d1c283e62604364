---------------------------- MODULE KpiLifecycle ----------------------------
(***************************************************************************)
(* What the service keeps to whatever runs at the same time: an instance   *)
(* is submitted once, an approval is never taken back, and every approval  *)
(* is on record.  KpiInstances implements it.                              *)
(***************************************************************************)
CONSTANTS
  Instance,   (* the instances there may be                                *)
  Approval    (* the finalizations there may be                            *)

VARIABLES
  status,     (* the status of each instance                               *)
  record      (* the approvals on record: <<instance, finalization>>       *)

vars == <<status, record>>

Init == status = [i \in Instance |-> "absent"] /\ record = {}

Submit(i) ==
  /\ status[i] = "absent"
  /\ status' = [status EXCEPT ![i] = "submitted"]
  /\ UNCHANGED record

(* Two approvers may both have found the instance submitted.               *)
Approve(i, a) ==
  /\ status[i] \in {"submitted", "approved"}
  /\ status' = [status EXCEPT ![i] = "approved"]
  /\ record' = record \cup {<<i, a>>}

Next ==
  \E i \in Instance : Submit(i) \/ \E a \in Approval : Approve(i, a)

Spec == Init /\ [][Next]_vars
=============================================================================
