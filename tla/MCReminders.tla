----------------------------- MODULE MCReminders -----------------------------
(***************************************************************************)
(* Values for the constants of Reminders; those of Access are MCAccess's.  *)
(***************************************************************************)
EXTENDS Reminders, MCAccess
=============================================================================
