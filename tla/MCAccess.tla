------------------------------- MODULE MCAccess ------------------------------
(***************************************************************************)
(* Values for the constants of Access, chosen by the .cfg files.           *)
(***************************************************************************)
EXTENDS Access, TLC

CONSTANTS boss, anna, u1, u2, u3, edit, r1, r2

Symmetry == Permutations(UserId) \cup Permutations(Request)

AdminRoles == {"Super Admin", "Admin"}
AdminEdits == {<<"Admin", edit>>}
=============================================================================
