------------------------------ MODULE MCUpdate ------------------------------
(* One administrator beside the supervisor, versions 1 to 3, one crash. *)
EXTENDS Update

CONSTANTS a1

MCAdmins == {a1}
=============================================================================
