---------------------------- MODULE MCWorkspace ----------------------------
(***************************************************************************)
(* The workspace has no parameters but its bounds, which the configuration *)
(* gives.                                                                  *)
(***************************************************************************)
EXTENDS Workspace
=============================================================================
