---------------------------- MODULE MCOwnership ----------------------------
(* Two instances of the service compete for the workspace. *)
EXTENDS Ownership
=============================================================================
