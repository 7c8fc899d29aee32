---------------------------- MODULE MCManagedStart ----------------------------
(* Two launchers, the child of each, and a service that died before them. *)
EXTENDS ManagedStart, TLC

CONSTANTS l1, l2, c1, c2, p0

TwoChildren == l1 :> c1 @@ l2 :> c2
=============================================================================
