------------------------- MODULE MCMaterialDispatch -------------------------
(* Two attempts and one reconciler.                                        *)
EXTENDS MaterialDispatch

CONSTANTS a, b, p
=============================================================================
