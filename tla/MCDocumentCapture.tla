--------------------------- MODULE MCDocumentCapture ---------------------------
(* Two captures and two identities in a cache with room for one. *)
EXTENDS DocumentCapture, TLC

CONSTANTS c1, c2, e1, e2

English == {{e1}}
=============================================================================
