------------------------------ MODULE MCMutation ------------------------------
(* r1 may have been served by an older Core under another fingerprint, r2 is  *)
(* a different request under the same key, and r3 has a key of its own and    *)
(* requires the version the other two each produce.                           *)
EXTENDS Mutation, TLC

CONSTANTS r1, r2, r3, k1, k2, b0, b1, b2, b3

MCKey == [r \in Requests |-> IF r = r3 THEN k2 ELSE k1]
MCBody == [r \in Requests |-> CASE r = r1 -> b1 [] r = r2 -> b2 [] r = r3 -> b3]
MCLegacy == [r \in Requests |-> IF r = r1 THEN {b0} ELSE {}]
MCRequires == [r \in Requests |-> IF r = r3 THEN 1 ELSE None]
=============================================================================
