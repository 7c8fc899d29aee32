--------------------------- MODULE MCAgentRuntime ---------------------------
(* A plan whose last step depends on the first, the others on nothing. *)
EXTENDS AgentRuntime

Fork == [s \in Steps |-> IF s = NSteps THEN {1} \ {NSteps} ELSE {}]
=============================================================================
