-------------------------- MODULE IdempotentRegister --------------------------
(***************************************************************************)
(* What the mutation seam promises its callers: a record to which every    *)
(* idempotency key is applied at most once and at the version it requires, *)
(* and answers that are true of the record at the moment they are heard.   *)
(* No transactions, claims, grants, connections, retries or crashes.       *)
(***************************************************************************)
EXTENDS Naturals, Sequences

CONSTANTS Requests, Key, Body, Legacy, Requires, None

VARIABLES
    log,     \* what was applied, in order
    heard    \* the last answer each caller had

vars == <<log, heard>>

Entry(r, b) == [key |-> Key[r], body |-> b, requires |-> Requires[r]]

\* The spellings under which a request is known.
Spellings(r) == {Body[r]} \cup Legacy[r]

\* What was applied under the key of a request.
Under(r) == {i \in DOMAIN log : log[i].key = Key[r]}

\* The record has the version the request requires.
Current(r) == Requires[r] \in {None, Len(log)}

\* A record may have a history of one request under an older spelling.
Init ==
    /\ \/ log = <<>>
       \/ \E r \in Requests : \E b \in Legacy[r] :
             Requires[r] \in {0, None} /\ log = <<Entry(r, b)>>
    /\ heard = [r \in Requests |-> [kind |-> "none", result |-> 0]]

Apply(r) ==
    /\ Under(r) = {} /\ Current(r)
    /\ log' = Append(log, Entry(r, Body[r]))
    /\ UNCHANGED heard

\* An answer that settles a request is the last it hears.
Settled(r) == heard[r].kind \in {"result", "conflict", "precondition", "refused"}

Hear(r, kind, result) ==
    /\ ~Settled(r)
    /\ heard' = [heard EXCEPT ![r] = [kind |-> kind, result |-> result]]
    /\ UNCHANGED log

\* Where the request was applied, under any of its spellings.
HearResult(r) ==
    \E i \in Under(r) : log[i].body \in Spellings(r) /\ Hear(r, "result", i)

\* Another request was applied under the key.
HearConflict(r) ==
    \E i \in Under(r) : log[i].body \notin Spellings(r) /\ Hear(r, "conflict", 0)

\* Nothing was applied, and the version is another.
HearPrecondition(r) ==
    Under(r) = {} /\ ~Current(r) /\ Hear(r, "precondition", 0)

\* Nothing was applied.
HearRefused(r) == Under(r) = {} /\ Hear(r, "refused", 0)

\* Nothing is said of the record.
HearNothing(r) ==
    \E kind \in {"denied", "unestablished"} : Hear(r, kind, 0)

Next ==
    \E r \in Requests :
        \/ Apply(r) \/ HearResult(r) \/ HearConflict(r) \/ HearPrecondition(r)
        \/ HearRefused(r) \/ HearNothing(r)

Spec == Init /\ [][Next]_vars
=============================================================================
