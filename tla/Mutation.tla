------------------------------- MODULE Mutation -------------------------------
(***************************************************************************)
(* The mutation seam (service/mutation.py): a caller sends a mutation      *)
(* under an idempotency key, and sends it again when it has no answer;     *)
(* the service issues a grant for it and runs execute_mutation, which      *)
(* answers from the stored outcome of the key or runs the domain mutation, *)
(* with claim, outcome and execution record in one transaction.            *)
(*                                                                         *)
(* The gate lets one request at a time through the service.  What its      *)
(* transaction has written is in call until it commits.  Who owns the      *)
(* workspace is Ownership's subject; here a crash rolls back, loses what   *)
(* was queued, and the next owner finds what was committed.                *)
(***************************************************************************)
EXTENDS Integers, Sequences, FiniteSets

CONSTANTS
    Requests,    \* mutations callers want
    Key,         \* idempotency scope of each: principal, operation and key
    Body,        \* fingerprint of each
    Legacy,      \* fingerprints an older Core gave each request's spellings
    Requires,    \* record version each requires, or None
    None,
    Refusals,    \* refusals a run allows: "authority", "expiry", "domain", "unservable"
    MaxLosses,   \* bound: answers lost or not waited for
    MaxCrashes   \* bound: crashes

ASSUME RequestAssumption ==
    /\ DOMAIN Key = Requests /\ DOMAIN Body = Requests
    /\ DOMAIN Legacy = Requests /\ DOMAIN Requires = Requests
    /\ None \notin Requests /\ None \notin Nat
    /\ \A r \in Requests : /\ Requires[r] \in Nat \cup {None}
                            /\ None \notin {Body[r]} \cup Legacy[r]
ASSUME RefusalAssumption ==
    Refusals \subseteq {"authority", "expiry", "domain", "unservable"}
ASSUME BoundAssumption == MaxLosses \in Nat /\ MaxCrashes \in Nat

VARIABLES
    effects,     \* committed domain mutations, in order
    claims,      \* fingerprint claimed under each key
    outcomes,    \* result stored for each key
    executions,  \* execution records, in order
    call,        \* the request inside the gate
    queued,      \* copies of each request on their way to the gate
    waiting,     \* callers waiting for an answer
    answer,      \* last answer each caller had
    up, losses, crashes

durable == <<effects, claims, outcomes, executions>>
callers == <<queued, waiting, answer>>
vars == <<durable, call, callers, up, losses, crashes>>

Keys == {Key[r] : r \in Requests}
Bodies == {Body[r] : r \in Requests} \cup UNION {Legacy[r] : r \in Requests}

\* The version of the record every mutation changes.
Version == Len(effects)

\* A result is the version it produced; 0 is none.
NoAnswer == [kind |-> "none", result |-> 0]
NoCall == [at |-> "none", request |-> None, result |-> 0]

\* The rows of a mutation that takes effect as request r with fingerprint b.
Effect(r, b) == [key |-> Key[r], body |-> b, requires |-> Requires[r]]
Execution(kind, r) == [kind |-> kind, key |-> Key[r]]

\* A new workspace ...
Empty ==
    /\ effects = <<>> /\ executions = <<>>
    /\ claims = [k \in Keys |-> None]
    /\ outcomes = [k \in Keys |-> 0]

\* ... or one in which an older Core has served a request and its answer was lost.
Upgraded(r, b) ==
    /\ Requires[r] \in {0, None}
    /\ effects = <<Effect(r, b)>> /\ executions = <<Execution("executed", r)>>
    /\ claims = [k \in Keys |-> IF k = Key[r] THEN b ELSE None]
    /\ outcomes = [k \in Keys |-> IF k = Key[r] THEN 1 ELSE 0]

Init ==
    /\ Empty \/ \E r \in Requests : \E b \in Legacy[r] : Upgraded(r, b)
    /\ call = NoCall
    /\ queued = [r \in Requests |-> 0]
    /\ waiting = {}
    /\ answer = [r \in Requests |-> NoAnswer]
    /\ up = TRUE /\ losses = 0 /\ crashes = 0

\* accepted_fingerprints: the canonical spelling, which new claims store, and the
\* aliases that only answer an existing claim.
Accepted(r) == {Body[r]} \cup Legacy[r]

-----------------------------------------------------------------------------
(* Callers *)

\* A caller settles on a result and on a refusal that establishes the outcome; a
\* refused authority is held until access is given, and everything else is asked
\* again under the same key.
Settles(a) == a.kind \in {"result", "conflict", "precondition", "refused"}

Send(r) ==
    /\ r \notin waiting /\ ~Settles(answer[r])
    /\ waiting' = waiting \cup {r}
    /\ queued' = [queued EXCEPT ![r] = @ + 1]
    /\ UNCHANGED <<durable, call, answer, up, losses, crashes>>

\* The connection is gone.
Disconnected(r) == queued[r] = 0 /\ call.request # r

\* No answer, or none in time.
GiveUp(r) ==
    /\ r \in waiting
    /\ \/ Disconnected(r) /\ UNCHANGED losses
       \/ ~Disconnected(r) /\ losses < MaxLosses /\ losses' = losses + 1
    /\ waiting' = waiting \ {r}
    /\ UNCHANGED <<durable, call, queued, answer, up, crashes>>

\* The one serving thread takes connections in their order, so the answer reaches a
\* caller that still waits and has no newer copy queued; whatever the transaction had
\* written and not committed is rolled back.
Reply(r, kind, result) ==
    LET heard == r \in waiting /\ queued[r] = 0 IN
    /\ call' = NoCall
    /\ waiting' = IF heard THEN waiting \ {r} ELSE waiting
    /\ answer' = IF heard THEN [answer EXCEPT ![r] = [kind |-> kind, result |-> result]]
                          ELSE answer

-----------------------------------------------------------------------------
(* The grant *)

\* issue_mutation_grant refuses: the session does not hold, or no longer holds,
\* the role or the operation.
Deny(r) ==
    /\ up /\ call = NoCall /\ queued[r] > 0 /\ "authority" \in Refusals
    /\ queued' = [queued EXCEPT ![r] = @ - 1]
    /\ LET heard == r \in waiting /\ queued'[r] = 0 IN
       /\ waiting' = IF heard THEN waiting \ {r} ELSE waiting
       /\ answer' = IF heard THEN [answer EXCEPT ![r] = [kind |-> "denied", result |-> 0]]
                             ELSE answer
    /\ UNCHANGED <<durable, call, up, losses, crashes>>

\* issue_mutation_grant, for this one request.
Grant(r) ==
    /\ up /\ call = NoCall /\ queued[r] > 0
    /\ queued' = [queued EXCEPT ![r] = @ - 1]
    /\ call' = [at |-> "granted", request |-> r, result |-> 0]
    /\ UNCHANGED <<durable, waiting, answer, up, losses, crashes>>

\* _require_current: the validity window has ended.  A call is over with the first
\* check that finds it so, hence any check may be the first.
Expired(kind) == "expiry" \in Refusals /\ Reply(call.request, kind, 0)

-----------------------------------------------------------------------------
(* execute_mutation *)

Goto(p) == call' = [call EXCEPT !.at = p] /\ UNCHANGED <<waiting, answer>>

\* The grant is checked before a transaction is opened.
Enter ==
    /\ call.at = "granted"
    /\ Goto("open") \/ Expired("denied")
    /\ UNCHANGED <<durable, queued, up, losses, crashes>>

\* Mutation of FindClaim: a claim under an older spelling is another request's.
FindClaimCanonical ==
    LET r == call.request  claim == claims[Key[r]] IN
    /\ call.at = "open"
    /\ IF claim = None THEN Goto("fresh")
       ELSE IF claim = Body[r] THEN Goto("replay")
       ELSE Reply(r, "conflict", 0)
    /\ UNCHANGED <<durable, queued, up, losses, crashes>>

\* An existing claim of this scope is resolved first.
FindClaim ==
    LET r == call.request  claim == claims[Key[r]] IN
    /\ call.at = "open"
    /\ IF claim = None THEN Goto("fresh")
       ELSE IF claim \in Accepted(r) THEN Goto("replay")
       ELSE Reply(r, "conflict", 0)
    /\ UNCHANGED <<durable, queued, up, losses, crashes>>

\* Mutation of Replay: answers with the record as it is now.
ReplayCurrent ==
    /\ call.at = "replay"
    /\ \/ /\ call' = [call EXCEPT !.at = "replayed", !.result = Version]
          /\ UNCHANGED <<waiting, answer>>
       \/ Expired("unestablished")
    /\ UNCHANGED <<durable, queued, up, losses, crashes>>

\* The stored answer, once the grant is found current.
Replay ==
    LET r == call.request IN
    /\ call.at = "replay"
    /\ \/ /\ call' = [call EXCEPT !.at = "replayed", !.result = outcomes[Key[r]]]
          /\ UNCHANGED <<waiting, answer>>
       \/ Expired("unestablished")
    /\ UNCHANGED <<durable, queued, up, losses, crashes>>

\* Mutation of Unservable: refused like any other request.
UnservableUnmarked ==
    /\ call.at = "replay" /\ "unservable" \in Refusals
    /\ Reply(call.request, "refused", 0)
    /\ UNCHANGED <<durable, queued, up, losses, crashes>>

\* replay_authority refuses, the stored document is not the one its digest names,
\* or the validator does not accept it any more.
Unservable ==
    /\ call.at = "replay" /\ "unservable" \in Refusals
    /\ Reply(call.request, "unestablished", 0)
    /\ UNCHANGED <<durable, queued, up, losses, crashes>>

\* Mutation of CommitReplay: the index on claim_id admits no record of a replay, and
\* the error drops the connection.
CommitReplayDuplicate ==
    /\ call.at = "replayed"
    /\ call' = NoCall
    /\ UNCHANGED <<durable, callers, up, losses, crashes>>

\* A replay spends its grant: the execution record is committed, unless the grant
\* has expired meanwhile.
CommitReplay ==
    LET r == call.request IN
    /\ call.at = "replayed"
    /\ \/ /\ executions' = Append(executions, Execution("replayed", r))
          /\ Goto("answering")
       \/ Expired("unestablished") /\ UNCHANGED executions
    /\ UNCHANGED <<effects, claims, outcomes, queued, up, losses, crashes>>

\* No claim: the precondition, then the grant, before anything is written.
CheckPrecondition ==
    LET r == call.request IN
    /\ call.at = "fresh"
    /\ IF Requires[r] # None /\ Requires[r] # Version THEN Reply(r, "precondition", 0)
       ELSE Goto("claimed") \/ Expired("denied")
    /\ UNCHANGED <<durable, queued, up, losses, crashes>>

\* The domain mutation runs ...
Mutate ==
    /\ call.at = "claimed"
    /\ call' = [call EXCEPT !.at = "mutated", !.result = Version + 1]
    /\ UNCHANGED <<durable, callers, up, losses, crashes>>

\* ... or raises, or returns what the validator rejects.
MutateFails ==
    /\ call.at = "claimed" /\ "domain" \in Refusals
    /\ Reply(call.request, "refused", 0)
    /\ UNCHANGED <<durable, queued, up, losses, crashes>>

\* Mutation of Commit: claim and outcome are not part of the transaction.
CommitUnclaimed ==
    LET r == call.request IN
    /\ call.at = "mutated"
    /\ effects' = Append(effects, Effect(r, Body[r]))
    /\ executions' = Append(executions, Execution("executed", r))
    /\ Goto("answering")
    /\ UNCHANGED <<claims, outcomes, queued, up, losses, crashes>>

\* Claim, domain rows, outcome and execution record commit together, if the grant is
\* current to the end.
Commit ==
    LET r == call.request IN
    /\ call.at = "mutated"
    /\ \/ /\ effects' = Append(effects, Effect(r, Body[r]))
          /\ claims' = [claims EXCEPT ![Key[r]] = Body[r]]
          /\ outcomes' = [outcomes EXCEPT ![Key[r]] = call.result]
          /\ executions' = Append(executions, Execution("executed", r))
          /\ Goto("answering")
       \/ Expired("denied") /\ UNCHANGED durable
    /\ UNCHANGED <<queued, up, losses, crashes>>

Answer ==
    /\ call.at = "answering"
    /\ Reply(call.request, "result", call.result)
    /\ UNCHANGED <<durable, queued, up, losses, crashes>>

-----------------------------------------------------------------------------

\* The process dies: its transaction is rolled back, its connections are gone.
Crash ==
    /\ up /\ crashes < MaxCrashes
    /\ up' = FALSE /\ crashes' = crashes + 1
    /\ call' = NoCall
    /\ queued' = [r \in Requests |-> 0]
    /\ UNCHANGED <<durable, waiting, answer, losses>>

Restart ==
    /\ ~up
    /\ up' = TRUE
    /\ UNCHANGED <<durable, call, callers, losses, crashes>>

\* Every caller has settled, and no copy of a request is left.
Quiescent ==
    /\ up /\ call = NoCall
    /\ \A r \in Requests : queued[r] = 0 /\ r \notin waiting /\ Settles(answer[r])
    /\ UNCHANGED vars

CallStep ==
    \/ Enter \/ FindClaim \/ Replay \/ CommitReplay \/ CheckPrecondition
    \/ Mutate \/ Commit \/ Answer

Next ==
    \/ CallStep \/ Unservable \/ MutateFails
    \/ \E r \in Requests : Send(r) \/ GiveUp(r) \/ Deny(r) \/ Grant(r)
    \/ Crash \/ Restart \/ Quiescent

Spec == Init /\ [][Next]_vars

\* The service works on, takes connections in their order (so none is passed over for
\* ever), is opened again after a crash, and a caller without an answer asks again.
FairSpec ==
    /\ Spec
    /\ WF_vars(CallStep) /\ WF_vars(Restart)
    /\ \A r \in Requests :
          /\ SF_vars(Grant(r) \/ Deny(r)) /\ WF_vars(Send(r))
          /\ WF_vars(Disconnected(r) /\ GiveUp(r))

-----------------------------------------------------------------------------
(* Properties *)

\* The tables keep their columns' domains, and a call is at a point of
\* execute_mutation.
TypeOK ==
    /\ effects \in Seq([key : Keys, body : Bodies, requires : Nat \cup {None}])
    /\ claims \in [Keys -> Bodies \cup {None}]
    /\ outcomes \in [Keys -> Nat]
    /\ executions \in Seq([kind : {"executed", "replayed"}, key : Keys])
    /\ call \in [at : {"none", "granted", "open", "replay", "replayed", "fresh",
                       "claimed", "mutated", "answering"},
                 request : Requests \cup {None}, result : Nat]
    /\ queued \in [Requests -> Nat] /\ waiting \subseteq Requests
    /\ answer \in [Requests -> [kind : {"none", "result", "denied", "conflict",
                                      "precondition", "refused", "unestablished"},
                               result : Nat]]
    /\ up \in BOOLEAN /\ losses \in Nat /\ crashes \in Nat

\* The effects a request can be the author of, under any of its spellings.
EffectsOf(r) ==
    {i \in DOMAIN effects : effects[i].key = Key[r] /\ effects[i].body \in Accepted(r)}

\* A key has one effect however often it is sent, answered, lost or interrupted,
\* and it has it exactly when its claim, its outcome and its one 'executed' record
\* are there (one transaction of execute_mutation).
EffectOnce ==
    \A k \in Keys :
        LET done == {i \in DOMAIN effects : effects[i].key = k}
            run  == {i \in DOMAIN executions : executions[i] = [kind |-> "executed", key |-> k]}
        IN /\ Cardinality(done) <= 1 /\ Cardinality(run) = Cardinality(done)
           /\ claims[k] # None <=> done # {}
           /\ \A i \in done : claims[k] = effects[i].body /\ outcomes[k] = i

\* A caller that got a result got the result of its own effect, also when the
\* record has moved on since and the answer is a replay (_replay).
AnswersAgree ==
    \A r \in Requests : answer[r].kind = "result" =>
        /\ answer[r].result \in EffectsOf(r)
        /\ \A s \in Requests :
              answer[s].kind = "result" /\ Key[s] = Key[r] => answer[s] = answer[r]

\* The step in which caller r hears an answer of one of the kinds.
Hears(r, kinds) == answer'[r] # answer[r] /\ answer'[r].kind \in kinds

\* A caller settles a failure only when there is no effect: a conflict, a failed
\* precondition and a rolled-back mutation are never heard of a request that has
\* committed, by whichever copy, and what withholds a stored answer carries the mark
\* (the OperationError handler around the replay).
SettledFailureHadNoEffect ==
    [][\A r \in Requests :
          Hears(r, {"conflict", "precondition", "refused"}) => EffectsOf(r) = {}]_vars

\* The register that callers see: its record is what was committed.
Register == INSTANCE IdempotentRegister WITH log <- effects, heard <- answer

\* Behind all its transactions, grants, lost answers and crashes the seam is an
\* idempotent register: each key is applied at most once and at the version it
\* requires, every answer is true of the record when it is heard, and one that
\* settles is the last (execute_mutation).
ImplementsRegister == Register!Spec

\* Every caller settles at last, unless it is told again and again that it has no
\* access or that the outcome cannot be established.
RequestsSettle ==
    \A r \in Requests :
        \/ <>Settles(answer[r])
        \/ []<><<r \in waiting /\ r \notin waiting'
                 /\ answer'[r].kind \in {"denied", "unestablished"}>>_vars
=============================================================================
