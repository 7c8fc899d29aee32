-------------------------- MODULE MaterialDispatch --------------------------
(***************************************************************************)
(* Dispatch of one material effect by the attempts that may issue it       *)
(* (service/material_dispatch_safety.py).  Each attempt has a coordinator  *)
(* whose dispatch_material reads the stop and the latch, reads the effect  *)
(* ledger, commits an intent to the journal, claims the effect in the      *)
(* ledger by compare-and-set, lets the effect out, commits a receipt and   *)
(* settles the ledger.  Each of these is a call to a collaborator: other   *)
(* attempts, a takeover and a crash fall between any two of them.          *)
(*                                                                         *)
(* The store, the journal and the effect itself are arguments of the code. *)
(* The store is its protocol: a stale fence is refused, a compare-and-set  *)
(* is atomic.  The effect may land, be lost, or still be under way when    *)
(* the call that issued it raises.  A reconciler gives an answer only on   *)
(* evidence that was true when it was taken.                               *)
(***************************************************************************)
EXTENDS Integers

CONSTANTS
    Attempts,       \* the attempts that may issue the effect
    Reconcilers,    \* those who establish what became of it
    RetryLimit,     \* commit_retry_limit
    MaxFence,       \* bound: the store's generations
    MaxCalls        \* bound: calls of dispatch_material per attempt

ASSUME RetryLimitAssumption == RetryLimit \in Nat
ASSUME MaxFenceAssumption == MaxFence \in Nat
ASSUME MaxCallsAssumption == MaxCalls \in Nat

VARIABLES
    ledger,     \* the effect's state in the authoritative store
    latch,      \* the attempts whose stop is durable
    stopped,    \* whether a stop of the run is recorded
    fence,      \* the store's current generation
    held,       \* the generation each coordinator was built with
    pc,         \* where each call of dispatch_material stands
    seen,       \* the ledger state the call read
    tries,      \* journal commits that failed in this phase
    calls,      \* calls begun by each attempt
    applied,    \* how often the effect has reached the world
    inflight,   \* issued, its call over, and neither landed nor lost yet
    verdict,    \* the answer a reconciler is about to record
    term        \* the generation the reconciler was built with

store == <<ledger, latch, stopped, fence>>
local == <<held, pc, seen, tries, calls>>
world == <<applied, inflight>>
judges == <<verdict, term>>
vars == <<ledger, latch, stopped, fence, held, pc, seen, tries, calls,
          applied, inflight, verdict, term>>

EffectStates == {"predeclared", "issued_unknown", "settled_applied", "proved_not_applied"}
Dispatchable == {"predeclared", "proved_not_applied"}
Steps == {"idle", "read", "intent", "claim", "dispatch", "receipt", "settle", "latching"}

TypeOK ==
    /\ ledger \in EffectStates
    /\ latch \in SUBSET Attempts
    /\ stopped \in BOOLEAN
    /\ fence \in 0..MaxFence
    /\ held \in [Attempts -> 0..MaxFence]
    /\ pc \in [Attempts -> Steps]
    /\ seen \in [Attempts -> EffectStates]
    /\ tries \in [Attempts -> 0..RetryLimit]
    /\ calls \in [Attempts -> 0..MaxCalls]
    /\ applied \in Nat
    /\ inflight \in Nat
    /\ verdict \in [Reconcilers -> {"none", "settled_applied", "proved_not_applied"}]
    /\ term \in [Reconcilers -> 0..MaxFence]

Init ==
    /\ ledger = "predeclared"
    /\ latch = {}
    /\ stopped = FALSE
    /\ fence = 0
    /\ held = [a \in Attempts |-> 0]
    /\ pc = [a \in Attempts |-> "idle"]
    /\ seen = [a \in Attempts |-> "predeclared"]
    /\ tries = [a \in Attempts |-> 0]
    /\ calls = [a \in Attempts |-> 0]
    /\ applied = 0
    /\ inflight = 0
    /\ verdict = [p \in Reconcilers |-> "none"]
    /\ term = [p \in Reconcilers |-> 0]

-----------------------------------------------------------------------------
(* dispatch_material.                                                      *)

Goto(a, step) == pc' = [pc EXCEPT ![a] = step]

\* authorize: a recorded stop, then the durable latch, refuse.
Authorize(a) ==
    /\ pc[a] = "idle"
    /\ calls[a] < MaxCalls
    /\ ~stopped
    /\ a \notin latch
    /\ Goto(a, "read")
    /\ calls' = [calls EXCEPT ![a] = @ + 1]
    /\ UNCHANGED <<store, held, seen, tries, world, judges>>

\* Mutation of ReadState: only issued_unknown is refused.
ReadStateAnswered(a) ==
    /\ pc[a] = "read"
    /\ IF ledger # "issued_unknown"
       THEN Goto(a, "intent") /\ seen' = [seen EXCEPT ![a] = ledger]
       ELSE Goto(a, "idle") /\ UNCHANGED seen
    /\ UNCHANGED <<store, held, tries, calls, world, judges>>

\* Only a predeclared effect, or one proved untouched, goes on.
ReadState(a) ==
    /\ pc[a] = "read"
    /\ IF ledger \in Dispatchable
       THEN Goto(a, "intent") /\ seen' = [seen EXCEPT ![a] = ledger]
       ELSE Goto(a, "idle") /\ UNCHANGED seen
    /\ UNCHANGED <<store, held, tries, calls, world, judges>>

\* Mutation of Commit: one retry more than the budget.
CommitOnceMore(a, phase, next, outcome) ==
    /\ pc[a] = phase
    /\ \/ outcome = "committed" /\ Goto(a, next) /\ tries' = [tries EXCEPT ![a] = 0]
       \/ outcome = "failed" /\ tries[a] <= RetryLimit
            /\ tries' = [tries EXCEPT ![a] = @ + 1] /\ UNCHANGED pc
       \/ outcome = "failed" /\ tries[a] > RetryLimit
            /\ Goto(a, "latching") /\ tries' = [tries EXCEPT ![a] = 0]
       \/ outcome = "uncertain" /\ Goto(a, "latching") /\ tries' = [tries EXCEPT ![a] = 0]
    /\ UNCHANGED <<store, held, seen, calls, world, judges>>

\* Mutation of Commit: an uncertain commit starts over with a fresh budget.
CommitUncertainAgain(a, phase, next, outcome) ==
    /\ pc[a] = phase
    /\ \/ outcome = "committed" /\ Goto(a, next) /\ tries' = [tries EXCEPT ![a] = 0]
       \/ outcome = "failed" /\ tries[a] < RetryLimit
            /\ tries' = [tries EXCEPT ![a] = @ + 1] /\ UNCHANGED pc
       \/ outcome = "failed" /\ tries[a] = RetryLimit
            /\ Goto(a, "latching") /\ tries' = [tries EXCEPT ![a] = 0]
       \/ outcome = "uncertain" /\ tries' = [tries EXCEPT ![a] = 0] /\ UNCHANGED pc
    /\ UNCHANGED <<store, held, seen, calls, world, judges>>

\* _commit: a failed commit is tried again while the budget lasts; one that
\* is uncertain, or the last failed one, ends the call with a latch.
Commit(a, phase, next, outcome) ==
    /\ pc[a] = phase
    /\ \/ outcome = "committed" /\ Goto(a, next) /\ tries' = [tries EXCEPT ![a] = 0]
       \/ outcome = "failed" /\ tries[a] < RetryLimit
            /\ tries' = [tries EXCEPT ![a] = @ + 1] /\ UNCHANGED pc
       \/ outcome = "failed" /\ tries[a] = RetryLimit
            /\ Goto(a, "latching") /\ tries' = [tries EXCEPT ![a] = 0]
       \/ outcome = "uncertain" /\ Goto(a, "latching") /\ tries' = [tries EXCEPT ![a] = 0]
    /\ UNCHANGED <<store, held, seen, calls, world, judges>>

CommitIntent(a, outcome)  == Commit(a, "intent", "claim", outcome)
CommitReceipt(a, outcome) == Commit(a, "receipt", "settle", outcome)

\* Mutation of ClaimEffect: a blind write in place of the compare-and-set.
ClaimEffectBlind(a) ==
    /\ pc[a] = "claim"
    /\ IF held[a] = fence
       THEN ledger' = "issued_unknown" /\ Goto(a, "dispatch")
       ELSE UNCHANGED ledger /\ Goto(a, "idle")
    /\ UNCHANGED <<latch, stopped, fence, held, seen, tries, calls, world, judges>>

\* The claim: compare-and-set from the state that was read.  A stale fence
\* and a lost race end the call, nothing issued.
ClaimEffect(a) ==
    /\ pc[a] = "claim"
    /\ IF held[a] = fence /\ ledger = seen[a]
       THEN ledger' = "issued_unknown" /\ Goto(a, "dispatch")
       ELSE UNCHANGED ledger /\ Goto(a, "idle")
    /\ UNCHANGED <<latch, stopped, fence, held, seen, tries, calls, world, judges>>

\* Mutation of DispatchEffect: the exception is swallowed and a receipt follows.
DispatchEffectSwallowed(a, fate) ==
    /\ pc[a] = "dispatch"
    /\ \/ fate \in {"applied", "raised_applied"} /\ applied' = applied + 1 /\ UNCHANGED inflight
       \/ fate = "raised_lost" /\ UNCHANGED world
       \/ fate = "raised_under_way" /\ inflight' = inflight + 1 /\ UNCHANGED applied
    /\ Goto(a, "receipt")
    /\ UNCHANGED <<store, held, seen, tries, calls, judges>>

\* The effect is let out.  When the call raises nobody knows what became of it.
DispatchEffect(a, fate) ==
    /\ pc[a] = "dispatch"
    /\ \/ fate = "applied" /\ applied' = applied + 1 /\ UNCHANGED inflight /\ Goto(a, "receipt")
       \/ fate = "raised_applied" /\ applied' = applied + 1 /\ UNCHANGED inflight /\ Goto(a, "latching")
       \/ fate = "raised_lost" /\ UNCHANGED world /\ Goto(a, "latching")
       \/ fate = "raised_under_way" /\ inflight' = inflight + 1 /\ UNCHANGED applied /\ Goto(a, "latching")
    /\ UNCHANGED <<store, held, seen, tries, calls, judges>>

\* The settlement: compare-and-set from issued_unknown.  Losing it is a
\* reconciliation, and latches.
SettleEffect(a) ==
    /\ pc[a] = "settle"
    /\ \/ held[a] # fence /\ UNCHANGED ledger /\ Goto(a, "idle")
       \/ held[a] = fence /\ ledger = "issued_unknown"
            /\ ledger' = "settled_applied" /\ Goto(a, "idle")
       \/ held[a] = fence /\ ledger # "issued_unknown" /\ UNCHANGED ledger /\ Goto(a, "latching")
    /\ UNCHANGED <<latch, stopped, fence, held, seen, tries, calls, world, judges>>

\* _latched_outcome: the stop is made durable unless the fence is stale.
WriteLatch(a) ==
    /\ pc[a] = "latching"
    /\ latch' = IF held[a] = fence THEN latch \cup {a} ELSE latch
    /\ Goto(a, "idle")
    /\ UNCHANGED <<ledger, stopped, fence, held, seen, tries, calls, world, judges>>

\* The process of the attempt dies anywhere in the call; the attempt gets a
\* fresh coordinator over the same store.
Crash(a) ==
    /\ pc[a] # "idle"
    /\ Goto(a, "idle")
    /\ tries' = [tries EXCEPT ![a] = 0]
    /\ held' = [held EXCEPT ![a] = fence]
    /\ UNCHANGED <<store, seen, calls, world, judges>>

\* A caller rebuilds the coordinator of an idle attempt under the new fence.
Rebuild(a) ==
    /\ pc[a] = "idle"
    /\ held[a] # fence
    /\ held' = [held EXCEPT ![a] = fence]
    /\ UNCHANGED <<store, pc, seen, tries, calls, world, judges>>

-----------------------------------------------------------------------------
(* The world, the store's fence, the stop and reconciliation.              *)

Land ==
    /\ inflight > 0
    /\ inflight' = inflight - 1
    /\ applied' = applied + 1
    /\ UNCHANGED <<store, local, judges>>

Lose ==
    /\ inflight > 0
    /\ inflight' = inflight - 1
    /\ UNCHANGED <<store, local, applied, judges>>

Takeover ==
    /\ fence < MaxFence
    /\ fence' = fence + 1
    /\ UNCHANGED <<ledger, latch, stopped, local, world, judges>>

RecordStop ==
    /\ ~stopped
    /\ stopped' = TRUE
    /\ UNCHANGED <<ledger, latch, fence, local, world, judges>>

\* Evidence for an answer: the effect is found applied, or it is established
\* that it was not and that nothing is left which could still apply it.
Examine(p) ==
    /\ verdict[p] = "none"
    /\ ledger = "issued_unknown"
    /\ \/ applied > 0 /\ verdict' = [verdict EXCEPT ![p] = "settled_applied"]
       \/ /\ applied = 0 /\ inflight = 0
          /\ \A a \in Attempts : pc[a] # "dispatch"
          /\ verdict' = [verdict EXCEPT ![p] = "proved_not_applied"]
    /\ term' = [term EXCEPT ![p] = fence]
    /\ UNCHANGED <<store, local, world>>

\* reconcile: compare-and-set from issued_unknown, which nothing else is
\* moved from.  It issues nothing and clears no latch.
Reconcile(p) ==
    /\ verdict[p] # "none"
    /\ ledger' = IF term[p] = fence /\ ledger = "issued_unknown" THEN verdict[p] ELSE ledger
    /\ verdict' = [verdict EXCEPT ![p] = "none"]
    /\ UNCHANGED <<latch, stopped, fence, local, world, term>>

Outcomes == {"committed", "failed", "uncertain"}
Fates == {"applied", "raised_applied", "raised_lost", "raised_under_way"}

Advance(a) ==
    \/ ReadState(a) \/ ClaimEffect(a) \/ SettleEffect(a) \/ WriteLatch(a)
    \/ \E outcome \in Outcomes : CommitIntent(a, outcome) \/ CommitReceipt(a, outcome)
    \/ \E fate \in Fates : DispatchEffect(a, fate)

Next ==
    \/ \E a \in Attempts : Authorize(a) \/ Advance(a) \/ Crash(a) \/ Rebuild(a)
    \/ \E p \in Reconcilers : Examine(p) \/ Reconcile(p)
    \/ Land \/ Lose \/ Takeover \/ RecordStop

Spec == Init /\ [][Next]_vars

\* A call is sequential code: it goes on until it returns.
Fairness == \A a \in Attempts : WF_vars(Advance(a))
FairSpec == Spec /\ Fairness

-----------------------------------------------------------------------------
(* Properties.                                                             *)

\* One reconciler at a time works on the effect.  The compare-and-set cannot
\* see an answer that was overtaken by a second claim.
SoleReconciler == \A x, y \in Reconcilers : x = y

\* The effect reaches the world at most once, whatever crash, takeover, lost
\* receipt or rival attempt falls between claim, dispatch and settlement.
AppliedOnce == applied + inflight <= 1

\* The ledger is true: it offers only an effect that neither is nor may come
\* into the world ("we do not know" is not "no"), and settled_applied is only
\* recorded of one that was applied.
AnswersAreTrue ==
    /\ ledger = "settled_applied" => applied = 1 /\ inflight = 0
    /\ ledger \in Dispatchable => applied = 0 /\ inflight = 0

\* An attempt whose stop is durable never again has a call that may issue the
\* effect, restarts included (read_latch).
LatchedStaysStopped == \A a \in latch : pc[a] = "idle"

\* An answer already given is never walked back: settled_applied is final, and
\* only an attempt's own claim reopens proved_not_applied (reconcile).
AnswersAreFinal ==
    [][/\ ledger = "settled_applied" => ledger' = "settled_applied"
       /\ ledger = "proved_not_applied" /\ ledger' # ledger => ledger' = "issued_unknown"
       /\ ledger' # "predeclared" \/ ledger = "predeclared"]_vars

\* Every call returns: the commit budget bounds its retries (_commit).
CallsReturn == \A a \in Attempts : pc[a] # "idle" ~> pc[a] = "idle"

=============================================================================
