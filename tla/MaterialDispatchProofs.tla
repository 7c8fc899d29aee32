----------------------- MODULE MaterialDispatchProofs -----------------------
(* At most one application of the effect, for any number of attempts, any  *)
(* retry budget and any bounds, when one reconciler works on it; final     *)
(* answers and a latch that holds with any number of reconcilers.          *)
EXTENDS MaterialDispatch, TLAPS

-----------------------------------------------------------------------------
(* Type correctness *)

\* Every step keeps each variable in its domain; the commit budget is the
\* bound of tries (_commit).
LEMMA TypeStep == TypeOK /\ [Next]_vars => TypeOK'
<1> SUFFICES ASSUME TypeOK, [Next]_vars PROVE TypeOK'
    OBVIOUS
<1> USE RetryLimitAssumption, MaxFenceAssumption, MaxCallsAssumption
    DEF TypeOK, EffectStates, Steps, Goto, store, local, world, judges
<1>1. CASE UNCHANGED vars
    BY <1>1 DEF vars
<1>2. ASSUME NEW a \in Attempts, Authorize(a) PROVE TypeOK'
    BY <1>2 DEF Authorize
<1>3. ASSUME NEW a \in Attempts, ReadState(a) PROVE TypeOK'
    BY <1>3 DEF ReadState
<1>4. ASSUME NEW a \in Attempts, NEW outcome \in Outcomes, CommitIntent(a, outcome) PROVE TypeOK'
    BY <1>4 DEF CommitIntent, Commit
<1>5. ASSUME NEW a \in Attempts, NEW outcome \in Outcomes, CommitReceipt(a, outcome) PROVE TypeOK'
    BY <1>5 DEF CommitReceipt, Commit
<1>6. ASSUME NEW a \in Attempts, ClaimEffect(a) PROVE TypeOK'
    BY <1>6 DEF ClaimEffect
<1>7. ASSUME NEW a \in Attempts, NEW fate \in Fates, DispatchEffect(a, fate) PROVE TypeOK'
    BY <1>7 DEF DispatchEffect
<1>8. ASSUME NEW a \in Attempts, SettleEffect(a) PROVE TypeOK'
    BY <1>8 DEF SettleEffect
<1>9. ASSUME NEW a \in Attempts, WriteLatch(a) PROVE TypeOK'
    BY <1>9 DEF WriteLatch
<1>10. ASSUME NEW a \in Attempts, Crash(a) \/ Rebuild(a) PROVE TypeOK'
    BY <1>10 DEF Crash, Rebuild
<1>11. ASSUME NEW p \in Reconcilers, Examine(p) PROVE TypeOK'
    BY <1>11 DEF Examine
<1>12. ASSUME NEW p \in Reconcilers, Reconcile(p) PROVE TypeOK'
    BY <1>12 DEF Reconcile
<1>13. CASE Land \/ Lose
    BY <1>13 DEF Land, Lose
<1>14. CASE Takeover
    BY <1>14 DEF Takeover
<1>15. CASE RecordStop
  <2>1. stopped' \in BOOLEAN
    BY <1>15, Zenon DEF RecordStop
  <2>2. QED
    BY <1>15, <2>1 DEF RecordStop
<1>. QED
    BY <1>1, <1>2, <1>3, <1>4, <1>5, <1>6, <1>7, <1>8, <1>9, <1>10, <1>11,
       <1>12, <1>13, <1>14, <1>15 DEF Next, Advance

\* A fresh store and fresh coordinators are well typed.
LEMMA InitType == Init => TypeOK
<1>1. Init => stopped \in BOOLEAN
    BY Zenon DEF Init
<1>2. QED
    BY <1>1, RetryLimitAssumption, MaxFenceAssumption, MaxCallsAssumption
       DEF Init, TypeOK, EffectStates, Steps

\* The type invariant of a dispatch holds of every behaviour.
THEOREM DispatchTypeCorrect == Spec => []TypeOK
    BY InitType, TypeStep, PTL DEF Spec

-----------------------------------------------------------------------------
(* The inductive invariant *)

\* A claim starts only from a state that offers the effect.
ClaimsFromOffer == \A a \in Attempts : seen[a] \in Dispatchable

\* An offered effect is untouched: it is not in the world, not under way, and
\* no attempt is about to let it out.
OfferIsUntouched ==
    ledger \in Dispatchable =>
        /\ applied = 0 /\ inflight = 0
        /\ \A a \in Attempts : pc[a] # "dispatch"

\* The attempt about to let the effect out is alone, is the first, and the
\* ledger already says issued_unknown.
DispatcherIsAlone ==
    \A a \in Attempts : pc[a] = "dispatch" =>
        /\ applied = 0 /\ inflight = 0
        /\ ledger = "issued_unknown"
        /\ \A b \in Attempts : pc[b] = "dispatch" => b = a

\* An attempt that came back from the effect has applied it.
ReceiptIsEvidence ==
    \A a \in Attempts : pc[a] \in {"receipt", "settle"} => applied = 1

\* settled_applied is only said of an effect in the world.
SettledIsApplied == ledger = "settled_applied" => applied = 1

\* What a reconciler is about to record is still true, and a proof that the
\* effect was not applied is still the newest word on it.
VerdictsHold ==
    \A p \in Reconcilers :
        /\ verdict[p] = "settled_applied" => applied = 1
        /\ verdict[p] = "proved_not_applied" =>
            /\ ledger = "issued_unknown" /\ applied = 0 /\ inflight = 0
            /\ \A a \in Attempts : pc[a] # "dispatch"

\* The parts hold one another up: a claim needs the offer untouched, a proof
\* of absence needs receipts to be evidence, and the offer needs the proof.
DispatchInv ==
    /\ TypeOK
    /\ AppliedOnce
    /\ ClaimsFromOffer
    /\ OfferIsUntouched
    /\ DispatcherIsAlone
    /\ ReceiptIsEvidence
    /\ SettledIsApplied
    /\ VerdictsHold

\* A predeclared effect nobody has touched satisfies the invariant.
LEMMA DispatchInit == Init => DispatchInv
    BY InitType
       DEF Init, DispatchInv, AppliedOnce, ClaimsFromOffer, OfferIsUntouched,
           DispatcherIsAlone, ReceiptIsEvidence, SettledIsApplied, VerdictsHold, Dispatchable

\* Every step keeps the invariant.  A sole reconciler is needed for one case:
\* its own answer is the only thing that can overtake a proof of absence.
LEMMA DispatchStep ==
    ASSUME SoleReconciler, DispatchInv, [Next]_vars
    PROVE  DispatchInv'
<1>0. TypeOK'
    BY TypeStep DEF DispatchInv
<1> USE <1>0 DEF DispatchInv, TypeOK, AppliedOnce, ClaimsFromOffer, OfferIsUntouched,
    DispatcherIsAlone, ReceiptIsEvidence, SettledIsApplied, VerdictsHold, Dispatchable,
    EffectStates, Steps, Goto, store, local, world, judges
<1>1. CASE UNCHANGED vars
    BY <1>1 DEF vars
<1>2. ASSUME NEW a \in Attempts, Authorize(a) PROVE DispatchInv'
    BY <1>2 DEF Authorize
<1>3. ASSUME NEW a \in Attempts, ReadState(a) PROVE DispatchInv'
    BY <1>3 DEF ReadState
<1>4. ASSUME NEW a \in Attempts, NEW outcome \in Outcomes, CommitIntent(a, outcome) PROVE DispatchInv'
    BY <1>4 DEF CommitIntent, Commit
<1>5. ASSUME NEW a \in Attempts, NEW outcome \in Outcomes, CommitReceipt(a, outcome) PROVE DispatchInv'
    BY <1>5 DEF CommitReceipt, Commit
<1>6. ASSUME NEW a \in Attempts, ClaimEffect(a) PROVE DispatchInv'
    BY <1>6 DEF ClaimEffect
<1>7. ASSUME NEW a \in Attempts, NEW fate \in Fates, DispatchEffect(a, fate) PROVE DispatchInv'
  <2> applied = 0 /\ inflight = 0 /\ ledger = "issued_unknown"
    BY <1>7 DEF DispatchEffect
  <2> seen' = seen /\ ledger' = ledger
    BY <1>7 DEF DispatchEffect
  <2>0. applied' + inflight' <= 1
    <3>1. CASE fate \in {"applied", "raised_applied"}
      <4>1. applied' = applied + 1 /\ inflight' = inflight
        BY <1>7, <3>1, Zenon DEF DispatchEffect
      <4>2. QED
        BY <4>1
    <3>2. CASE fate = "raised_lost"
      BY <1>7, <3>2 DEF DispatchEffect
    <3>3. CASE fate = "raised_under_way"
      BY <1>7, <3>3 DEF DispatchEffect
    <3>4. QED
      BY <3>1, <3>2, <3>3 DEF Fates
  <2>1. ClaimsFromOffer' /\ OfferIsUntouched' /\ AppliedOnce' /\ SettledIsApplied'
    BY <2>0
  <2>2. DispatcherIsAlone'
    BY <1>7 DEF DispatchEffect
  <2>3. ReceiptIsEvidence'
    BY <1>7 DEF DispatchEffect
  <2>4. VerdictsHold'
    BY <1>7 DEF DispatchEffect
  <2>5. QED
    BY <2>1, <2>2, <2>3, <2>4
<1>8. ASSUME NEW a \in Attempts, SettleEffect(a) PROVE DispatchInv'
    BY <1>8 DEF SettleEffect
<1>9. ASSUME NEW a \in Attempts, WriteLatch(a) PROVE DispatchInv'
    BY <1>9 DEF WriteLatch
<1>10. ASSUME NEW a \in Attempts, Crash(a) \/ Rebuild(a) PROVE DispatchInv'
  <2>1. CASE Crash(a)
    BY <2>1 DEF Crash
  <2>2. CASE Rebuild(a)
    BY <2>2 DEF Rebuild
  <2>3. QED
    BY <1>10, <2>1, <2>2
<1>11. ASSUME NEW p \in Reconcilers, Examine(p) PROVE DispatchInv'
    BY <1>11 DEF Examine
<1>12. ASSUME NEW p \in Reconcilers, Reconcile(p) PROVE DispatchInv'
    BY <1>12 DEF Reconcile, SoleReconciler
<1>13. CASE Land \/ Lose
  <2> inflight = 1 /\ applied = 0
    BY <1>13 DEF Land, Lose
  <2>1. CASE Land
    BY <2>1 DEF Land
  <2>2. CASE Lose
    BY <2>2 DEF Lose
  <2>3. QED
    BY <1>13, <2>1, <2>2
<1>14. CASE Takeover \/ RecordStop
    BY <1>14 DEF Takeover, RecordStop
<1>. QED
    BY <1>1, <1>2, <1>3, <1>4, <1>5, <1>6, <1>7, <1>8, <1>9, <1>10, <1>11,
       <1>12, <1>13, <1>14 DEF Next, Advance

\* The invariant holds of every behaviour with a single reconciler.
LEMMA DispatchInductive ==
    ASSUME SoleReconciler
    PROVE  Spec => []DispatchInv
    BY DispatchInit, DispatchStep, PTL DEF Spec

\* At most one application: no crash, takeover, lost receipt or rival attempt
\* makes dispatch_material let the effect out a second time.
THEOREM DispatchSafe ==
    ASSUME SoleReconciler
    PROVE  Spec => []AppliedOnce
<1>1. DispatchInv => AppliedOnce
    BY DEF DispatchInv
<1>2. QED
    BY <1>1, DispatchInductive, PTL

\* The ledger's answers are never wrong: what it offers to a claim has not been
\* and will not be applied, and what it calls settled_applied was (reconcile).
THEOREM DispatchAnswersTrue ==
    ASSUME SoleReconciler
    PROVE  Spec => []AnswersAreTrue
<1>1. DispatchInv => AnswersAreTrue
    BY DEF DispatchInv, TypeOK, AppliedOnce, AnswersAreTrue, OfferIsUntouched, SettledIsApplied, Dispatchable
<1>2. QED
    BY <1>1, DispatchInductive, PTL

\* A claim starts from an offer with any number of reconcilers.
LEMMA ClaimsOffered == Spec => []ClaimsFromOffer
<1>1. Init => ClaimsFromOffer
    BY DEF Init, ClaimsFromOffer, Dispatchable
<1>2. TypeOK /\ ClaimsFromOffer /\ [Next]_vars => ClaimsFromOffer'
  <2> SUFFICES ASSUME TypeOK, ClaimsFromOffer, [Next]_vars PROVE ClaimsFromOffer'
    OBVIOUS
  <2>1. ASSUME NEW a \in Attempts, ReadState(a) PROVE ClaimsFromOffer'
    BY <2>1 DEF ReadState, TypeOK, ClaimsFromOffer
  <2>2. CASE UNCHANGED seen
    BY <2>2 DEF ClaimsFromOffer
  <2>. QED
    BY <2>1, <2>2
       DEF Next, Advance, Authorize, CommitIntent, CommitReceipt, Commit, ClaimEffect,
           SettleEffect, DispatchEffect, WriteLatch, Crash, Rebuild, Examine, Reconcile,
           Land, Lose, Takeover, RecordStop, vars, local
<1>. QED
    BY <1>1, <1>2, DispatchTypeCorrect, PTL DEF Spec

\* An answer already given is never walked back, with any number of reconcilers:
\* nothing leaves settled_applied, and only a claim leaves proved_not_applied.
THEOREM DispatchAnswersFinal == Spec => AnswersAreFinal
<1> DEFINE Final ==
        /\ ledger = "settled_applied" => ledger' = "settled_applied"
        /\ ledger = "proved_not_applied" /\ ledger' # ledger => ledger' = "issued_unknown"
        /\ ledger' # "predeclared" \/ ledger = "predeclared"
<1>1. TypeOK /\ ClaimsFromOffer /\ [Next]_vars => [Final]_vars
  <2> SUFFICES ASSUME TypeOK, ClaimsFromOffer, Next PROVE Final
    OBVIOUS
  <2> USE DEF TypeOK, ClaimsFromOffer, Dispatchable, store
  <2>1. ASSUME NEW a \in Attempts, ClaimEffect(a) PROVE Final
    BY <2>1 DEF ClaimEffect
  <2>2. ASSUME NEW a \in Attempts, SettleEffect(a) PROVE Final
    BY <2>2 DEF SettleEffect
  <2>3. ASSUME NEW p \in Reconcilers, Reconcile(p) PROVE Final
    BY <2>3 DEF Reconcile
  <2>4. CASE UNCHANGED ledger
    BY <2>4
  <2>5. QED
    BY <2>1, <2>2, <2>3, <2>4
       DEF Next, Advance, Authorize, ReadState, CommitIntent, CommitReceipt, Commit,
           DispatchEffect, WriteLatch, Crash, Rebuild, Examine, Land, Lose, Takeover, RecordStop
<1>2. QED
    BY <1>1, ClaimsOffered, DispatchTypeCorrect, PTL DEF Spec, AnswersAreFinal

-----------------------------------------------------------------------------
(* The durable stop *)

\* An attempt whose stop is durable has no call under way and begins none,
\* however often its coordinator is rebuilt.
THEOREM LatchHolds == Spec => []LatchedStaysStopped
<1>1. Init => LatchedStaysStopped
    BY DEF Init, LatchedStaysStopped
<1>2. TypeOK /\ LatchedStaysStopped /\ [Next]_vars => LatchedStaysStopped'
  <2> SUFFICES ASSUME TypeOK, LatchedStaysStopped, [Next]_vars PROVE LatchedStaysStopped'
    OBVIOUS
  <2> USE DEF TypeOK, LatchedStaysStopped, Goto, store, local
  <2>1. ASSUME NEW a \in Attempts, Authorize(a) \/ WriteLatch(a) \/ Crash(a) \/ Rebuild(a)
        PROVE LatchedStaysStopped'
    BY <2>1 DEF Authorize, WriteLatch, Crash, Rebuild
  <2>2. ASSUME NEW a \in Attempts, ReadState(a) \/ ClaimEffect(a) \/ SettleEffect(a)
        PROVE LatchedStaysStopped'
    BY <2>2 DEF ReadState, ClaimEffect, SettleEffect
  <2>3. ASSUME NEW a \in Attempts, NEW outcome \in Outcomes,
               CommitIntent(a, outcome) \/ CommitReceipt(a, outcome)
        PROVE LatchedStaysStopped'
    BY <2>3 DEF CommitIntent, CommitReceipt, Commit
  <2>4. ASSUME NEW a \in Attempts, NEW fate \in Fates, DispatchEffect(a, fate)
        PROVE LatchedStaysStopped'
    BY <2>4 DEF DispatchEffect
  <2>5. CASE UNCHANGED <<latch, pc>>
    BY <2>5
  <2>6. QED
    BY <2>1, <2>2, <2>3, <2>4, <2>5
       DEF Next, Advance, vars, Examine, Reconcile, Land, Lose, Takeover, RecordStop
<1>3. QED
    BY <1>1, <1>2, DispatchTypeCorrect, PTL DEF Spec

=============================================================================
