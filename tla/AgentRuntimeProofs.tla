-------------------------- MODULE AgentRuntimeProofs --------------------------
(* Safety of the agent runtime, for any number of runs and any plan, attempt *)
(* budget, number of waits and number of restarts.                           *)
EXTENDS AgentRuntime, TLAPS

-----------------------------------------------------------------------------
(* Type correctness *)

\* A claim names a run, a step and two attempt numbers.
LEMMA ClaimType ==
    ASSUME NEW r \in Runs, NEW s \in Steps, NEW n \in Nat, NEW a \in Nat
    PROVE  ClaimOf(r, s, n, a) \in Claim
    BY DEF ClaimOf, Claim

\* What a claim handed to a worker names.
LEMMA ClaimFields ==
    ASSUME TypeOK, NEW c \in claims
    PROVE  c.run \in Runs /\ c.step \in Steps /\ c.number \in Nat /\ c.application \in Nat
    BY DEF TypeOK, Claim

\* The claim of a run with an open attempt is read from that attempt.
LEMMA HeldClaimType ==
    ASSUME TypeOK, NEW r \in Runs, open[r] # {}
    PROVE  HeldClaim(r) \in Claim
<1> DEFINE s == CHOOSE u \in open[r] : TRUE
<1>1. s \in open[r]
    OBVIOUS
<1>2. s \in Steps /\ attempts[r][s] \in Nat /\ job[r].attempts \in Nat
    BY <1>1 DEF TypeOK
<1>3. HeldClaim(r) = ClaimOf(r, s, attempts[r][s], job[r].attempts)
    BY DEF HeldClaim
<1>4. QED
    BY <1>2, <1>3, ClaimType

\* _open_attempt writes well-typed rows.
LEMMA OpenAttemptType ==
    ASSUME TypeOK, NEW r \in Runs, NEW s \in Steps, NEW a \in Nat,
           NEW statuses \in [Steps -> StepStatuses], NEW opened \in SUBSET Steps,
           OpenAttempt(r, s, a, statuses, opened)
    PROVE  /\ run' \in [Runs -> RunStatuses]
           /\ lineage' \in [Runs -> Claim \cup {NoClaim}]
           /\ step' \in [Runs -> [Steps -> StepStatuses]]
           /\ attempts' \in [Runs -> [Steps -> Nat]]
           /\ open' \in [Runs -> SUBSET Steps]
           /\ claims' \in SUBSET Claim
<1> DEFINE c == ClaimOf(r, s, attempts[r][s] + 1, a)
<1>1. c \in Claim
    BY ClaimType DEF TypeOK
<1>2. run' \in [Runs -> RunStatuses]
    BY DEF OpenAttempt, TypeOK, RunStatuses
<1>3. lineage' = [lineage EXCEPT ![r] = c] /\ claims' = claims \cup {c}
    BY DEF OpenAttempt
<1>4. step' \in [Runs -> [Steps -> StepStatuses]]
  <2>1. [statuses EXCEPT ![s] = "running"] \in [Steps -> StepStatuses]
    BY DEF StepStatuses
  <2>2. QED
    BY <2>1 DEF OpenAttempt, TypeOK
<1>5. attempts' \in [Runs -> [Steps -> Nat]]
    BY DEF OpenAttempt, TypeOK
<1>6. open' \in [Runs -> SUBSET Steps]
  <2>1. opened \cup {s} \in SUBSET Steps
    OBVIOUS
  <2>2. QED
    BY <2>1 DEF OpenAttempt, TypeOK
<1> HIDE DEF c
<1>7. lineage' \in [Runs -> Claim \cup {NoClaim}]
    BY <1>1, <1>3 DEF TypeOK
<1>8. claims' \in SUBSET Claim
    BY <1>1, <1>3 DEF TypeOK
<1>9. QED
    BY <1>2, <1>4, <1>5, <1>6, <1>7, <1>8

\* A stop is recorded or settled for one run.
LEMMA StopType ==
    ASSUME TypeOK, NEW r \in Runs, NEW b \in BOOLEAN, stop' = [stop EXCEPT ![r] = b]
    PROVE  stop' \in [Runs -> BOOLEAN]
    BY Zenon DEF TypeOK

\* Every transaction keeps each row in its domain.
LEMMA RuntimeTypeStep == TypeOK /\ [Next]_vars => TypeOK'
<1> SUFFICES ASSUME TypeOK, [Next]_vars PROVE TypeOK'
    OBVIOUS
<1> USE DEF service, steps, pauses
<1>1. CASE UNCHANGED vars
    BY <1>1 DEF vars, TypeOK
<1>2. CASE ClaimNext
  <2>1. PICK r \in Runs, s \in Steps :
          /\ job' = [job EXCEPT ![r] = [state |-> "claimed", generation |-> generation,
                                        attempts |-> job[r].attempts + 1]]
          /\ OpenAttempt(r, s, job[r].attempts + 1, step[r], open[r])
    BY <1>2 DEF ClaimNext
  <2>2. job' \in [Runs -> [state : JobStates, generation : Nat, attempts : Nat]]
    BY <2>1 DEF TypeOK, JobStates
  <2>3. job[r].attempts + 1 \in Nat /\ step[r] \in [Steps -> StepStatuses] /\ open[r] \in SUBSET Steps
    BY DEF TypeOK
  <2>4. /\ run' \in [Runs -> RunStatuses]
        /\ lineage' \in [Runs -> Claim \cup {NoClaim}]
        /\ step' \in [Runs -> [Steps -> StepStatuses]]
        /\ attempts' \in [Runs -> [Steps -> Nat]]
        /\ open' \in [Runs -> SUBSET Steps]
        /\ claims' \in SUBSET Claim
    BY <2>1, <2>3, OpenAttemptType
  <2>5. UNCHANGED <<service, pauses, effect, stop>>
    BY <1>2 DEF ClaimNext
  <2>6. QED
    BY <2>2, <2>4, <2>5 DEF TypeOK
<1>3. ASSUME NEW r \in Runs, StartRun(r) PROVE TypeOK'
    BY <1>3 DEF StartRun, TypeOK, JobStates, RunStatuses
<1>4. ASSUME NEW r \in Runs, ResumeClaim(r) PROVE TypeOK'
  <2>1. HeldClaim(r) \in Claim
    BY <1>4, HeldClaimType DEF ResumeClaim
  <2>2. claims' \in SUBSET Claim
    BY <1>4, <2>1 DEF ResumeClaim, TypeOK
  <2>3. QED
    BY <1>4, <2>2 DEF ResumeClaim, TypeOK
<1>5. ASSUME NEW c \in claims, CompleteStep(c) PROVE TypeOK'
  <2> DEFINE settled == [step[c.run] EXCEPT ![c.step] = "succeeded"]
             left == open[c.run] \ {c.step}
  <2>1. PICK s \in Steps : OpenAttempt(c.run, s, c.application, settled, left)
    BY <1>5 DEF CompleteStep
  <2>2. c.run \in Runs /\ c.step \in Steps /\ c.application \in Nat
    BY ClaimFields
  <2>3. settled \in [Steps -> StepStatuses] /\ left \in SUBSET Steps
    BY <2>2 DEF TypeOK, StepStatuses
  <2>4. /\ run' \in [Runs -> RunStatuses]
        /\ lineage' \in [Runs -> Claim \cup {NoClaim}]
        /\ step' \in [Runs -> [Steps -> StepStatuses]]
        /\ attempts' \in [Runs -> [Steps -> Nat]]
        /\ open' \in [Runs -> SUBSET Steps]
        /\ claims' \in SUBSET Claim
    BY <2>1, <2>2, <2>3, OpenAttemptType
  <2>5. UNCHANGED <<service, job, pauses, effect, stop>>
    BY <1>5 DEF CompleteStep
  <2>6. QED
    BY <2>4, <2>5 DEF TypeOK
<1>6. ASSUME NEW c \in claims, CompleteRun(c) PROVE TypeOK'
  <2>1. c.run \in Runs /\ c.step \in Steps
    BY ClaimFields
  <2>2. [step[c.run] EXCEPT ![c.step] = "succeeded"] \in [Steps -> StepStatuses]
    BY <2>1 DEF TypeOK, StepStatuses
  <2>3. job' \in [Runs -> [state : JobStates, generation : Nat, attempts : Nat]]
    BY <1>6, <2>1 DEF CompleteRun, TypeOK, JobStates
  <2>4. run' \in [Runs -> RunStatuses] /\ open' \in [Runs -> SUBSET Steps]
    BY <1>6, <2>1 DEF CompleteRun, TypeOK, RunStatuses
  <2>5. step' \in [Runs -> [Steps -> StepStatuses]]
    BY <1>6, <2>1, <2>2 DEF CompleteRun, TypeOK
  <2>6. QED
    BY <1>6, <2>3, <2>4, <2>5 DEF CompleteRun, TypeOK
<1>7. ASSUME NEW c \in claims, FailRetry(c) PROVE TypeOK'
  <2>1. c.run \in Runs /\ c.step \in Steps /\ c.application \in Nat
    BY ClaimFields
  <2>2. step[c.run] \in [Steps -> StepStatuses] /\ open[c.run] \ {c.step} \in SUBSET Steps
    BY <2>1 DEF TypeOK
  <2>3. OpenAttempt(c.run, c.step, c.application, step[c.run], open[c.run] \ {c.step})
    BY <1>7 DEF FailRetry
  <2>4. /\ run' \in [Runs -> RunStatuses]
        /\ lineage' \in [Runs -> Claim \cup {NoClaim}]
        /\ step' \in [Runs -> [Steps -> StepStatuses]]
        /\ attempts' \in [Runs -> [Steps -> Nat]]
        /\ open' \in [Runs -> SUBSET Steps]
        /\ claims' \in SUBSET Claim
    BY <2>1, <2>2, <2>3, OpenAttemptType
  <2>5. UNCHANGED <<service, job, pauses, effect, stop>>
    BY <1>7 DEF FailRetry
  <2>6. QED
    BY <2>4, <2>5 DEF TypeOK
<1>8. ASSUME NEW c \in claims, FailRun(c) PROVE TypeOK'
  <2>1. c.run \in Runs /\ c.step \in Steps /\ c \in Claim
    BY ClaimFields DEF TypeOK
  <2>2. job' \in [Runs -> [state : JobStates, generation : Nat, attempts : Nat]]
    BY <1>8, <2>1 DEF FailRun, TypeOK, JobStates
  <2>3. run' \in [Runs -> RunStatuses] /\ open' \in [Runs -> SUBSET Steps]
    BY <1>8, <2>1 DEF FailRun, TypeOK, RunStatuses
  <2>4. step' \in [Runs -> [Steps -> StepStatuses]]
    BY <1>8, <2>1 DEF FailRun, TypeOK, StepStatuses
  <2>5. lineage' \in [Runs -> Claim \cup {NoClaim}]
    BY <1>8, <2>1 DEF FailRun, TypeOK
  <2>6. QED
    BY <1>8, <2>2, <2>3, <2>4, <2>5 DEF FailRun, TypeOK
<1>9. ASSUME NEW r \in Runs, NEW s \in Steps, OpenWait(r, s) PROVE TypeOK'
  <2>1. waits' \in [Runs -> SUBSET Steps] /\ waited' \in [Runs -> Nat]
    BY <1>9 DEF OpenWait, TypeOK
  <2>2. step' \in [Runs -> [Steps -> StepStatuses]] /\ run' \in [Runs -> RunStatuses]
    BY <1>9 DEF OpenWait, TypeOK, StepStatuses, RunStatuses
  <2>3. lineage' \in [Runs -> Claim \cup {NoClaim}]
    BY <1>9 DEF OpenWait, TypeOK
  <2>4. QED
    BY <1>9, <2>1, <2>2, <2>3 DEF OpenWait, TypeOK
<1>10. ASSUME NEW r \in Runs, NEW s \in Steps, ResolveWait(r, s) PROVE TypeOK'
  <2>1. waits' \in [Runs -> SUBSET Steps]
    BY <1>10 DEF ResolveWait, TypeOK
  <2>2. step' \in [Runs -> [Steps -> StepStatuses]] /\ run' \in [Runs -> RunStatuses]
    BY <1>10 DEF ResolveWait, TypeOK, StepStatuses, RunStatuses
  <2>3. lineage' \in [Runs -> Claim \cup {NoClaim}]
    BY <1>10 DEF ResolveWait, TypeOK
  <2>4. QED
    BY <1>10, <2>1, <2>2, <2>3 DEF ResolveWait, TypeOK
<1>11. ASSUME NEW r \in Runs, DeclareEffect(r) PROVE TypeOK'
    BY <1>11 DEF DeclareEffect, TypeOK, EffectHeads
<1>12. ASSUME NEW r \in Runs, NEW head \in {"unknown", "settled", "branched"},
             RecordEffect(r, head)
      PROVE TypeOK'
    BY <1>12 DEF RecordEffect, TypeOK, EffectHeads
<1>13. ASSUME NEW r \in Runs, CancelFinished(r) PROVE TypeOK'
  <2>1. stop' \in [Runs -> BOOLEAN]
    BY <1>13, StopType DEF CancelFinished
  <2>2. QED
    BY <1>13, <2>1 DEF CancelFinished, TypeOK
<1>14. ASSUME NEW r \in Runs, CancelPending(r) PROVE TypeOK'
  <2>1. stop' \in [Runs -> BOOLEAN]
    BY <1>14, StopType DEF CancelPending
  <2>2. run' \in [Runs -> RunStatuses] /\ lineage' \in [Runs -> Claim \cup {NoClaim}]
    BY <1>14 DEF CancelPending, TypeOK, RunStatuses
  <2>3. QED
    BY <1>14, <2>1, <2>2 DEF CancelPending, TypeOK
<1>15. ASSUME NEW r \in Runs, CancelRun(r) PROVE TypeOK'
  <2>1. stop' \in [Runs -> BOOLEAN]
    BY <1>15, StopType DEF CancelRun
  <2>2. CancelledJob(r) \in [state : JobStates, generation : Nat, attempts : Nat]
    BY DEF CancelledJob, TypeOK, JobStates
  <2>3. job' \in [Runs -> [state : JobStates, generation : Nat, attempts : Nat]]
    BY <1>15, <2>2 DEF CancelRun, TypeOK
  <2>4. run' \in [Runs -> RunStatuses] /\ lineage' \in [Runs -> Claim \cup {NoClaim}]
    BY <1>15 DEF CancelRun, TypeOK, RunStatuses
  <2>5. waits' \in [Runs -> SUBSET Steps] /\ open' \in [Runs -> SUBSET Steps]
    BY <1>15 DEF CancelRun, TypeOK
  <2>6. step' \in [Runs -> [Steps -> StepStatuses]]
    <3>1. [s \in Steps |-> IF s \in open[r] THEN "cancelled" ELSE step[r][s]] \in [Steps -> StepStatuses]
      BY DEF TypeOK, StepStatuses
    <3>2. QED
      BY <1>15, <3>1 DEF CancelRun, TypeOK
  <2>7. QED
    BY <1>15, <2>1, <2>3, <2>4, <2>5, <2>6 DEF CancelRun, TypeOK
<1>16. CASE Exit
    BY <1>16 DEF Exit, TypeOK
<1>17. CASE Start
  <2>1. generation' \in Nat /\ phase' = "runtime"
    BY <1>17 DEF Start, TypeOK
  <2>2. QED
    BY <1>17, <2>1 DEF Start, TypeOK
<1>18. CASE RuntimePass
  <2>1. \A r \in Runs : RecoveredJob(r) \in [state : JobStates, generation : Nat, attempts : Nat]
    BY DEF RecoveredJob, TypeOK, JobStates
  <2>2. job' \in [Runs -> [state : JobStates, generation : Nat, attempts : Nat]]
    BY <1>18, <2>1 DEF RuntimePass, TypeOK
  <2>3. open' \in [Runs -> SUBSET Steps]
    BY <1>18 DEF RuntimePass, TypeOK
  <2>4. step' \in [Runs -> [Steps -> StepStatuses]]
    BY <1>18 DEF RuntimePass, TypeOK, StepStatuses
  <2>5. run' \in [Runs -> RunStatuses]
    BY <1>18 DEF RuntimePass, TypeOK, RunStatuses
  <2>6. \A r \in Runs : OrphanAttempt(r) => HeldClaim(r) \in Claim
    BY HeldClaimType DEF OrphanAttempt
  <2>7. lineage' \in [Runs -> Claim \cup {NoClaim}]
    BY <1>18, <2>6 DEF RuntimePass, TypeOK
  <2>8. QED
    BY <1>18, <2>2, <2>3, <2>4, <2>5, <2>7 DEF RuntimePass, TypeOK
<1>19. CASE Sweep
  <2>1. \A r \in Runs : RecoveredJob(r) \in [state : JobStates, generation : Nat, attempts : Nat]
    BY DEF RecoveredJob, TypeOK, JobStates
  <2>2. job' \in [Runs -> [state : JobStates, generation : Nat, attempts : Nat]]
    BY <1>19, <2>1 DEF Sweep, TypeOK
  <2>3. QED
    BY <1>19, <2>2 DEF Sweep, TypeOK
<1>. QED
    BY <1>1, <1>2, <1>3, <1>4, <1>5, <1>6, <1>7, <1>8, <1>9, <1>10, <1>11,
       <1>12, <1>13, <1>14, <1>15, <1>16, <1>17, <1>18, <1>19
       DEF Next, Scheduling, Settlement, Waiting, Cancelling

\* A generation that is not newer and not older is the same.
LEMMA NotOlder == \A x, y \in Nat : x <= y /\ ~(x < y) => x = y
    OBVIOUS

\* The initial rows are well typed.
LEMMA RuntimeInitType == Init => TypeOK
<1>1. Init => stop \in [Runs -> BOOLEAN]
    BY Zenon DEF Init
<1>2. QED
    BY <1>1 DEF Init, TypeOK, JobStates, RunStatuses, StepStatuses, EffectHeads

\* The type invariant of the agent runtime holds of every behaviour.
THEOREM RuntimeTypeCorrect == Spec => []TypeOK
    BY RuntimeInitType, RuntimeTypeStep, PTL DEF Spec

-----------------------------------------------------------------------------
(* The inductive invariant *)

\* A run that was not admitted has no job.
AbsentHasNoJob == \A r \in Runs : run[r] = "absent" => job[r].state = "absent"

\* No claim is of a generation to come, and a serving service owns every claim.
ClaimsOfGeneration ==
    \A r \in Runs :
        /\ job[r].generation <= generation
        /\ phase = "serving" /\ job[r].state = "claimed" => job[r].generation = generation

\* The step of an open attempt is under way.
OpenIsActive ==
    \A r \in Runs : \A s \in open[r] :
        step[r][s] \in {"running", "waiting"} /\ attempts[r][s] > 0

\* A step that succeeded was attempted.
SucceededWasAttempted ==
    \A r \in Runs, s \in Steps : step[r][s] = "succeeded" => attempts[r][s] > 0

\* A job succeeds only with its run.
JobSucceedsWithRun ==
    \A r \in Runs : job[r].state = "succeeded" => run[r] = "succeeded"

\* What the three invariants rest on.
RuntimeInv ==
    /\ TypeOK
    /\ AbsentHasNoJob
    /\ ClaimsOfGeneration
    /\ OpenIsActive
    /\ SucceededWasAttempted
    /\ JobSucceedsWithRun
    /\ StopFreezesRun
    /\ CancelledHoldsNothing
    /\ SucceededIsComplete

\* While a stop is unsettled no step moves the run but to failed.
LEMMA StopStep ==
    ASSUME RuntimeInv, [Next]_vars
    PROVE  StopFreezesRun'
<1> USE DEF RuntimeInv, TypeOK, StopFreezesRun, RunTerminal, service, steps, pauses
<1>1. CASE UNCHANGED vars
    BY <1>1 DEF vars
<1>2. CASE ClaimNext
    BY <1>2 DEF ClaimNext, OpenAttempt, ClaimOf, Claimable, ReadySteps, First
<1>3. ASSUME NEW r \in Runs, StartRun(r) PROVE StopFreezesRun'
    BY <1>3 DEF StartRun
<1>4. ASSUME NEW r \in Runs, ResumeClaim(r) PROVE StopFreezesRun'
    BY <1>4 DEF ResumeClaim, HeldClaim, ClaimOf
<1>5. ASSUME NEW c \in claims, CompleteStep(c) PROVE StopFreezesRun'
    BY <1>5 DEF CompleteStep, OpenAttempt, ClaimOf, MaySettle, ReadySteps, First
<1>6. ASSUME NEW c \in claims, CompleteRun(c) PROVE StopFreezesRun'
    BY <1>6 DEF CompleteRun, MaySettle, CompletionAdmitted
<1>7. ASSUME NEW c \in claims, FailRetry(c) PROVE StopFreezesRun'
    BY <1>7 DEF FailRetry, OpenAttempt, ClaimOf, MaySettle
<1>8. ASSUME NEW c \in claims, FailRun(c) PROVE StopFreezesRun'
    BY <1>8 DEF FailRun, MaySettle, Permitted
<1>9. ASSUME NEW r \in Runs, NEW s \in Steps, OpenWait(r, s) PROVE StopFreezesRun'
    BY <1>9 DEF OpenWait
<1>10. ASSUME NEW r \in Runs, NEW s \in Steps, ResolveWait(r, s) PROVE StopFreezesRun'
    BY <1>10 DEF ResolveWait
<1>11. ASSUME NEW r \in Runs, DeclareEffect(r) PROVE StopFreezesRun'
    BY <1>11 DEF DeclareEffect
<1>12. ASSUME NEW r \in Runs, NEW head \in {"unknown", "settled", "branched"},
             RecordEffect(r, head)
      PROVE StopFreezesRun'
    BY <1>12 DEF RecordEffect
<1>13. ASSUME NEW r \in Runs, CancelFinished(r) PROVE StopFreezesRun'
    BY <1>13 DEF CancelFinished
<1>14. ASSUME NEW r \in Runs, CancelPending(r) PROVE StopFreezesRun'
    BY <1>14 DEF CancelPending
<1>15. ASSUME NEW r \in Runs, CancelRun(r) PROVE StopFreezesRun'
    BY <1>15 DEF CancelRun, CancelledJob
<1>16. CASE Exit
    BY <1>16 DEF Exit
<1>17. CASE Start
    BY <1>17 DEF Start
<1>18. CASE RuntimePass
    BY <1>18 DEF RuntimePass, DurableOpenWait, OrphanAttempt, Repairable, Superseded, RecoveredJob
<1>19. CASE Sweep
    BY <1>19 DEF Sweep, Superseded, RecoveredJob
<1>. QED
    BY <1>1, <1>2, <1>3, <1>4, <1>5, <1>6, <1>7, <1>8, <1>9, <1>10, <1>11,
       <1>12, <1>13, <1>14, <1>15, <1>16, <1>17, <1>18, <1>19
       DEF Next, Scheduling, Settlement, Waiting, Cancelling

\* A job appears with its run, and is only claimed, settled or recovered after.
LEMMA AbsentStep ==
    ASSUME RuntimeInv, [Next]_vars
    PROVE  AbsentHasNoJob'
<1> USE DEF RuntimeInv, TypeOK, AbsentHasNoJob, RunTerminal, JobTerminal, service, steps, pauses
<1>1. CASE UNCHANGED vars
    BY <1>1 DEF vars
<1>2. CASE ClaimNext
    BY <1>2 DEF ClaimNext, OpenAttempt, ClaimOf, Claimable, ReadySteps, First
<1>3. ASSUME NEW r \in Runs, StartRun(r) PROVE AbsentHasNoJob'
    BY <1>3 DEF StartRun
<1>4. ASSUME NEW r \in Runs, ResumeClaim(r) PROVE AbsentHasNoJob'
    BY <1>4 DEF ResumeClaim, HeldClaim, ClaimOf
<1>5. ASSUME NEW c \in claims, CompleteStep(c) PROVE AbsentHasNoJob'
    BY <1>5 DEF CompleteStep, OpenAttempt, ClaimOf, MaySettle, ReadySteps, First
<1>6. ASSUME NEW c \in claims, CompleteRun(c) PROVE AbsentHasNoJob'
    BY <1>6 DEF CompleteRun, MaySettle, CompletionAdmitted
<1>7. ASSUME NEW c \in claims, FailRetry(c) PROVE AbsentHasNoJob'
    BY <1>7 DEF FailRetry, OpenAttempt, ClaimOf, MaySettle
<1>8. ASSUME NEW c \in claims, FailRun(c) PROVE AbsentHasNoJob'
    BY <1>8 DEF FailRun, MaySettle, Permitted
<1>9. ASSUME NEW r \in Runs, NEW s \in Steps, OpenWait(r, s) PROVE AbsentHasNoJob'
    BY <1>9 DEF OpenWait
<1>10. ASSUME NEW r \in Runs, NEW s \in Steps, ResolveWait(r, s) PROVE AbsentHasNoJob'
    BY <1>10 DEF ResolveWait
<1>11. ASSUME NEW r \in Runs, DeclareEffect(r) PROVE AbsentHasNoJob'
    BY <1>11 DEF DeclareEffect
<1>12. ASSUME NEW r \in Runs, NEW head \in {"unknown", "settled", "branched"},
             RecordEffect(r, head)
      PROVE AbsentHasNoJob'
    BY <1>12 DEF RecordEffect
<1>13. ASSUME NEW r \in Runs, CancelFinished(r) PROVE AbsentHasNoJob'
    BY <1>13 DEF CancelFinished
<1>14. ASSUME NEW r \in Runs, CancelPending(r) PROVE AbsentHasNoJob'
    BY <1>14 DEF CancelPending
<1>15. ASSUME NEW r \in Runs, CancelRun(r) PROVE AbsentHasNoJob'
    BY <1>15 DEF CancelRun, CancelledJob
<1>16. CASE Exit
    BY <1>16 DEF Exit
<1>17. CASE Start
    BY <1>17 DEF Start
<1>18. CASE RuntimePass
    BY <1>18 DEF RuntimePass, DurableOpenWait, OrphanAttempt, Repairable, Superseded, RecoveredJob
<1>19. CASE Sweep
    BY <1>19 DEF Sweep, Superseded, RecoveredJob
<1>. QED
    BY <1>1, <1>2, <1>3, <1>4, <1>5, <1>6, <1>7, <1>8, <1>9, <1>10, <1>11,
       <1>12, <1>13, <1>14, <1>15, <1>16, <1>17, <1>18, <1>19
       DEF Next, Scheduling, Settlement, Waiting, Cancelling

\* A claim carries the generation of the service that makes or adopts it, and
\* the sweep leaves no older one.
LEMMA GenerationStep ==
    ASSUME RuntimeInv, [Next]_vars
    PROVE  ClaimsOfGeneration'
<1> USE DEF RuntimeInv, TypeOK, ClaimsOfGeneration, service, steps, pauses
<1>1. CASE UNCHANGED vars
    BY <1>1 DEF vars
<1>2. CASE ClaimNext
    BY <1>2 DEF ClaimNext, OpenAttempt, ClaimOf, Claimable, ReadySteps, First
<1>3. ASSUME NEW r \in Runs, StartRun(r) PROVE ClaimsOfGeneration'
    BY <1>3 DEF StartRun
<1>4. ASSUME NEW r \in Runs, ResumeClaim(r) PROVE ClaimsOfGeneration'
    BY <1>4 DEF ResumeClaim, HeldClaim, ClaimOf
<1>5. ASSUME NEW c \in claims, CompleteStep(c) PROVE ClaimsOfGeneration'
    BY <1>5 DEF CompleteStep, OpenAttempt, ClaimOf, MaySettle, ReadySteps, First
<1>6. ASSUME NEW c \in claims, CompleteRun(c) PROVE ClaimsOfGeneration'
    BY <1>6 DEF CompleteRun, MaySettle, CompletionAdmitted
<1>7. ASSUME NEW c \in claims, FailRetry(c) PROVE ClaimsOfGeneration'
    BY <1>7 DEF FailRetry, OpenAttempt, ClaimOf, MaySettle
<1>8. ASSUME NEW c \in claims, FailRun(c) PROVE ClaimsOfGeneration'
    BY <1>8 DEF FailRun, MaySettle, Permitted
<1>9. ASSUME NEW r \in Runs, NEW s \in Steps, OpenWait(r, s) PROVE ClaimsOfGeneration'
    BY <1>9 DEF OpenWait
<1>10. ASSUME NEW r \in Runs, NEW s \in Steps, ResolveWait(r, s) PROVE ClaimsOfGeneration'
    BY <1>10 DEF ResolveWait
<1>11. ASSUME NEW r \in Runs, DeclareEffect(r) PROVE ClaimsOfGeneration'
    BY <1>11 DEF DeclareEffect
<1>12. ASSUME NEW r \in Runs, NEW head \in {"unknown", "settled", "branched"},
             RecordEffect(r, head)
      PROVE ClaimsOfGeneration'
    BY <1>12 DEF RecordEffect
<1>13. ASSUME NEW r \in Runs, CancelFinished(r) PROVE ClaimsOfGeneration'
    BY <1>13 DEF CancelFinished
<1>14. ASSUME NEW r \in Runs, CancelPending(r) PROVE ClaimsOfGeneration'
    BY <1>14 DEF CancelPending
<1>15. ASSUME NEW r \in Runs, CancelRun(r) PROVE ClaimsOfGeneration'
    BY <1>15 DEF CancelRun, CancelledJob
<1>16. CASE Exit
    BY <1>16 DEF Exit
<1>17. CASE Start
    BY <1>17 DEF Start
<1>18. CASE RuntimePass
    BY <1>18 DEF RuntimePass, DurableOpenWait, OrphanAttempt, Repairable, Superseded, RecoveredJob
<1>19. CASE Sweep
  <2> SUFFICES ASSUME NEW r \in Runs
               PROVE  /\ job'[r].generation <= generation
                      /\ job'[r].state = "claimed" => job'[r].generation = generation
    BY <1>19 DEF Sweep
  <2>1. CASE Superseded(r)
    <3>1. job'[r] = RecoveredJob(r)
      BY <1>19, <2>1 DEF Sweep
    <3>2. QED
      BY <3>1 DEF RecoveredJob
  <2>2. CASE ~Superseded(r)
    <3>1. job'[r] = job[r]
      BY <1>19, <2>2 DEF Sweep
    <3>2. job[r].generation \in Nat /\ generation \in Nat
      OBVIOUS
    <3>3. job[r].generation <= generation
      OBVIOUS
    <3>4. job[r].state = "claimed" => ~(job[r].generation < generation)
      BY <2>2 DEF Superseded
    <3>5. job[r].state = "claimed" => job[r].generation = generation
      BY <3>2, <3>3, <3>4, NotOlder, Zenon
    <3>6. QED
      BY <3>1, <3>3, <3>5
  <2>3. QED
    BY <2>1, <2>2
<1>. QED
    BY <1>1, <1>2, <1>3, <1>4, <1>5, <1>6, <1>7, <1>8, <1>9, <1>10, <1>11,
       <1>12, <1>13, <1>14, <1>15, <1>16, <1>17, <1>18, <1>19
       DEF Next, Scheduling, Settlement, Waiting, Cancelling

\* An attempt is opened with its step and closed with it.
LEMMA ActiveStep ==
    ASSUME RuntimeInv, [Next]_vars
    PROVE  OpenIsActive'
<1> USE DEF RuntimeInv, TypeOK, OpenIsActive, RunTerminal, service, steps, pauses
<1>1. CASE UNCHANGED vars
    BY <1>1 DEF vars
<1>2. CASE ClaimNext
    BY <1>2 DEF ClaimNext, OpenAttempt, ClaimOf, Claimable, ReadySteps, First
<1>3. ASSUME NEW r \in Runs, StartRun(r) PROVE OpenIsActive'
    BY <1>3 DEF StartRun
<1>4. ASSUME NEW r \in Runs, ResumeClaim(r) PROVE OpenIsActive'
    BY <1>4 DEF ResumeClaim, HeldClaim, ClaimOf
<1>5. ASSUME NEW c \in claims, CompleteStep(c) PROVE OpenIsActive'
    BY <1>5 DEF CompleteStep, OpenAttempt, ClaimOf, MaySettle, ReadySteps, First
<1>6. ASSUME NEW c \in claims, CompleteRun(c) PROVE OpenIsActive'
    BY <1>6 DEF CompleteRun, MaySettle, CompletionAdmitted
<1>7. ASSUME NEW c \in claims, FailRetry(c) PROVE OpenIsActive'
    BY <1>7 DEF FailRetry, OpenAttempt, ClaimOf, MaySettle
<1>8. ASSUME NEW c \in claims, FailRun(c) PROVE OpenIsActive'
    BY <1>8 DEF FailRun, MaySettle, Permitted
<1>9. ASSUME NEW r \in Runs, NEW s \in Steps, OpenWait(r, s) PROVE OpenIsActive'
    BY <1>9 DEF OpenWait
<1>10. ASSUME NEW r \in Runs, NEW s \in Steps, ResolveWait(r, s) PROVE OpenIsActive'
    BY <1>10 DEF ResolveWait
<1>11. ASSUME NEW r \in Runs, DeclareEffect(r) PROVE OpenIsActive'
    BY <1>11 DEF DeclareEffect
<1>12. ASSUME NEW r \in Runs, NEW head \in {"unknown", "settled", "branched"},
             RecordEffect(r, head)
      PROVE OpenIsActive'
    BY <1>12 DEF RecordEffect
<1>13. ASSUME NEW r \in Runs, CancelFinished(r) PROVE OpenIsActive'
    BY <1>13 DEF CancelFinished
<1>14. ASSUME NEW r \in Runs, CancelPending(r) PROVE OpenIsActive'
    BY <1>14 DEF CancelPending
<1>15. ASSUME NEW r \in Runs, CancelRun(r) PROVE OpenIsActive'
    BY <1>15 DEF CancelRun, CancelledJob
<1>16. CASE Exit
    BY <1>16 DEF Exit
<1>17. CASE Start
    BY <1>17 DEF Start
<1>18. CASE RuntimePass
    BY <1>18 DEF RuntimePass, DurableOpenWait, OrphanAttempt, Repairable, Superseded, RecoveredJob
<1>19. CASE Sweep
    BY <1>19 DEF Sweep, Superseded, RecoveredJob
<1>. QED
    BY <1>1, <1>2, <1>3, <1>4, <1>5, <1>6, <1>7, <1>8, <1>9, <1>10, <1>11,
       <1>12, <1>13, <1>14, <1>15, <1>16, <1>17, <1>18, <1>19
       DEF Next, Scheduling, Settlement, Waiting, Cancelling

\* Only the step of an open attempt succeeds.
LEMMA AttemptedStep ==
    ASSUME RuntimeInv, [Next]_vars
    PROVE  SucceededWasAttempted'
<1> USE DEF RuntimeInv, TypeOK, SucceededWasAttempted, OpenIsActive, RunTerminal, service, steps, pauses
<1>1. CASE UNCHANGED vars
    BY <1>1 DEF vars
<1>2. CASE ClaimNext
    BY <1>2 DEF ClaimNext, OpenAttempt, ClaimOf, Claimable, ReadySteps, First
<1>3. ASSUME NEW r \in Runs, StartRun(r) PROVE SucceededWasAttempted'
    BY <1>3 DEF StartRun
<1>4. ASSUME NEW r \in Runs, ResumeClaim(r) PROVE SucceededWasAttempted'
    BY <1>4 DEF ResumeClaim, HeldClaim, ClaimOf
<1>5. ASSUME NEW c \in claims, CompleteStep(c) PROVE SucceededWasAttempted'
    BY <1>5 DEF CompleteStep, OpenAttempt, ClaimOf, MaySettle, ReadySteps, First
<1>6. ASSUME NEW c \in claims, CompleteRun(c) PROVE SucceededWasAttempted'
    BY <1>6 DEF CompleteRun, MaySettle, CompletionAdmitted
<1>7. ASSUME NEW c \in claims, FailRetry(c) PROVE SucceededWasAttempted'
    BY <1>7 DEF FailRetry, OpenAttempt, ClaimOf, MaySettle
<1>8. ASSUME NEW c \in claims, FailRun(c) PROVE SucceededWasAttempted'
    BY <1>8 DEF FailRun, MaySettle, Permitted
<1>9. ASSUME NEW r \in Runs, NEW s \in Steps, OpenWait(r, s) PROVE SucceededWasAttempted'
    BY <1>9 DEF OpenWait
<1>10. ASSUME NEW r \in Runs, NEW s \in Steps, ResolveWait(r, s) PROVE SucceededWasAttempted'
    BY <1>10 DEF ResolveWait
<1>11. ASSUME NEW r \in Runs, DeclareEffect(r) PROVE SucceededWasAttempted'
    BY <1>11 DEF DeclareEffect
<1>12. ASSUME NEW r \in Runs, NEW head \in {"unknown", "settled", "branched"},
             RecordEffect(r, head)
      PROVE SucceededWasAttempted'
    BY <1>12 DEF RecordEffect
<1>13. ASSUME NEW r \in Runs, CancelFinished(r) PROVE SucceededWasAttempted'
    BY <1>13 DEF CancelFinished
<1>14. ASSUME NEW r \in Runs, CancelPending(r) PROVE SucceededWasAttempted'
    BY <1>14 DEF CancelPending
<1>15. ASSUME NEW r \in Runs, CancelRun(r) PROVE SucceededWasAttempted'
    BY <1>15 DEF CancelRun, CancelledJob
<1>16. CASE Exit
    BY <1>16 DEF Exit
<1>17. CASE Start
    BY <1>17 DEF Start
<1>18. CASE RuntimePass
    BY <1>18 DEF RuntimePass, DurableOpenWait, OrphanAttempt, Repairable, Superseded, RecoveredJob
<1>19. CASE Sweep
    BY <1>19 DEF Sweep, Superseded, RecoveredJob
<1>. QED
    BY <1>1, <1>2, <1>3, <1>4, <1>5, <1>6, <1>7, <1>8, <1>9, <1>10, <1>11,
       <1>12, <1>13, <1>14, <1>15, <1>16, <1>17, <1>18, <1>19
       DEF Next, Scheduling, Settlement, Waiting, Cancelling

\* complete writes both, and nothing else writes either.
LEMMA JobRunStep ==
    ASSUME RuntimeInv, [Next]_vars
    PROVE  JobSucceedsWithRun'
<1> USE DEF RuntimeInv, TypeOK, JobSucceedsWithRun, RunTerminal, JobTerminal, service, steps, pauses
<1>1. CASE UNCHANGED vars
    BY <1>1 DEF vars
<1>2. CASE ClaimNext
    BY <1>2 DEF ClaimNext, OpenAttempt, ClaimOf, Claimable, ReadySteps, First
<1>3. ASSUME NEW r \in Runs, StartRun(r) PROVE JobSucceedsWithRun'
    BY <1>3 DEF StartRun
<1>4. ASSUME NEW r \in Runs, ResumeClaim(r) PROVE JobSucceedsWithRun'
    BY <1>4 DEF ResumeClaim, HeldClaim, ClaimOf
<1>5. ASSUME NEW c \in claims, CompleteStep(c) PROVE JobSucceedsWithRun'
    BY <1>5 DEF CompleteStep, OpenAttempt, ClaimOf, MaySettle, ReadySteps, First
<1>6. ASSUME NEW c \in claims, CompleteRun(c) PROVE JobSucceedsWithRun'
    BY <1>6 DEF CompleteRun, MaySettle, CompletionAdmitted
<1>7. ASSUME NEW c \in claims, FailRetry(c) PROVE JobSucceedsWithRun'
    BY <1>7 DEF FailRetry, OpenAttempt, ClaimOf, MaySettle
<1>8. ASSUME NEW c \in claims, FailRun(c) PROVE JobSucceedsWithRun'
    BY <1>8 DEF FailRun, MaySettle, Permitted
<1>9. ASSUME NEW r \in Runs, NEW s \in Steps, OpenWait(r, s) PROVE JobSucceedsWithRun'
    BY <1>9 DEF OpenWait
<1>10. ASSUME NEW r \in Runs, NEW s \in Steps, ResolveWait(r, s) PROVE JobSucceedsWithRun'
    BY <1>10 DEF ResolveWait
<1>11. ASSUME NEW r \in Runs, DeclareEffect(r) PROVE JobSucceedsWithRun'
    BY <1>11 DEF DeclareEffect
<1>12. ASSUME NEW r \in Runs, NEW head \in {"unknown", "settled", "branched"},
             RecordEffect(r, head)
      PROVE JobSucceedsWithRun'
    BY <1>12 DEF RecordEffect
<1>13. ASSUME NEW r \in Runs, CancelFinished(r) PROVE JobSucceedsWithRun'
    BY <1>13 DEF CancelFinished
<1>14. ASSUME NEW r \in Runs, CancelPending(r) PROVE JobSucceedsWithRun'
    BY <1>14 DEF CancelPending
<1>15. ASSUME NEW r \in Runs, CancelRun(r) PROVE JobSucceedsWithRun'
    BY <1>15 DEF CancelRun, CancelledJob
<1>16. CASE Exit
    BY <1>16 DEF Exit
<1>17. CASE Start
    BY <1>17 DEF Start
<1>18. CASE RuntimePass
    BY <1>18 DEF RuntimePass, DurableOpenWait, OrphanAttempt, Repairable, Superseded, RecoveredJob
<1>19. CASE Sweep
    BY <1>19 DEF Sweep, Superseded, RecoveredJob
<1>. QED
    BY <1>1, <1>2, <1>3, <1>4, <1>5, <1>6, <1>7, <1>8, <1>9, <1>10, <1>11,
       <1>12, <1>13, <1>14, <1>15, <1>16, <1>17, <1>18, <1>19
       DEF Next, Scheduling, Settlement, Waiting, Cancelling

\* A cancelled run is given nothing again.
LEMMA CancelledStep ==
    ASSUME RuntimeInv, [Next]_vars
    PROVE  CancelledHoldsNothing'
<1> USE DEF RuntimeInv, TypeOK, CancelledHoldsNothing, JobSucceedsWithRun, AbsentHasNoJob, StopFreezesRun, JobStates, RunTerminal, JobTerminal, service, steps, pauses
<1>1. CASE UNCHANGED vars
    BY <1>1 DEF vars
<1>2. CASE ClaimNext
    BY <1>2 DEF ClaimNext, OpenAttempt, ClaimOf, Claimable, ReadySteps, First
<1>3. ASSUME NEW r \in Runs, StartRun(r) PROVE CancelledHoldsNothing'
    BY <1>3 DEF StartRun
<1>4. ASSUME NEW r \in Runs, ResumeClaim(r) PROVE CancelledHoldsNothing'
    BY <1>4 DEF ResumeClaim, HeldClaim, ClaimOf
<1>5. ASSUME NEW c \in claims, CompleteStep(c) PROVE CancelledHoldsNothing'
    BY <1>5 DEF CompleteStep, OpenAttempt, ClaimOf, MaySettle, ReadySteps, First
<1>6. ASSUME NEW c \in claims, CompleteRun(c) PROVE CancelledHoldsNothing'
    BY <1>6 DEF CompleteRun, MaySettle, CompletionAdmitted
<1>7. ASSUME NEW c \in claims, FailRetry(c) PROVE CancelledHoldsNothing'
    BY <1>7 DEF FailRetry, OpenAttempt, ClaimOf, MaySettle
<1>8. ASSUME NEW c \in claims, FailRun(c) PROVE CancelledHoldsNothing'
    BY <1>8 DEF FailRun, MaySettle, Permitted
<1>9. ASSUME NEW r \in Runs, NEW s \in Steps, OpenWait(r, s) PROVE CancelledHoldsNothing'
    BY <1>9 DEF OpenWait
<1>10. ASSUME NEW r \in Runs, NEW s \in Steps, ResolveWait(r, s) PROVE CancelledHoldsNothing'
    BY <1>10 DEF ResolveWait
<1>11. ASSUME NEW r \in Runs, DeclareEffect(r) PROVE CancelledHoldsNothing'
    BY <1>11 DEF DeclareEffect
<1>12. ASSUME NEW r \in Runs, NEW head \in {"unknown", "settled", "branched"},
             RecordEffect(r, head)
      PROVE CancelledHoldsNothing'
    BY <1>12 DEF RecordEffect
<1>13. ASSUME NEW r \in Runs, CancelFinished(r) PROVE CancelledHoldsNothing'
    BY <1>13 DEF CancelFinished
<1>14. ASSUME NEW r \in Runs, CancelPending(r) PROVE CancelledHoldsNothing'
    BY <1>14 DEF CancelPending
<1>15. ASSUME NEW r \in Runs, CancelRun(r) PROVE CancelledHoldsNothing'
    BY <1>15 DEF CancelRun, CancelledJob
<1>16. CASE Exit
    BY <1>16 DEF Exit
<1>17. CASE Start
    BY <1>17 DEF Start
<1>18. CASE RuntimePass
    BY <1>18 DEF RuntimePass, DurableOpenWait, OrphanAttempt, Repairable, Superseded, RecoveredJob
<1>19. CASE Sweep
    BY <1>19 DEF Sweep, Superseded, RecoveredJob
<1>. QED
    BY <1>1, <1>2, <1>3, <1>4, <1>5, <1>6, <1>7, <1>8, <1>9, <1>10, <1>11,
       <1>12, <1>13, <1>14, <1>15, <1>16, <1>17, <1>18, <1>19
       DEF Next, Scheduling, Settlement, Waiting, Cancelling

\* A completion closes the last attempt of a run whose other steps are done.
LEMMA SucceededStep ==
    ASSUME RuntimeInv, [Next]_vars
    PROVE  SucceededIsComplete'
<1> USE DEF RuntimeInv, TypeOK, SucceededIsComplete, OpenIsActive, SucceededWasAttempted, RunTerminal, JobTerminal, service, steps, pauses
<1>1. CASE UNCHANGED vars
    BY <1>1 DEF vars
<1>2. CASE ClaimNext
    BY <1>2 DEF ClaimNext, OpenAttempt, ClaimOf, Claimable, ReadySteps, First
<1>3. ASSUME NEW r \in Runs, StartRun(r) PROVE SucceededIsComplete'
    BY <1>3 DEF StartRun
<1>4. ASSUME NEW r \in Runs, ResumeClaim(r) PROVE SucceededIsComplete'
    BY <1>4 DEF ResumeClaim, HeldClaim, ClaimOf
<1>5. ASSUME NEW c \in claims, CompleteStep(c) PROVE SucceededIsComplete'
    BY <1>5 DEF CompleteStep, OpenAttempt, ClaimOf, MaySettle, ReadySteps, First
<1>6. ASSUME NEW c \in claims, CompleteRun(c) PROVE SucceededIsComplete'
    BY <1>6 DEF CompleteRun, MaySettle, CompletionAdmitted
<1>7. ASSUME NEW c \in claims, FailRetry(c) PROVE SucceededIsComplete'
    BY <1>7 DEF FailRetry, OpenAttempt, ClaimOf, MaySettle
<1>8. ASSUME NEW c \in claims, FailRun(c) PROVE SucceededIsComplete'
    BY <1>8 DEF FailRun, MaySettle, Permitted
<1>9. ASSUME NEW r \in Runs, NEW s \in Steps, OpenWait(r, s) PROVE SucceededIsComplete'
    BY <1>9 DEF OpenWait
<1>10. ASSUME NEW r \in Runs, NEW s \in Steps, ResolveWait(r, s) PROVE SucceededIsComplete'
    BY <1>10 DEF ResolveWait
<1>11. ASSUME NEW r \in Runs, DeclareEffect(r) PROVE SucceededIsComplete'
    BY <1>11 DEF DeclareEffect
<1>12. ASSUME NEW r \in Runs, NEW head \in {"unknown", "settled", "branched"},
             RecordEffect(r, head)
      PROVE SucceededIsComplete'
    BY <1>12 DEF RecordEffect
<1>13. ASSUME NEW r \in Runs, CancelFinished(r) PROVE SucceededIsComplete'
    BY <1>13 DEF CancelFinished
<1>14. ASSUME NEW r \in Runs, CancelPending(r) PROVE SucceededIsComplete'
    BY <1>14 DEF CancelPending
<1>15. ASSUME NEW r \in Runs, CancelRun(r) PROVE SucceededIsComplete'
    BY <1>15 DEF CancelRun, CancelledJob
<1>16. CASE Exit
    BY <1>16 DEF Exit
<1>17. CASE Start
    BY <1>17 DEF Start
<1>18. CASE RuntimePass
    BY <1>18 DEF RuntimePass, DurableOpenWait, OrphanAttempt, Repairable, Superseded, RecoveredJob
<1>19. CASE Sweep
    BY <1>19 DEF Sweep, Superseded, RecoveredJob
<1>. QED
    BY <1>1, <1>2, <1>3, <1>4, <1>5, <1>6, <1>7, <1>8, <1>9, <1>10, <1>11,
       <1>12, <1>13, <1>14, <1>15, <1>16, <1>17, <1>18, <1>19
       DEF Next, Scheduling, Settlement, Waiting, Cancelling

\* The parts hold of every behaviour.
LEMMA RuntimeInductive == Spec => []RuntimeInv
<1>1. Init => RuntimeInv
    BY RuntimeInitType, NStepsAssumption
       DEF Init, RuntimeInv, AbsentHasNoJob, ClaimsOfGeneration, OpenIsActive,
           SucceededWasAttempted, JobSucceedsWithRun, StopFreezesRun,
           CancelledHoldsNothing, SucceededIsComplete
<1>2. RuntimeInv /\ [Next]_vars => RuntimeInv'
    BY RuntimeTypeStep, AbsentStep, GenerationStep, ActiveStep, AttemptedStep,
       JobRunStep, StopStep, CancelledStep, SucceededStep DEF RuntimeInv
<1>3. QED
    BY <1>1, <1>2, PTL DEF Spec

-----------------------------------------------------------------------------
(* Budgets, and the agreement of a run with its job *)

\* The two budgets together: a job is never attempted beyond its own, a step's
\* attempts stay within one retry budget and one attempt for each attempt of the job
\* but the first, and a step that waits to be opened under a claim has one to spare.
AttemptBudget ==
    \A r \in Runs :
        /\ job[r].attempts <= MaxAttempts
        /\ run[r] = "absent" => job[r].attempts = 0
        /\ job[r].state = "claimed" => job[r].attempts > 0
        /\ \A s \in Steps :
             /\ attempts[r][s] < MaxAttempts + job[r].attempts
             /\ step[r][s] = "pending" /\ job[r].state = "claimed" =>
                  attempts[r][s] + 1 < MaxAttempts + job[r].attempts

\* A claim spends one attempt of the job for one of a step; a retry stays within the
\* step's budget; only a recovery makes a step pending again.
LEMMA BudgetStep ==
    ASSUME RuntimeInv, AttemptBudget, [Next]_vars
    PROVE  AttemptBudget'
<1> USE MaxAttemptsAssumption DEF RuntimeInv, TypeOK, AttemptBudget, RunTerminal, JobTerminal, service, steps, pauses
<1>1. CASE UNCHANGED vars
    BY <1>1 DEF vars
<1>2. CASE ClaimNext
    BY <1>2 DEF ClaimNext, OpenAttempt, ClaimOf, Claimable, ReadySteps, First
<1>3. ASSUME NEW r \in Runs, StartRun(r) PROVE AttemptBudget'
    BY <1>3 DEF StartRun, AbsentHasNoJob
<1>4. ASSUME NEW r \in Runs, ResumeClaim(r) PROVE AttemptBudget'
    BY <1>4 DEF ResumeClaim, HeldClaim, ClaimOf
<1>5. ASSUME NEW c \in claims, CompleteStep(c) PROVE AttemptBudget'
    BY <1>5, ClaimFields DEF CompleteStep, OpenAttempt, ClaimOf, MaySettle, ReadySteps, First
<1>6. ASSUME NEW c \in claims, CompleteRun(c) PROVE AttemptBudget'
    BY <1>6, ClaimFields DEF CompleteRun, MaySettle, CompletionAdmitted
<1>7. ASSUME NEW c \in claims, FailRetry(c) PROVE AttemptBudget'
    BY <1>7, ClaimFields DEF FailRetry, OpenAttempt, ClaimOf, MaySettle
<1>8. ASSUME NEW c \in claims, FailRun(c) PROVE AttemptBudget'
    BY <1>8, ClaimFields DEF FailRun, MaySettle, Permitted
<1>9. ASSUME NEW r \in Runs, NEW s \in Steps, OpenWait(r, s) PROVE AttemptBudget'
    BY <1>9 DEF OpenWait
<1>10. ASSUME NEW r \in Runs, NEW s \in Steps, ResolveWait(r, s) PROVE AttemptBudget'
    BY <1>10 DEF ResolveWait
<1>11. CASE UNCHANGED <<job, run, step, attempts>>
    BY <1>11
<1>14. ASSUME NEW r \in Runs, CancelPending(r) PROVE AttemptBudget'
    BY <1>14 DEF CancelPending
<1>15. ASSUME NEW r \in Runs, CancelRun(r) PROVE AttemptBudget'
    BY <1>15 DEF CancelRun, CancelledJob
<1>18. CASE RuntimePass
    BY <1>18 DEF RuntimePass, DurableOpenWait, OrphanAttempt, Repairable, Superseded, RecoveredJob, AbsentHasNoJob
<1>19. CASE Sweep
    BY <1>19 DEF Sweep, Superseded, RecoveredJob
<1>. QED
    BY <1>1, <1>2, <1>3, <1>4, <1>5, <1>6, <1>7, <1>8, <1>9, <1>10, <1>11,
       <1>14, <1>15, <1>18, <1>19
       DEF Next, Scheduling, Settlement, Waiting, Cancelling, DeclareEffect, RecordEffect,
           CancelFinished, Exit, Start

\* What holds of a run none of whose waits is abandoned: one attempt at most,
\* the wait suspends that attempt, a finished run has a finished job and holds
\* nothing; and, unless a stop keeps it from being repaired, a claim is an open
\* attempt and a finished job finishes the run.
Agreed(r) ==
    /\ \A s, u \in open[r] : s = u
    /\ waits[r] \subseteq open[r]
    /\ waits[r] # {} <=> run[r] = "waiting"
    /\ run[r] \in RunTerminal => job[r].state \in JobTerminal /\ open[r] = {}
    /\ ~stop[r] => /\ job[r].state \in JobTerminal => run[r] \in RunTerminal
                   /\ job[r].state = "claimed" <=> open[r] # {}

Agreement == \A r \in Runs : ~Abandoned(r) => Agreed(r)

\* The startup pass leaves the sweep only stopped and abandoned runs.
SweptClean ==
    phase = "sweep" =>
        \A r \in Runs : job[r].state = "claimed" /\ ~stop[r] /\ ~Abandoned(r) =>
            job[r].generation = generation

\* Every transaction moves a run and its job together.
LEMMA AgreementStep ==
    ASSUME RuntimeInv, Agreement, SweptClean, [Next]_vars
    PROVE  Agreement'
<1> USE DEF RuntimeInv, TypeOK, Agreement, Agreed, Abandoned, StopFreezesRun, RunTerminal, JobTerminal, service, steps, pauses
<1>1. CASE UNCHANGED vars
    BY <1>1 DEF vars
<1>2. CASE ClaimNext
    BY <1>2 DEF ClaimNext, OpenAttempt, Claimable, ReadySteps, First
<1>3. ASSUME NEW r \in Runs, StartRun(r) PROVE Agreement'
    BY <1>3 DEF StartRun, AbsentHasNoJob
<1>4. CASE UNCHANGED <<job, run, step, open, waits, stop>>
    BY <1>4
<1>5. ASSUME NEW c \in claims, CompleteStep(c) PROVE Agreement'
    BY <1>5, ClaimFields DEF CompleteStep, OpenAttempt, MaySettle, ReadySteps, First
<1>6. ASSUME NEW c \in claims, CompleteRun(c) PROVE Agreement'
    BY <1>6, ClaimFields DEF CompleteRun, MaySettle, CompletionAdmitted
<1>7. ASSUME NEW c \in claims, FailRetry(c) PROVE Agreement'
  <2> DEFINE r == c.run
             s == c.step
  <2>1. r \in Runs /\ s \in Steps /\ s \in open[r] /\ job[r].state = "claimed" /\ ~stop[r]
    BY <1>7, ClaimFields DEF FailRetry, MaySettle, OpenAttempt
  <2>2. /\ open' = [open EXCEPT ![r] = (open[r] \ {s}) \cup {s}]
        /\ step' = [step EXCEPT ![r] = [step[r] EXCEPT ![s] = "running"]]
        /\ run' = [run EXCEPT ![r] = "running"]
        /\ UNCHANGED <<job, waits, stop>>
    BY <1>7 DEF FailRetry, OpenAttempt
  <2> HIDE DEF r, s
  <2>3. open' = open
    BY <2>1, <2>2
  <2>4. \A q \in Runs \ {r} : step'[q] = step[q] /\ run'[q] = run[q]
    BY <2>1, <2>2
  <2>5. /\ step'[r][s] = "running" /\ run'[r] = "running"
        /\ \A u \in Steps \ {s} : step'[r][u] = step[r][u]
    BY <2>1, <2>2
  <2>6. ASSUME ~Abandoned(r)' PROVE waits[r] = {} /\ Agreed(r)
    <3>1. s \notin waits[r]
      BY <2>2, <2>5, <2>6
    <3>2. ~Abandoned(r)
      BY <2>1, <2>2, <2>5, <2>6, <3>1
    <3>3. Agreed(r)
      BY <2>1, <3>2
    <3>4. waits[r] = {}
      BY <2>1, <3>1, <3>3
    <3>5. QED
      BY <3>3, <3>4
  <2>7. ~Abandoned(r)' => Agreed(r)'
    BY <2>1, <2>2, <2>3, <2>5, <2>6
  <2>8. QED
    BY <2>1, <2>2, <2>3, <2>4, <2>7
<1>8. ASSUME NEW c \in claims, FailRun(c) PROVE Agreement'
    BY <1>8, ClaimFields DEF FailRun, MaySettle
<1>9. ASSUME NEW r \in Runs, NEW s \in Steps, OpenWait(r, s) PROVE Agreement'
    BY <1>9 DEF OpenWait
<1>10. ASSUME NEW r \in Runs, NEW s \in Steps, ResolveWait(r, s) PROVE Agreement'
    BY <1>10 DEF ResolveWait
<1>13. ASSUME NEW r \in Runs, CancelFinished(r) PROVE Agreement'
    BY <1>13 DEF CancelFinished
<1>14. ASSUME NEW r \in Runs, CancelPending(r) PROVE Agreement'
    BY <1>14 DEF CancelPending
<1>15. ASSUME NEW r \in Runs, CancelRun(r) PROVE Agreement'
    BY <1>15 DEF CancelRun, CancelledJob, RunTerminal, JobTerminal
<1>18. CASE RuntimePass
  <2> SUFFICES ASSUME NEW r \in Runs, ~Abandoned(r)' PROVE Agreed(r)'
    OBVIOUS
  <2>1. UNCHANGED <<waits, stop>>
    BY <1>18 DEF RuntimePass
  <2>2. CASE OrphanAttempt(r)
    <3>1. waits[r] = {} /\ open'[r] = {} /\ ~stop[r] /\ run[r] # "waiting"
      BY <1>18, <2>2 DEF RuntimePass, OrphanAttempt, Repairable, Contradictory
    <3>2. \/ job'[r].state = "queued" /\ run'[r] = "running"
          \/ job'[r].state = "failed" /\ run'[r] = "failed"
      BY <1>18, <2>2 DEF RuntimePass, OrphanAttempt, DurableOpenWait, RecoveredJob
    <3>3. QED
      BY <2>1, <3>1, <3>2
  <2>3. CASE ~OrphanAttempt(r)
    <3>1. /\ open'[r] = open[r] /\ run'[r] = run[r] /\ job'[r].state = job[r].state
          /\ \A s \in Steps : step'[r][s] = step[r][s]
      BY <1>18, <2>3 DEF RuntimePass
    <3>2. ~Abandoned(r)
      BY <2>1, <3>1
    <3>3. Agreed(r)
      BY <3>2
    <3>4. QED
      BY <2>1, <3>1, <3>3
  <2>4. QED
    BY <2>2, <2>3
<1>19. CASE Sweep
    BY <1>19 DEF Sweep, Superseded, RecoveredJob, SweptClean, ClaimsOfGeneration
<1>. QED
    BY <1>1, <1>2, <1>3, <1>4, <1>5, <1>6, <1>7, <1>8, <1>9, <1>10, <1>13,
       <1>14, <1>15, <1>18, <1>19
       DEF Next, Scheduling, Settlement, Waiting, Cancelling, ResumeClaim, DeclareEffect,
           RecordEffect, Exit, Start

\* A claim whose run agrees with its job is not contradictory.
LEMMA AgreedIsSound ==
    ASSUME NEW r \in Runs, Agreed(r), ~stop[r]
    PROVE  ~Contradictory(r)
<1>1. /\ ~\E s, u \in open[r] : s # u
      /\ ~\E s, u \in waits[r] : s # u
    BY DEF Agreed
<1>2. (run[r] \in RunTerminal) = (job[r].state \in JobTerminal)
    BY DEF Agreed
<1>3. run[r] \in RunTerminal => open[r] = {} /\ waits[r] = {}
    BY DEF Agreed
<1>4. (waits[r] # {}) = (run[r] = "waiting")
    BY DEF Agreed
<1>5. waits[r] # {} => waits[r] = open[r]
    BY DEF Agreed
<1>6. (job[r].state = "claimed") = (open[r] # {})
    BY DEF Agreed
<1>7. QED
    BY <1>1, <1>2, <1>3, <1>4, <1>5, <1>6 DEF Contradictory

\* The startup pass repairs every stale claim of a run that is neither stopped
\* nor abandoned, and nothing else runs before the sweep.
LEMMA SweptCleanStep ==
    ASSUME RuntimeInv, Agreement, SweptClean, [Next]_vars
    PROVE  SweptClean'
<1> SUFFICES ASSUME phase' = "sweep", NEW r \in Runs, job'[r].state = "claimed", ~stop'[r], ~Abandoned(r)'
             PROVE  job'[r].generation = generation'
    BY DEF SweptClean, Abandoned
<1>1. CASE UNCHANGED vars
    BY <1>1 DEF vars, SweptClean, Abandoned
<1>2. CASE RuntimePass
  <2>1. UNCHANGED <<generation, waits, stop>>
    BY <1>2 DEF RuntimePass, pauses
  <2>2. CASE OrphanAttempt(r)
    BY <1>2, <2>2 DEF RuntimePass, OrphanAttempt, DurableOpenWait, RecoveredJob, RuntimeInv, TypeOK
  <2>3. CASE ~OrphanAttempt(r) /\ DurableOpenWait(r)
    BY <1>2, <2>1, <2>3 DEF RuntimePass, RuntimeInv, TypeOK
  <2>4. CASE ~OrphanAttempt(r) /\ ~DurableOpenWait(r)
    <3>1. job'[r] = job[r] /\ \A s \in Steps : step'[r][s] = step[r][s]
      BY <1>2, <2>4 DEF RuntimePass
    <3>2. ~Abandoned(r) /\ ~stop[r] /\ job[r].state = "claimed"
      BY <2>1, <3>1 DEF Abandoned, RuntimeInv, TypeOK
    <3>3. Agreed(r)
      BY <3>2 DEF Agreement
    <3>4. ~Contradictory(r)
      BY <3>2, <3>3, AgreedIsSound
    <3>5. run[r] # "absent" /\ run[r] \notin RunTerminal /\ open[r] # {}
      BY <3>2, <3>3 DEF Agreed, RuntimeInv, AbsentHasNoJob, JobTerminal
    <3>6. ~Superseded(r)
      BY <2>4, <3>2, <3>4, <3>5 DEF OrphanAttempt, DurableOpenWait, Repairable
    <3>7. job[r].generation = generation
      BY <3>2, <3>6, NotOlder DEF Superseded, RuntimeInv, TypeOK, ClaimsOfGeneration
    <3>8. QED
      BY <2>1, <3>1, <3>7
  <2>5. QED
    BY <2>2, <2>3, <2>4
<1>3. QED
    BY <1>1, <1>2
       DEF Next, Scheduling, Settlement, Waiting, Cancelling, ClaimNext, StartRun, ResumeClaim,
           CompleteStep, CompleteRun, FailRetry, FailRun, OpenWait, ResolveWait, DeclareEffect,
           RecordEffect, CancelFinished, CancelPending, CancelRun, Exit, Start, Sweep, service

\* The agreement of runs and jobs and the budget hold of every behaviour.
LEMMA AgreementInductive == Spec => [](RuntimeInv /\ Agreement /\ SweptClean /\ AttemptBudget)
<1>1. Init => Agreement /\ SweptClean /\ AttemptBudget
    BY MaxAttemptsAssumption
       DEF Init, Agreement, Agreed, SweptClean, AttemptBudget, Abandoned, RunTerminal, JobTerminal
<1>2. /\ RuntimeInv /\ Agreement /\ SweptClean /\ AttemptBudget
      /\ [Next]_vars
      => Agreement' /\ SweptClean' /\ AttemptBudget'
    BY AgreementStep, SweptCleanStep, BudgetStep
<1>3. QED
    BY <1>1, <1>2, RuntimeInductive, PTL DEF Spec

-----------------------------------------------------------------------------
(* The theorems *)

\* Until a stop settles, no restart, recovery or late settlement makes its run
\* run again (_open_attempt, _classify).
THEOREM StopFreezes == Spec => []StopFreezesRun
<1>1. RuntimeInv => StopFreezesRun
    BY DEF RuntimeInv
<1>2. QED
    BY <1>1, RuntimeInductive, PTL

\* A cancelled run holds no attempt, no wait and no claimable job
\* (_release_run_work, _cancel_durable_job), and a run succeeds only with its
\* job and all of its steps, each of them attempted (complete and the
\* completion trigger).
THEOREM FinishedClosed == Spec => []FinishedIsClosed
<1>1. RuntimeInv => FinishedIsClosed
    BY DEF RuntimeInv, FinishedIsClosed
<1>2. QED
    BY <1>1, RuntimeInductive, PTL

\* After the two startup passes no claim of a dead service is left, and every
\* claim whose history is sound can be read back (resume_claim).
THEOREM ClaimsAreResumable == Spec => []ServedClaimsResumable
<1>1. RuntimeInv => ServedClaimsResumable
  <2> SUFFICES ASSUME RuntimeInv, phase = "serving", NEW r \in Runs, job[r].state = "claimed"
               PROVE  /\ job[r].generation = generation
                      /\ ~Contradictory(r) => \E s \in Steps : open[r] = {s}
    BY DEF ServedClaimsResumable
  <2>1. job[r].generation = generation
    BY DEF RuntimeInv, ClaimsOfGeneration
  <2>2. run[r] # "absent"
    BY DEF RuntimeInv, AbsentHasNoJob
  <2>3. ASSUME ~Contradictory(r) PROVE \E s \in Steps : open[r] = {s}
    <3>1. open[r] # {} /\ \A s, u \in open[r] : s = u
      BY <2>2, <2>3 DEF Contradictory
    <3>2. PICK s \in open[r] : TRUE
      BY <3>1
    <3>3. open[r] = {s} /\ s \in Steps
      BY <3>1, <3>2 DEF RuntimeInv, TypeOK
    <3>4. QED
      BY <3>3
  <2>4. QED
    BY <2>1, <2>3
<1>2. QED
    BY <1>1, RuntimeInductive, PTL

\* No attempt is opened under an unsettled stop, by whatever path.
THEOREM StopInhibitsDispatch == Spec => NoDispatchUnderStop
<1> DEFINE Inhibited == \A r \in Runs : stop[r] => attempts'[r] = attempts[r]
<1>1. TypeOK /\ [Next]_vars => [Inhibited]_vars
  <2> SUFFICES ASSUME TypeOK, Next PROVE Inhibited
    OBVIOUS
  <2> USE DEF TypeOK, OpenAttempt
  <2>1. CASE ClaimNext
    BY <2>1 DEF ClaimNext
  <2>2. ASSUME NEW c \in claims, CompleteStep(c) PROVE Inhibited
    BY <2>2, ClaimFields DEF CompleteStep
  <2>3. ASSUME NEW c \in claims, FailRetry(c) PROVE Inhibited
    BY <2>3, ClaimFields DEF FailRetry
  <2>4. CASE UNCHANGED attempts
    BY <2>4
  <2>5. QED
    BY <2>1, <2>2, <2>3, <2>4
       DEF Next, Scheduling, Settlement, Waiting, Cancelling, StartRun, ResumeClaim,
           CompleteRun, FailRun, OpenWait, ResolveWait, DeclareEffect, RecordEffect,
           CancelFinished, CancelPending, CancelRun, Exit, Start, RuntimePass, Sweep, steps
<1>2. QED
    BY <1>1, RuntimeTypeCorrect, PTL DEF Spec, NoDispatchUnderStop

\* Neither startup pass touches a suspended run (_adopt_open_wait).
THEOREM SuspensionIsKept == Spec => SuspensionSurvivesRestart
<1> DEFINE Kept == \A r \in Runs : phase # "serving" /\ run[r] = "waiting" =>
                       /\ run'[r] = "waiting" /\ waits'[r] = waits[r]
                       /\ open'[r] = open[r] /\ step'[r] = step[r]
<1>1. TypeOK /\ [Next]_vars => [Kept]_vars
  <2> SUFFICES ASSUME TypeOK, Next, phase # "serving" PROVE Kept
    OBVIOUS
  <2>1. CASE RuntimePass
    <3> SUFFICES ASSUME NEW r \in Runs, run[r] = "waiting"
                 PROVE  /\ run'[r] = "waiting" /\ waits'[r] = waits[r]
                        /\ open'[r] = open[r] /\ step'[r] = step[r]
      OBVIOUS
    <3>1. ~OrphanAttempt(r)
      BY DEF OrphanAttempt, Repairable, Contradictory
    <3>2. run'[r] = run[r] /\ open'[r] = open[r] /\ waits' = waits
      BY <2>1, <3>1 DEF RuntimePass, pauses
    <3>3. step'[r] = [s \in Steps |-> step[r][s]]
      BY <2>1, <3>1 DEF RuntimePass
    <3>4. step[r] = [s \in Steps |-> step[r][s]]
      BY DEF TypeOK
    <3>5. QED
      BY <3>2, <3>3, <3>4, NotOlder, Zenon
  <2>2. CASE UNCHANGED <<run, waits, open, step>>
    BY <2>2
  <2>3. QED
    BY <2>1, <2>2
       DEF Next, Scheduling, Settlement, Waiting, Cancelling, ClaimNext, StartRun, ResumeClaim,
           CompleteStep, CompleteRun, FailRetry, FailRun, OpenWait, ResolveWait, DeclareEffect,
           RecordEffect, CancelFinished, CancelPending, CancelRun, Exit, Start, Sweep, steps, pauses
<1>2. QED
    BY <1>1, RuntimeTypeCorrect, PTL DEF Spec, SuspensionSurvivesRestart

\* What has finished stays finished: late settlements, cancellations and
\* recoveries are refused or leave it alone.
THEOREM FinishedIsFinal == Spec => FinishedStaysFinished
<1> DEFINE Final == \A r \in Runs :
              /\ run[r] \in RunTerminal =>
                   run'[r] = run[r] /\ step'[r] = step[r] /\ attempts'[r] = attempts[r]
              /\ job[r].state \in JobTerminal => job'[r] = job[r]
<1>1. RuntimeInv /\ [Next]_vars => [Final]_vars
  <2> SUFFICES ASSUME RuntimeInv, Next PROVE Final
    OBVIOUS
  <2> USE DEF RuntimeInv, TypeOK, AbsentHasNoJob, RunTerminal, JobTerminal, service, steps, pauses
  <2>2. CASE ClaimNext
    BY <2>2 DEF ClaimNext, OpenAttempt, ClaimOf, Claimable, ReadySteps, First
  <2>3. ASSUME NEW r \in Runs, StartRun(r) PROVE Final
    BY <2>3 DEF StartRun
  <2>4. ASSUME NEW r \in Runs, ResumeClaim(r) PROVE Final
    BY <2>4 DEF ResumeClaim, HeldClaim, ClaimOf
  <2>5. ASSUME NEW c \in claims, CompleteStep(c) PROVE Final
    BY <2>5 DEF CompleteStep, OpenAttempt, ClaimOf, MaySettle, ReadySteps, First
  <2>6. ASSUME NEW c \in claims, CompleteRun(c) PROVE Final
    BY <2>6 DEF CompleteRun, MaySettle, CompletionAdmitted
  <2>7. ASSUME NEW c \in claims, FailRetry(c) PROVE Final
    BY <2>7 DEF FailRetry, OpenAttempt, ClaimOf, MaySettle
  <2>8. ASSUME NEW c \in claims, FailRun(c) PROVE Final
    BY <2>8 DEF FailRun, MaySettle, Permitted
  <2>9. ASSUME NEW r \in Runs, NEW s \in Steps, OpenWait(r, s) PROVE Final
    BY <2>9 DEF OpenWait
  <2>10. ASSUME NEW r \in Runs, NEW s \in Steps, ResolveWait(r, s) PROVE Final
    BY <2>10 DEF ResolveWait
  <2>11. ASSUME NEW r \in Runs, DeclareEffect(r) PROVE Final
    BY <2>11 DEF DeclareEffect
  <2>12. ASSUME NEW r \in Runs, NEW head \in {"unknown", "settled", "branched"},
             RecordEffect(r, head)
      PROVE Final
    BY <2>12 DEF RecordEffect
  <2>13. ASSUME NEW r \in Runs, CancelFinished(r) PROVE Final
    BY <2>13 DEF CancelFinished
  <2>14. ASSUME NEW r \in Runs, CancelPending(r) PROVE Final
    BY <2>14 DEF CancelPending
  <2>15. ASSUME NEW r \in Runs, CancelRun(r) PROVE Final
    BY <2>15 DEF CancelRun, CancelledJob
  <2>16. CASE Exit
    BY <2>16 DEF Exit
  <2>17. CASE Start
    BY <2>17 DEF Start
  <2>18. CASE RuntimePass
    <3> SUFFICES ASSUME NEW r \in Runs
                 PROVE  /\ run[r] \in RunTerminal =>
                             run'[r] = run[r] /\ step'[r] = step[r] /\ attempts'[r] = attempts[r]
                        /\ job[r].state \in JobTerminal => job'[r] = job[r]
      OBVIOUS
    <3>1. run[r] \in RunTerminal \/ job[r].state \in JobTerminal =>
            ~OrphanAttempt(r) /\ ~DurableOpenWait(r)
      BY DEF OrphanAttempt, DurableOpenWait, Repairable, Superseded
    <3>2. ~OrphanAttempt(r) => run'[r] = run[r] /\ step'[r] = [s \in Steps |-> step[r][s]]
      BY <2>18 DEF RuntimePass
    <3>3. step[r] = [s \in Steps |-> step[r][s]]
      OBVIOUS
    <3>4. attempts' = attempts
      BY <2>18 DEF RuntimePass
    <3>5. ~OrphanAttempt(r) /\ ~DurableOpenWait(r) => job'[r] = job[r]
      BY <2>18 DEF RuntimePass
    <3>6. QED
      BY <3>1, <3>2, <3>3, <3>4, <3>5
  <2>19. CASE Sweep
    BY <2>19 DEF Sweep, Superseded, RecoveredJob
  <2>. QED
    BY <2>2, <2>3, <2>4, <2>5, <2>6, <2>7, <2>8, <2>9, <2>10, <2>11,
       <2>12, <2>13, <2>14, <2>15, <2>16, <2>17, <2>18, <2>19
       DEF Next, Scheduling, Settlement, Waiting, Cancelling
<1>2. QED
    BY <1>1, RuntimeInductive, PTL DEF Spec, FinishedStaysFinished

\* No run disagrees with its job in a way that the startup pass has to leave
\* alone, unless a stop is unsettled or a wait was abandoned (_contradiction).
THEOREM RunAndJobTellOneStory == Spec => []RunAndJobAgree
<1>1. Agreement => RunAndJobAgree
    BY AgreedIsSound DEF Agreement, RunAndJobAgree
<1>2. QED
    BY <1>1, AgreementInductive, PTL

\* Retries count a step's attempts and recoveries the job's, and together they
\* open at most 2 * max_attempts - 1 attempts on a step (_attempt_budget,
\* recover_runtime_startup).
THEOREM AttemptsAreBounded == Spec => []AttemptsBounded
<1>1. RuntimeInv /\ AttemptBudget => AttemptsBounded
    BY MaxAttemptsAssumption DEF RuntimeInv, TypeOK, AttemptBudget, AttemptsBounded
<1>2. QED
    BY <1>1, AgreementInductive, PTL

=============================================================================
