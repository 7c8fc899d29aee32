---------------------------- MODULE AgentRuntime ----------------------------
(***************************************************************************)
(* The agent runtime of one workspace: runs made of steps, the durable job *)
(* that carries each run, the attempts the scheduler opens on its steps,   *)
(* the waits that suspend it, the material effects it declares, and the    *)
(* stop that cancels it; and what a service does about all of them when it *)
(* starts after another one died.                                          *)
(*                                                                         *)
(* Every operation is one fenced transaction, so every action below is one *)
(* commit (or one change of the process).  A refusal or a rolled back      *)
(* transaction changes nothing and is not an action: its condition is a    *)
(* conjunct of the action it prevents.  The schema's triggers are part of  *)
(* the transaction and appear as conjuncts too.  One service runs at a     *)
(* time; that is what module Ownership establishes.                        *)
(*                                                                         *)
(* A run has one material effect at most, which is enough to make a stop   *)
(* wait for it.  The application attempt of a job is open exactly while    *)
(* the job is claimed: every statement that moves the job out of `claimed' *)
(* closes it in the same transaction, so only its number is kept.          *)
(***************************************************************************)
EXTENDS Integers

CONSTANTS
    NRuns,           \* runs 1..NRuns, numbered in the order they are admitted
    NSteps,          \* the plan's steps, by ordinal
    Requires,        \* Requires[s]: the steps that step s depends on
    MaxAttempts,     \* the job's max_attempts
    MaxWaits,        \* bound: waits opened per run
    MaxGenerations   \* bound: services started

Runs == 1..NRuns
Steps == 1..NSteps

ASSUME NRunsAssumption == NRuns \in Nat
ASSUME NStepsAssumption == NSteps \in Nat \ {0}
ASSUME MaxAttemptsAssumption == MaxAttempts \in Nat \ {0}
ASSUME MaxWaitsAssumption == MaxWaits \in Nat
ASSUME MaxGenerationsAssumption == MaxGenerations \in Nat

\* A plan is a topological order of its dependency graph (execution/workflow.py).
ASSUME PlanOrderAssumption == Requires \in [Steps -> SUBSET Steps]
                              /\ \A s \in Steps : \A d \in Requires[s] : d < s

VARIABLES
    phase,        \* the service: down, runtime (pass), sweep, serving
    generation,   \* the fencing generation of the latest service
    job,          \* the durable job of each run: state, claiming generation, attempts
    run,          \* the status of each run's latest event
    lineage,      \* the claim that event's details name, or NoClaim
    step,         \* the status of each step
    attempts,     \* runtime attempts opened on each step
    open,         \* steps whose latest attempt has no outcome
    waits,        \* steps held by an unresolved wait
    waited,       \* waits opened on the run so far
    effect,       \* the head of the run's material effect
    stop,         \* whether a stop request of the run is unsettled
    claims        \* the claims this process has handed to workers

service == <<phase, generation>>
steps   == <<step, attempts, open>>
pauses  == <<waits, waited>>
vars == <<phase, generation, job, run, lineage, step, attempts, open, waits,
          waited, effect, stop, claims>>

JobStates   == {"absent", "queued", "claimed", "succeeded", "failed", "cancelled"}
JobTerminal == {"succeeded", "failed", "cancelled"}
RunStatuses == {"absent", "admitted", "running", "waiting", "uncertain",
                "succeeded", "failed", "cancelled"}
RunTerminal  == {"succeeded", "failed", "cancelled"}
StepStatuses == {"pending", "running", "waiting", "succeeded", "failed", "cancelled"}
StepTerminal == {"succeeded", "failed", "cancelled"}
EffectHeads  == {"none", "declared", "unknown", "settled", "branched"}

Claim   == [run : Runs, step : Steps, number : Nat, application : Nat]
NoClaim == [run |-> 0, step |-> 0, number |-> 0, application |-> 0]

TypeOK ==
    /\ phase \in {"down", "runtime", "sweep", "serving"}
    /\ generation \in Nat
    /\ job \in [Runs -> [state : JobStates, generation : Nat, attempts : Nat]]
    /\ run \in [Runs -> RunStatuses]
    /\ lineage \in [Runs -> Claim \cup {NoClaim}]
    /\ step \in [Runs -> [Steps -> StepStatuses]]
    /\ attempts \in [Runs -> [Steps -> Nat]]
    /\ open \in [Runs -> SUBSET Steps]
    /\ waits \in [Runs -> SUBSET Steps]
    /\ waited \in [Runs -> Nat]
    /\ effect \in [Runs -> EffectHeads]
    /\ stop \in [Runs -> BOOLEAN]
    /\ claims \in SUBSET Claim

Init ==
    /\ phase = "down"
    /\ generation = 0
    /\ job = [r \in Runs |-> [state |-> "absent", generation |-> 0, attempts |-> 0]]
    /\ run = [r \in Runs |-> "absent"]
    /\ lineage = [r \in Runs |-> NoClaim]
    /\ step = [r \in Runs |-> [s \in Steps |-> "pending"]]
    /\ attempts = [r \in Runs |-> [s \in Steps |-> 0]]
    /\ open = [r \in Runs |-> {}]
    /\ waits = [r \in Runs |-> {}]
    /\ waited = [r \in Runs |-> 0]
    /\ effect = [r \in Runs |-> "none"]
    /\ stop = [r \in Runs |-> FALSE]
    /\ claims = {}

-----------------------------------------------------------------------------
(* What the transactions read.                                             *)

\* The transitions between run statuses the event trigger admits; an event
\* may also restate the status.
Permitted(from, to) ==
    \/ from = to /\ from \notin RunTerminal
    \/ from = "admitted"  /\ to \in {"running", "cancelled"}
    \/ from = "running"   /\ to \in {"waiting", "succeeded", "failed", "cancelled", "uncertain"}
    \/ from = "waiting"   /\ to \in {"running", "cancelled", "failed"}
    \/ from = "uncertain" /\ to \in {"running", "succeeded", "failed", "cancelled"}

\* The runnable steps of a run that its plan admits, given the statuses and
\* the open attempts the transaction has written so far.
ReadySteps(r, statuses, opened) ==
    {s \in Steps : /\ statuses[s] = "pending"
                   /\ s \notin opened
                   /\ s \notin waits[r]
                   /\ \A d \in Requires[s] : statuses[d] = "succeeded"}

Claimable(r) ==
    /\ job[r].state = "queued"
    /\ run[r] \notin RunTerminal
    /\ ReadySteps(r, step[r], open[r]) # {}

\* The step the scheduler takes: the lowest ordinal.
First(S, s) == s \in S /\ \A u \in S : s <= u

ClaimOf(r, s, n, a) == [run |-> r, step |-> s, number |-> n, application |-> a]

\* The claim a run's only open attempt stands for.
HeldClaim(r) ==
    LET s == CHOOSE u \in open[r] : TRUE
    IN ClaimOf(r, s, attempts[r][s], job[r].attempts)

\* A settlement is for a live run and for exactly the open attempt of the
\* claimed job: the job, the application attempt and the runtime attempt all
\* match the claim.  The status of the step is not read.
MaySettle(c) ==
    /\ run[c.run] \notin RunTerminal
    /\ job[c.run].state = "claimed"
    /\ job[c.run].generation = generation
    /\ job[c.run].attempts = c.application
    /\ c.step \in open[c.run]
    /\ attempts[c.run][c.step] = c.number

\* What the completion trigger demands of a final settlement, with the step
\* statuses the settlement has written: the latest event of the run is the
\* running step's, and its details name exactly this claim.
CompletionAdmitted(c, statuses) ==
    /\ run[c.run] = "running"
    /\ lineage[c.run] = c
    /\ c.step = NSteps
    /\ \A s \in Steps : statuses[s] = "succeeded"

\* Effects that a stop has to wait for.  An intent with no settlement is an
\* effect that was declared and never issued, and is not one of them.
Obligated(r) == effect[r] \in {"unknown", "branched"}

\* Why a run and its job cannot both be right, as the startup pass reads them.
Contradictory(r) ==
    /\ run[r] # "absent"
    /\ \/ \E s, u \in open[r] : s # u
       \/ \E s, u \in waits[r] : s # u
       \/ (run[r] \in RunTerminal) # (job[r].state \in JobTerminal)
       \/ run[r] \in RunTerminal /\ (open[r] # {} \/ waits[r] # {})
       \/ (waits[r] # {}) # (run[r] = "waiting")
       \/ waits[r] # {} /\ waits[r] # open[r]
       \/ job[r].state = "claimed" /\ open[r] = {}
       \/ open[r] # {} /\ job[r].state # "claimed"

\* Mutation of Superseded: a claim of the service just before this one is not stale.
SupersededByTwo(r) == job[r].state = "claimed" /\ job[r].generation + 1 < generation

Superseded(r) == job[r].state = "claimed" /\ job[r].generation < generation

\* Mutation of Repairable: a stop does not keep the pass from putting the work back in flight.
RepairableStopped(r) ==
    run[r] # "absent" /\ ~Contradictory(r) /\ run[r] \notin RunTerminal /\ Superseded(r)

\* The two classifications the pass repairs; every other one is left alone.
Repairable(r) ==
    run[r] # "absent" /\ ~Contradictory(r) /\ run[r] \notin RunTerminal /\ ~stop[r] /\ Superseded(r)

\* Mutation of DurableOpenWait: a wait is adopted only without an attempt to resume.
DurableOpenWaitIdle(r) == Repairable(r) /\ waits[r] # {} /\ open[r] = {}

DurableOpenWait(r) == Repairable(r) /\ waits[r] # {}

\* Mutation of OrphanAttempt: a suspended attempt is an orphan too.
OrphanAttemptSuspended(r) == Repairable(r) /\ open[r] # {}

OrphanAttempt(r) == Repairable(r) /\ waits[r] = {} /\ open[r] # {}

\* Mutation of RecoveredJob: the requeued job keeps the state its application attempt had.
RecoveredJobRunning(r) ==
    [state      |-> IF job[r].attempts < MaxAttempts THEN "running" ELSE "failed",
     generation |-> generation,
     attempts   |-> job[r].attempts]

\* A stale claim after recovery: its attempt failed, and the job is queued
\* again while the budget lasts.
RecoveredJob(r) ==
    [state      |-> IF job[r].attempts < MaxAttempts THEN "queued" ELSE "failed",
     generation |-> generation,
     attempts   |-> job[r].attempts]

-----------------------------------------------------------------------------
(* The scheduler.                                                          *)

\* workflow.start: the queued job, the admitted run and its pending steps.
StartRun(r) ==
    /\ phase = "serving"
    /\ run[r] = "absent"
    /\ \A q \in Runs : q < r => run[q] # "absent"
    /\ run' = [run EXCEPT ![r] = "admitted"]
    /\ job' = [job EXCEPT ![r] = [state |-> "queued", generation |-> generation, attempts |-> 0]]
    /\ UNCHANGED <<service, lineage, steps, pauses, effect, stop, claims>>

\* Mutation of OpenAttempt: a stop keeps the run uncertain and does not keep the attempt shut.
OpenAttemptStopped(r, s, application, statuses, opened) ==
    LET c == ClaimOf(r, s, attempts[r][s] + 1, application) IN
    /\ Permitted(run[r], "running")
    /\ step' = [step EXCEPT ![r] = [statuses EXCEPT ![s] = "running"]]
    /\ attempts' = [attempts EXCEPT ![r][s] = @ + 1]
    /\ open' = [open EXCEPT ![r] = opened \cup {s}]
    /\ run' = [run EXCEPT ![r] = IF stop[r] THEN @ ELSE "running"]
    /\ lineage' = [lineage EXCEPT ![r] = c]
    /\ claims' = claims \cup {c}

\* The one place an attempt is opened: refused while a stop of the run is
\* unsettled.  `statuses' and `opened' are what the caller's transaction has
\* already written.
OpenAttempt(r, s, application, statuses, opened) ==
    LET c == ClaimOf(r, s, attempts[r][s] + 1, application) IN
    /\ ~stop[r]
    /\ Permitted(run[r], "running")
    /\ step' = [step EXCEPT ![r] = [statuses EXCEPT ![s] = "running"]]
    /\ attempts' = [attempts EXCEPT ![r][s] = @ + 1]
    /\ open' = [open EXCEPT ![r] = opened \cup {s}]
    /\ run' = [run EXCEPT ![r] = "running"]
    /\ lineage' = [lineage EXCEPT ![r] = c]
    /\ claims' = claims \cup {c}

\* claim_next takes the oldest claimable run.  When that run is stopped the
\* whole poll is refused.
ClaimNext ==
    /\ phase = "serving"
    /\ \E r \in Runs : \E s \in Steps :
         /\ Claimable(r)
         /\ \A q \in Runs : q < r => ~Claimable(q)
         /\ First(ReadySteps(r, step[r], open[r]), s)
         /\ job[r].attempts < MaxAttempts
         /\ job' = [job EXCEPT ![r] = [state |-> "claimed", generation |-> generation,
                                       attempts |-> job[r].attempts + 1]]
         /\ OpenAttempt(r, s, job[r].attempts + 1, step[r], open[r])
    /\ UNCHANGED <<service, pauses, effect, stop>>

\* resume_claim reads back the claim this instance holds on a run.
ResumeClaim(r) ==
    /\ phase = "serving"
    /\ job[r].state = "claimed"
    /\ job[r].generation = generation
    /\ \E s \in Steps : open[r] = {s}
    /\ claims' = claims \cup {HeldClaim(r)}
    /\ UNCHANGED <<service, job, run, lineage, steps, pauses, effect, stop>>

\* complete, with steps left: the step succeeds and the next ready one is
\* opened under the same application attempt.
CompleteStep(c) ==
    LET settled == [step[c.run] EXCEPT ![c.step] = "succeeded"]
        left    == open[c.run] \ {c.step}
    IN
    /\ phase = "serving"
    /\ MaySettle(c)
    /\ \E s \in Steps : settled[s] \notin StepTerminal
    /\ \E s \in Steps :
         /\ First(ReadySteps(c.run, settled, left), s)
         /\ OpenAttempt(c.run, s, c.application, settled, left)
    /\ UNCHANGED <<service, job, pauses, effect, stop>>

\* complete, of the last step: the attempt, the step, the run and the job all
\* succeed, when the completion trigger admits the decision.
CompleteRun(c) ==
    LET settled == [step[c.run] EXCEPT ![c.step] = "succeeded"] IN
    /\ phase = "serving"
    /\ MaySettle(c)
    /\ \A s \in Steps : settled[s] \in StepTerminal
    /\ CompletionAdmitted(c, settled)
    /\ step' = [step EXCEPT ![c.run] = settled]
    /\ open' = [open EXCEPT ![c.run] = @ \ {c.step}]
    /\ run' = [run EXCEPT ![c.run] = "succeeded"]
    /\ job' = [job EXCEPT ![c.run].state = "succeeded"]
    /\ UNCHANGED <<service, lineage, attempts, pauses, effect, stop, claims>>

\* Mutation of FailRetry: the budget is off by one.
FailRetryOnceMore(c) ==
    /\ phase = "serving"
    /\ MaySettle(c)
    /\ c.number <= MaxAttempts
    /\ OpenAttempt(c.run, c.step, c.application, step[c.run], open[c.run] \ {c.step})
    /\ UNCHANGED <<service, job, pauses, effect, stop>>

\* fail, retryable and within the step's budget: the same step is reopened.
FailRetry(c) ==
    /\ phase = "serving"
    /\ MaySettle(c)
    /\ c.number < MaxAttempts
    /\ OpenAttempt(c.run, c.step, c.application, step[c.run], open[c.run] \ {c.step})
    /\ UNCHANGED <<service, job, pauses, effect, stop>>

\* fail, not retryable or out of budget: step, job and run fail together.
FailRun(c) ==
    /\ phase = "serving"
    /\ MaySettle(c)
    /\ Permitted(run[c.run], "failed")
    /\ step' = [step EXCEPT ![c.run][c.step] = "failed"]
    /\ open' = [open EXCEPT ![c.run] = @ \ {c.step}]
    /\ job' = [job EXCEPT ![c.run].state = "failed"]
    /\ run' = [run EXCEPT ![c.run] = "failed"]
    /\ lineage' = [lineage EXCEPT ![c.run] = c]
    /\ UNCHANGED <<service, attempts, pauses, effect, stop, claims>>

-----------------------------------------------------------------------------
(* Waits, effects and cancellation.                                        *)

\* open_runtime_wait suspends the running step under its open attempt.
OpenWait(r, s) ==
    /\ phase = "serving"
    /\ waited[r] < MaxWaits
    /\ run[r] = "running"
    /\ step[r][s] = "running"
    /\ s \in open[r]
    /\ s \notin waits[r]
    /\ waits' = [waits EXCEPT ![r] = @ \cup {s}]
    /\ waited' = [waited EXCEPT ![r] = @ + 1]
    /\ step' = [step EXCEPT ![r][s] = "waiting"]
    /\ run' = [run EXCEPT ![r] = "waiting"]
    /\ lineage' = [lineage EXCEPT ![r] = NoClaim]
    /\ UNCHANGED <<service, job, attempts, open, effect, stop, claims>>

\* resolve_runtime_wait resumes the step under the attempt it had.  The event
\* it appends has no details.
ResolveWait(r, s) ==
    /\ phase = "serving"
    /\ s \in waits[r]
    /\ run[r] = "waiting"
    /\ step[r][s] = "waiting"
    /\ s \in open[r]
    /\ waits' = [waits EXCEPT ![r] = @ \ {s}]
    /\ step' = [step EXCEPT ![r][s] = "running"]
    /\ run' = [run EXCEPT ![r] = "running"]
    /\ lineage' = [lineage EXCEPT ![r] = NoClaim]
    /\ UNCHANGED <<service, job, attempts, open, waited, effect, stop, claims>>

\* An effect intent is declared only by a running run under an open attempt.
DeclareEffect(r) ==
    /\ phase = "serving"
    /\ effect[r] = "none"
    /\ run[r] = "running"
    /\ open[r] # {}
    /\ effect' = [effect EXCEPT ![r] = "declared"]
    /\ UNCHANGED <<service, job, run, lineage, steps, pauses, stop, claims>>

\* Settlements and reconciliations move the head of the effect.  Only an
\* unknown settlement can be reconciled, so a settled head is never reopened;
\* a second, unlinked answer makes two ends, which a later link may join.
RecordEffect(r, head) ==
    /\ phase = "serving"
    /\ effect[r] \notin {"none", head}
    /\ effect[r] = "declared" => head # "branched"
    /\ effect[r] = "settled" => head = "branched"
    /\ effect' = [effect EXCEPT ![r] = head]
    /\ UNCHANGED <<service, job, run, lineage, steps, pauses, stop, claims>>

\* workflow.control cancel of a run that has already finished settles the
\* stop as ignored.
CancelFinished(r) ==
    /\ phase = "serving"
    /\ run[r] \in RunTerminal
    /\ stop[r]
    /\ stop' = [stop EXCEPT ![r] = FALSE]
    /\ UNCHANGED <<service, job, run, lineage, steps, pauses, effect, claims>>

\* Cancel with unaccounted effects: the stop is recorded, nothing is released
\* and a running run becomes uncertain.  Any other run is refused.
CancelPending(r) ==
    /\ phase = "serving"
    /\ run[r] \in {"running", "uncertain"}
    /\ Obligated(r)
    /\ stop' = [stop EXCEPT ![r] = TRUE]
    /\ run' = [run EXCEPT ![r] = "uncertain"]
    /\ lineage' = [lineage EXCEPT ![r] = NoClaim]
    /\ UNCHANGED <<service, job, steps, pauses, effect, claims>>

\* Mutation of CancelledJob: a job that a recovery failed is cancelled over.
CancelledJobFinished(r) ==
    [state      |-> "cancelled",
     generation |-> generation,
     attempts   |-> job[r].attempts]

\* The job of a cancelled run.  A job queued again by a recovery is taken for
\* one further attempt on which the cancellation is recorded; a finished job
\* is left as it is.
CancelledJob(r) ==
    IF job[r].state \in JobTerminal THEN job[r]
    ELSE [state      |-> "cancelled",
          generation |-> generation,
          attempts   |-> IF job[r].state = "queued" /\ job[r].attempts > 0
                         THEN job[r].attempts + 1 ELSE job[r].attempts]

\* Mutation of CancelRun: only the waits of running steps are closed.
CancelRunHoldingWaits(r) ==
    /\ phase = "serving"
    /\ run[r] \notin RunTerminal \cup {"absent"}
    /\ ~Obligated(r)
    /\ CancelledJob(r).attempts <= MaxAttempts
    /\ waits' = [waits EXCEPT ![r] = {s \in @ : step[r][s] = "waiting"}]
    /\ open' = [open EXCEPT ![r] = {}]
    /\ step' = [step EXCEPT ![r] = [s \in Steps |-> IF s \in open[r] THEN "cancelled" ELSE step[r][s]]]
    /\ stop' = [stop EXCEPT ![r] = FALSE]
    /\ run' = [run EXCEPT ![r] = "cancelled"]
    /\ lineage' = [lineage EXCEPT ![r] = NoClaim]
    /\ job' = [job EXCEPT ![r] = CancelledJob(r)]
    /\ UNCHANGED <<service, attempts, waited, effect, claims>>

\* Cancel with every effect accounted for: the waits and the attempts the run
\* holds are closed with their steps, the stop settles, the run and the job
\* are cancelled.
CancelRun(r) ==
    /\ phase = "serving"
    /\ run[r] \notin RunTerminal \cup {"absent"}
    /\ ~Obligated(r)
    /\ CancelledJob(r).attempts <= MaxAttempts
    /\ waits' = [waits EXCEPT ![r] = {}]
    /\ open' = [open EXCEPT ![r] = {}]
    /\ step' = [step EXCEPT ![r] = [s \in Steps |-> IF s \in open[r] THEN "cancelled" ELSE step[r][s]]]
    /\ stop' = [stop EXCEPT ![r] = FALSE]
    /\ run' = [run EXCEPT ![r] = "cancelled"]
    /\ lineage' = [lineage EXCEPT ![r] = NoClaim]
    /\ job' = [job EXCEPT ![r] = CancelledJob(r)]
    /\ UNCHANGED <<service, attempts, waited, effect, claims>>

-----------------------------------------------------------------------------
(* The service's life: its end, its start and its two recovery passes.     *)

\* The process ends, however it ends: it releases no claim on a job.
Exit ==
    /\ phase # "down"
    /\ generation < MaxGenerations
    /\ phase' = "down"
    /\ claims' = {}
    /\ UNCHANGED <<generation, job, run, lineage, steps, pauses, effect, stop>>

Start ==
    /\ phase = "down"
    /\ generation < MaxGenerations
    /\ phase' = "runtime"
    /\ generation' = generation + 1
    /\ UNCHANGED <<job, run, lineage, steps, pauses, effect, stop, claims>>

\* recover_runtime_startup: a stale claim under a durable wait is adopted,
\* and a stale claim over an open attempt loses that attempt and is queued
\* again or, its budget spent, failed with its step and its run.
RuntimePass ==
    LET failed == {r \in Runs : OrphanAttempt(r) /\ RecoveredJob(r).state = "failed"} IN
    /\ phase = "runtime"
    /\ phase' = "sweep"
    /\ job' = [r \in Runs |->
                 IF DurableOpenWait(r) THEN [job[r] EXCEPT !.generation = generation]
                 ELSE IF OrphanAttempt(r) THEN RecoveredJob(r) ELSE job[r]]
    /\ open' = [r \in Runs |-> IF OrphanAttempt(r) THEN {} ELSE open[r]]
    /\ step' = [r \in Runs |-> [s \in Steps |->
                 IF ~OrphanAttempt(r) \/ s \notin open[r] THEN step[r][s]
                 ELSE IF r \in failed THEN "failed" ELSE "pending"]]
    /\ run' = [r \in Runs |->
                 IF ~OrphanAttempt(r) THEN run[r] ELSE IF r \in failed THEN "failed" ELSE "running"]
    /\ lineage' = [r \in Runs |->
                 IF DurableOpenWait(r) THEN NoClaim
                 ELSE IF OrphanAttempt(r) THEN HeldClaim(r) ELSE lineage[r]]
    /\ UNCHANGED <<generation, attempts, pauses, effect, stop, claims>>

\* recover_stranded_application_jobs: every claim that is still stale, with
\* nothing of the run read or written.
Sweep ==
    /\ phase = "sweep"
    /\ phase' = "serving"
    /\ job' = [r \in Runs |-> IF Superseded(r) THEN RecoveredJob(r) ELSE job[r]]
    /\ UNCHANGED <<generation, run, lineage, steps, pauses, effect, stop, claims>>

Scheduling(r) == StartRun(r) \/ ResumeClaim(r)
Settlement(c) == CompleteStep(c) \/ CompleteRun(c) \/ FailRetry(c) \/ FailRun(c)
Waiting(r, s) == OpenWait(r, s) \/ ResolveWait(r, s)
Cancelling(r) == CancelFinished(r) \/ CancelPending(r) \/ CancelRun(r)

Next ==
    \/ ClaimNext
    \/ \E r \in Runs : Scheduling(r) \/ DeclareEffect(r) \/ Cancelling(r)
    \/ \E c \in claims : Settlement(c)
    \/ \E r \in Runs, s \in Steps : Waiting(r, s)
    \/ \E r \in Runs, head \in {"unknown", "settled", "branched"} : RecordEffect(r, head)
    \/ Exit \/ Start \/ RuntimePass \/ Sweep

Spec == Init /\ [][Next]_vars

-----------------------------------------------------------------------------
(* Properties.                                                             *)

\* A wait nobody can resolve any more: the step it holds was settled or
\* reopened through its claim while it was suspended.
Abandoned(r) == \E s \in waits[r] : step[r][s] # "waiting"

\* _contradiction: no run and its job ever disagree in a way the startup pass
\* has to leave alone ("a pair of facts this codebase writes in one
\* transaction and can therefore never have written apart").
HistoriesAgree == \A r \in Runs : ~Contradictory(r)

\* The same of every run that has no unsettled stop and no abandoned wait:
\* whatever is claimed, retried, suspended, recovered or cancelled, and
\* wherever the service died, the run and its job tell one story.
RunAndJobAgree == \A r \in Runs : Contradictory(r) => stop[r] \/ Abandoned(r)

\* An unsettled stop freezes the run: until the stop settles no restart,
\* recovery or late settlement makes it run again; it can only fail.
StopFreezesRun == \A r \in Runs : stop[r] => run[r] \in {"uncertain", "failed"}

\* _attempt_budget: retries and recoveries together open at most
\* 2 * max_attempts - 1 attempts on a step, although neither counts the other.
AttemptsBounded ==
    \A r \in Runs, s \in Steps : attempts[r][s] <= 2 * MaxAttempts - 1

\* The two passes leave no claim of a dead service: what is claimed while the
\* service serves is claimed by it, and unless its history is contradictory
\* the claim can be read back (resume_claim), the adopted ones included.
ServedClaimsResumable ==
    phase = "serving" =>
        \A r \in Runs : job[r].state = "claimed" =>
            /\ job[r].generation = generation
            /\ ~Contradictory(r) => \E s \in Steps : open[r] = {s}

\* A cancelled run holds nothing that a startup pass would read as work in
\* flight: no attempt, no wait, no claimable or claimed job (_release_run_work
\* and _cancel_durable_job).
CancelledHoldsNothing ==
    \A r \in Runs : run[r] = "cancelled" =>
        /\ open[r] = {} /\ waits[r] = {} /\ ~stop[r]
        /\ job[r].state \in {"cancelled", "failed"}

\* A run succeeds only when its job and all of its steps have, and every step
\* was attempted (complete).
SucceededIsComplete ==
    \A r \in Runs : run[r] = "succeeded" =>
        /\ job[r].state = "succeeded"
        /\ open[r] = {}
        /\ \A s \in Steps : step[r][s] = "succeeded" /\ attempts[r][s] > 0

\* A finished run is closed: cancelled it holds nothing, succeeded it is complete.
FinishedIsClosed == CancelledHoldsNothing /\ SucceededIsComplete

\* A run that the scheduler holds on its last step can still be completed:
\* resume_claim is "what lets an adopted run continue".
FinalStepCompletable ==
    \A r \in Runs :
        /\ phase = "serving" /\ run[r] = "running" /\ job[r].state = "claimed"
        /\ open[r] = {NSteps} /\ waits[r] = {} /\ ~stop[r]
        /\ \A s \in Steps \ {NSteps} : step[r][s] = "succeeded"
        => CompletionAdmitted(HeldClaim(r), [step[r] EXCEPT ![NSteps] = "succeeded"])

\* From the moment a stop is recorded until it settles no attempt of the run
\* is opened: not by a poll, an advance, a retry or a start (_open_attempt).
NoDispatchUnderStop ==
    [][\A r \in Runs : stop[r] => attempts'[r] = attempts[r]]_vars

\* While no service serves, a suspended run stays suspended: neither pass
\* closes its wait or its attempt or reopens its step (_adopt_open_wait).
SuspensionSurvivesRestart ==
    [][\A r \in Runs : phase # "serving" /\ run[r] = "waiting" =>
          /\ run'[r] = "waiting" /\ waits'[r] = waits[r]
          /\ open'[r] = open[r] /\ step'[r] = step[r]]_vars

\* A finished run stays as it finished, and so does a finished job: late
\* settlements, cancellations and recoveries change nothing of either.
FinishedStaysFinished ==
    [][\A r \in Runs :
          /\ run[r] \in RunTerminal =>
               run'[r] = run[r] /\ step'[r] = step[r] /\ attempts'[r] = attempts[r]
          /\ job[r].state \in JobTerminal => job'[r] = job[r]]_vars

=============================================================================
