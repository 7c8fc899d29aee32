------------------------------ MODULE ImportJobs ------------------------------
(***************************************************************************)
(* The durable ingestion.import job: started by import.start, carried by   *)
(* the executor between requests (service/import_execution.py), steered    *)
(* by job.cancel and job.retry, and recovered by the next owner after a    *)
(* crash (storage/jobs.py, service/jobs.py).  Every transaction appends    *)
(* to the job's history, and the triggers of migrations 0010, 0015 and     *)
(* 0036 admit or refuse each row.                                          *)
(*                                                                         *)
(* A pass of the executor and a request exclude each other (the gate), so  *)
(* requests come between passes; a crash comes anywhere.  The conditions   *)
(* on the owner (guard, lease, generation) are Ownership's subject: here   *)
(* one service is up at a time and each start has a generation of its own. *)
(***************************************************************************)
EXTENDS Integers, Sequences, FiniteSets

CONSTANTS
    Jobs,          \* import jobs that may be started
    Source,        \* the staged source each job imports
    None,
    MaxAttempts,   \* attempt budget in the job's metadata; 3 in the code
    MaxRequests,   \* bound: job.cancel and job.retry requests
    MaxCrashes,    \* bound: crashes
    MaxFaults      \* bound: storage errors and failing imports

ASSUME NoneAssumption == None \notin Jobs
ASSUME AttemptAssumption == MaxAttempts \in Nat \ {0}
ASSUME BoundAssumption ==
    MaxRequests \in Nat /\ MaxCrashes \in Nat /\ MaxFaults \in Nat

VARIABLES
    jobs,        \* each job's rows
    order,       \* started jobs, oldest first (created_at_us)
    evidence,    \* import_run_id of the artifact of each source
    findable,    \* sources in the search projection
    pass,        \* what the executor is doing
    up,          \* is a service serving
    generation,  \* fencing generation of the last start
    refused,     \* transactions a trigger or a constraint has refused
    requests, crashes, faults

bounds == <<requests, crashes, faults>>
vars == <<jobs, order, evidence, findable, pass, up, generation, refused, bounds>>

Sources == {Source[j] : j \in Jobs}
Terminal == {"succeeded", "failed"}
JobStates == {"none", "queued", "claimed"} \cup Terminal
Errors == {"none", "retryable", "final"}

\* A job before import.start.
NoJob == [state |-> "none", fence |-> 0, clock |-> 0, attempts |-> <<>>,
          events |-> <<>>, observations |-> <<>>, controls |-> {}]

Idle == [at |-> "idle", job |-> None, error |-> "none", created |-> FALSE]

Init ==
    /\ jobs = [j \in Jobs |-> NoJob]
    /\ order = <<>>
    /\ evidence = [s \in Sources |-> None]
    /\ findable = {}
    /\ pass = Idle
    /\ up = TRUE /\ generation = 1
    /\ refused = {}
    /\ requests = 0 /\ crashes = 0 /\ faults = 0

Last(s) == s[Len(s)]

-----------------------------------------------------------------------------
(* The schema: what its triggers, checks and unique indexes admit, in the    *)
(* state r the transaction has reached.                                      *)

\* The newest instant at which an attempt of r was settled; 0 before the first.
Settled(r) ==
    IF r.observations = <<>> THEN 0 ELSE Last(r.observations).at

\* c queued the job again.
Requeues(c) == c.disposition \in {"retry_scheduled", "recovery_requeued"}

\* Controls that count as a recovery's lineage: any job.retry that left the job
\* queued, and the system's own.
Lineage(r) ==
    {c \in r.controls : c.resulting = "queued" /\
                        c.operation \in {"job.retry", "system.recovery"}}

QueuedAt(r, t) ==
    \E i \in DOMAIN r.events : r.events[i] = [state |-> "queued", at |-> t]

\* omnivia_guard_job_attempts_insert
AttemptAdmitted(r, t) ==
    LET n == Len(r.attempts) IN
    /\ r.state = "claimed"
    /\ n + 1 <= MaxAttempts
    /\ n > 0 =>
       /\ r.attempts[n].state = "failed"
       /\ t >= r.attempts[n].finished
       /\ \E c \in Lineage(r) :
             /\ \A d \in Lineage(r) : d.at <= c.at
             /\ QueuedAt(r, c.at)
             /\ \/ c.disposition = "retry_scheduled"
                   /\ c.source = Len(r.observations)
                \/ c.disposition = "recovery_requeued"
                   /\ c.at = r.attempts[n].finished

\* omnivia_guard_job_attempts_update, and the table's checks
ClosingAdmitted(r, state, t) ==
    /\ Last(r.attempts).state = "running"
    /\ t >= Last(r.attempts).started
    /\ r.state = state

\* omnivia_guard_job_events_insert
EventAdmitted(r, state, t) ==
    LET attempt == Last(r.attempts) IN
    /\ r.events # <<>> => t >= Last(r.events).at
    /\ r.state = state
    /\ r.observations # <<>> /\ t >= Settled(r) =>
       \/ /\ state = "queued"
          /\ \E c \in r.controls :
                /\ c.resulting = "queued" /\ c.at = t
                /\ Requeues(c) \/ c.disposition = "cancellation_requested"
       \/ /\ \E c \in Lineage(r) : QueuedAt(r, c.at) /\ c.at >= Settled(r)
          /\ \/ /\ attempt.state = (IF state = "claimed" THEN "running" ELSE state)
                /\ state = "claimed" \/ attempt.finished = t
             \/ \E c \in r.controls :
                   /\ c.disposition = "cancellation_requested"
                   /\ c.resulting = state /\ c.at = t

\* omnivia_guard_job_terminal_observations_insert
ObservationAdmitted(r, state, t) ==
    LET n == Len(r.observations) + 1 IN
    /\ t >= Settled(r)
    /\ r.state = state
    /\ Last(r.events) = [state |-> state, at |-> t]
    /\ Last(r.attempts).state = state /\ Last(r.attempts).finished = t
    /\ \A i \in DOMAIN r.observations : r.observations[i].attempt # Len(r.attempts)
    /\ n > 1 =>
       \E c \in r.controls :
          /\ QueuedAt(r, c.at)
          /\ \/ c.disposition = "retry_scheduled" /\ c.source = n - 1
             \/ c.disposition = "recovery_requeued"

\* omnivia_guard_application_job_controls_insert, and the two unique indexes
ControlAdmitted(r, c) ==
    /\ r.state = c.resulting
    /\ c.disposition = "retry_scheduled" =>
       /\ c.source = Len(r.observations)
       /\ Last(r.observations).state = "failed"
       /\ Last(r.attempts).error = "retryable"
       /\ \A d \in r.controls :
             ~(d.disposition = "retry_scheduled" /\ d.source = c.source)
    /\ c.disposition = "recovery_requeued" =>
       /\ Last(r.attempts).state = "failed" /\ Last(r.attempts).finished = c.at
       /\ Last(r.attempts).error = "retryable"
       /\ \A d \in r.controls :
             ~(d.disposition = "recovery_requeued" /\ d.at = c.at)

-----------------------------------------------------------------------------
(* The rows a statement writes *)

\* Two transactions on a job never read the same instant.
Now(r) == r.clock + 1

\* The update of omnivia_durable_jobs.
Schedule(r, state, g, t) == [r EXCEPT !.state = state, !.fence = g, !.clock = t]

InsertAttempt(r, t) ==
    [r EXCEPT !.attempts = Append(@, [state |-> "running", started |-> t,
                                      finished |-> 0, error |-> "none"])]

CloseAttempt(r, state, error, t) ==
    [r EXCEPT !.attempts[Len(r.attempts)] =
        [@ EXCEPT !.state = state, !.finished = t, !.error = error]]

InsertEvent(r, state, t) ==
    [r EXCEPT !.events = Append(@, [state |-> state, at |-> t])]

InsertObservation(r, state, created, t) ==
    [r EXCEPT !.observations = Append(@,
        [attempt |-> Len(r.attempts), state |-> state, at |-> t, created |-> created])]

Control(operation, disposition, resulting, source, t) ==
    [operation |-> operation, disposition |-> disposition,
     resulting |-> resulting, source |-> source, at |-> t]

InsertControl(r, c) == [r EXCEPT !.controls = @ \cup {c}, !.clock = c.at]

-----------------------------------------------------------------------------
(* The transactions: what is written, and whether every row was admitted     *)

\* start_import_job: claimed by the starting instance, first attempt running; and
\* _claim_application_job_locked, for a queued job's next attempt.
Claimed(r, g, t) ==
    LET a == Schedule(r, "claimed", g, t)
        b == InsertAttempt(a, t)
    IN [row |-> InsertEvent(b, "claimed", t),
        ok  |-> AttemptAdmitted(a, t) /\ EventAdmitted(b, "claimed", t)]

\* Mutation of Terminalized: the terminal observation is not written.
TerminalizedUnobserved(r, g, state, error, created, t) ==
    LET a == Schedule(r, state, g, t)
        b == CloseAttempt(a, state, error, t)
    IN [row |-> InsertEvent(b, state, t),
        ok  |-> ClosingAdmitted(a, state, t) /\ EventAdmitted(b, state, t)]

\* _terminalize_application_job
Terminalized(r, g, state, error, created, t) ==
    LET a == Schedule(r, state, g, t)
        b == CloseAttempt(a, state, error, t)
        c == InsertEvent(b, state, t)
    IN [row |-> InsertObservation(c, state, created, t),
        ok  |-> /\ ClosingAdmitted(a, state, t)
                /\ EventAdmitted(b, state, t)
                /\ ObservationAdmitted(c, state, t)]

\* Mutation of Recovered: a job whose budget is spent is queued as well.
RecoveredAlways(r, g, t) ==
    LET d == Terminalized(r, g, "failed", "retryable", FALSE, t)
        e == Schedule(d.row, "queued", g, t)
        c == Control("system.recovery", "recovery_requeued", "queued", 0, t)
        f == InsertControl(e, c)
    IN [row |-> InsertEvent(f, "queued", t),
        ok  |-> d.ok /\ ControlAdmitted(e, c) /\ EventAdmitted(f, "queued", t)]

\* _recover_stranded_application_jobs_locked, for one stranded job: the attempt
\* has failed, and is followed by another while the budget lasts.
Recovered(r, g, t) ==
    LET d == Terminalized(r, g, "failed", "retryable", FALSE, t)
        e == Schedule(d.row, "queued", g, t)
        c == Control("system.recovery", "recovery_requeued", "queued", 0, t)
        f == InsertControl(e, c)
    IN IF Len(r.attempts) < MaxAttempts
         THEN [row |-> InsertEvent(f, "queued", t),
               ok  |-> /\ d.ok
                       /\ ControlAdmitted(e, c)
                       /\ EventAdmitted(f, "queued", t)]
         ELSE d

\* _control: an accepted cancellation is pending until the next settlement.
CancellationPending(r) ==
    \E c \in r.controls :
        c.disposition = "cancellation_requested" /\ c.at > Settled(r)

Cancellable(r) == r.state \in {"queued", "claimed"} /\ ~CancellationPending(r)

Retryable(r) ==
    /\ r.state = "failed" /\ Len(r.attempts) < MaxAttempts
    /\ Last(r.attempts).error = "retryable"

\* request_job_cancellation: the request is recorded whatever the answer.
Cancelled(r, t) ==
    LET c == Control("job.cancel",
                     IF Cancellable(r) THEN "cancellation_requested"
                                       ELSE "not_cancellable", r.state, 0, t)
        b == InsertControl(r, c)
    IN IF Cancellable(r)
         THEN [row |-> InsertEvent(b, r.state, t),
               ok  |-> ControlAdmitted(r, c) /\ EventAdmitted(b, r.state, t)]
         ELSE [row |-> b, ok |-> ControlAdmitted(r, c)]

\* request_job_retry: an event is written whenever the job ends up queued.
Retried(r, g, t) ==
    LET a == IF Retryable(r) THEN Schedule(r, "queued", g, t) ELSE r
        c == IF Retryable(r)
               THEN Control("job.retry", "retry_scheduled", "queued",
                            Len(r.observations), t)
               ELSE Control("job.retry", "not_retryable", r.state, 0, t)
        b == InsertControl(a, c)
    IN IF a.state = "queued"
         THEN [row |-> InsertEvent(b, "queued", t),
               ok  |-> ControlAdmitted(a, c) /\ EventAdmitted(b, "queued", t)]
         ELSE [row |-> b, ok |-> ControlAdmitted(a, c)]

\* A refused transaction changes nothing.
Commit(j, name, w) ==
    /\ jobs' = IF w.ok THEN [jobs EXCEPT ![j] = w.row] ELSE jobs
    /\ refused' = IF w.ok THEN refused ELSE refused \cup {name}

-----------------------------------------------------------------------------
(* Requests, between passes *)

Serving == up /\ pass = Idle

ImportStart(j) ==
    /\ Serving /\ jobs[j].state = "none"
    /\ Commit(j, "start", Claimed(NoJob, generation, 1))
    /\ order' = Append(order, j)
    /\ UNCHANGED <<evidence, findable, pass, up, generation, bounds>>

JobCancel(j) ==
    /\ Serving /\ jobs[j].state # "none" /\ requests < MaxRequests
    /\ Commit(j, "cancel", Cancelled(jobs[j], Now(jobs[j])))
    /\ requests' = requests + 1
    /\ UNCHANGED <<order, evidence, findable, pass, up, generation, crashes, faults>>

JobRetry(j) ==
    /\ Serving /\ jobs[j].state # "none" /\ requests < MaxRequests
    /\ Commit(j, "retry", Retried(jobs[j], generation, Now(jobs[j])))
    /\ requests' = requests + 1
    /\ UNCHANGED <<order, evidence, findable, pass, up, generation, crashes, faults>>

-----------------------------------------------------------------------------
(* A pass of the executor *)

Pending(j) ==
    \/ jobs[j].state = "queued"
    \/ jobs[j].state = "claimed" /\ jobs[j].fence = generation

\* The oldest pending job.
Chosen(i) ==
    /\ Pending(order[i])
    /\ \A k \in 1 .. i - 1 : ~Pending(order[k])

Working(j) == [Idle EXCEPT !.at = "import", !.job = j]

\* Mutation of NextPending: a job this instance already runs is claimed again.
NextPendingReclaiming ==
    \E i \in DOMAIN order :
        LET j == order[i]  w == Claimed(jobs[j], generation, Now(jobs[j])) IN
        /\ Serving /\ Chosen(i)
        /\ Commit(j, "claim", w)
        /\ pass' = IF w.ok THEN Working(j) ELSE Idle
        /\ UNCHANGED <<order, evidence, findable, up, generation, bounds>>

\* _next_pending: a job import.start left claimed is taken as it stands, a queued
\* one is claimed.
NextPending ==
    \E i \in DOMAIN order :
        LET j == order[i]  w == Claimed(jobs[j], generation, Now(jobs[j])) IN
        /\ Serving /\ Chosen(i)
        /\ IF jobs[j].state = "claimed"
             THEN pass' = Working(j) /\ UNCHANGED <<jobs, refused>>
             ELSE Commit(j, "claim", w) /\ pass' = (IF w.ok THEN Working(j) ELSE Idle)
        /\ UNCHANGED <<order, evidence, findable, up, generation, bounds>>

\* _import refuses (the staged source is gone), or breaks: this attempt fails for
\* good.
ImportFails ==
    /\ pass.at = "import" /\ faults < MaxFaults
    /\ faults' = faults + 1
    /\ pass' = [pass EXCEPT !.at = "settle", !.error = "final"]
    /\ UNCHANGED <<jobs, order, evidence, findable, up, generation, refused,
                   requests, crashes>>

\* Mutation of PublishEvidence: an artifact found is never this job's own.
PublishEvidenceForgetful ==
    LET s == Source[pass.job]  fresh == evidence[s] = None IN
    /\ pass.at = "import"
    /\ evidence' = IF fresh THEN [evidence EXCEPT ![s] = pass.job] ELSE evidence
    /\ pass' = [pass EXCEPT !.at = "barrier", !.created = fresh]
    /\ UNCHANGED <<jobs, order, findable, up, generation, refused, bounds>>

\* _publish_evidence, a transaction of its own: one artifact per staged source,
\* created by this job if its row names it.
PublishEvidence ==
    LET s == Source[pass.job] IN
    /\ pass.at = "import"
    /\ evidence' = IF evidence[s] = None
                     THEN [evidence EXCEPT ![s] = pass.job] ELSE evidence
    /\ pass' = [pass EXCEPT !.at = "barrier", !.created = evidence'[s] = pass.job]
    /\ UNCHANGED <<jobs, order, findable, up, generation, refused, bounds>>

\* _require_findable: the projection is brought level with the workspace ...
RequireFindable ==
    /\ pass.at = "barrier"
    /\ findable' = {s \in Sources : evidence[s] # None}
    /\ pass' = [pass EXCEPT !.at = "settle"]
    /\ UNCHANGED <<jobs, order, evidence, up, generation, refused, bounds>>

\* ... or cannot be, which fails this attempt and may be retried.
NotFindable ==
    /\ pass.at = "barrier" /\ faults < MaxFaults
    /\ faults' = faults + 1
    /\ pass' = [pass EXCEPT !.at = "settle", !.error = "retryable"]
    /\ UNCHANGED <<jobs, order, evidence, findable, up, generation, refused,
                   requests, crashes>>

\* complete_application_job or fail_application_job.
Settle ==
    LET j == pass.job  r == jobs[j]  t == Now(r)
        w == IF pass.error = "none"
               THEN Terminalized(r, generation, "succeeded", "none", pass.created, t)
               ELSE Terminalized(r, generation, "failed", pass.error, FALSE, t)
    IN
    /\ pass.at = "settle"
    /\ r.state = "claimed" /\ r.fence = generation
    /\ Commit(j, "settle", w)
    /\ pass' = Idle
    /\ UNCHANGED <<order, evidence, findable, up, generation, bounds>>

\* run_pending ends the pass on a storage error and records nothing.
PassEnds ==
    /\ pass.at \in {"import", "settle"} /\ faults < MaxFaults
    /\ faults' = faults + 1
    /\ pass' = Idle
    /\ UNCHANGED <<jobs, order, evidence, findable, up, generation, refused,
                   requests, crashes>>

-----------------------------------------------------------------------------
(* The service *)

\* The process dies, in a pass or between two.
Crash ==
    /\ up /\ crashes < MaxCrashes
    /\ crashes' = crashes + 1
    /\ up' = FALSE /\ pass' = Idle
    /\ UNCHANGED <<jobs, order, evidence, findable, generation, refused,
                   requests, faults>>

Stranded(j) == jobs[j].state = "claimed" /\ jobs[j].fence < generation + 1

\* Mutation of Recover: what the dead generation had claimed stays claimed.
RecoverNothing ==
    /\ ~up
    /\ generation' = generation + 1 /\ up' = TRUE
    /\ UNCHANGED <<jobs, order, evidence, findable, pass, refused, bounds>>

\* ServiceRunner._recover under the next generation: all stranded jobs in one
\* transaction; if one of them is refused the start fails.
Recover ==
    LET w == [j \in {k \in Jobs : Stranded(k)} |->
                 Recovered(jobs[j], generation + 1, Now(jobs[j]))]
        ok == \A j \in DOMAIN w : w[j].ok
    IN
    /\ ~up
    /\ generation' = generation + 1
    /\ up' = ok
    /\ jobs' = [j \in Jobs |-> IF ok /\ Stranded(j) THEN w[j].row ELSE jobs[j]]
    /\ refused' = IF ok THEN refused ELSE refused \cup {"recover"}
    /\ UNCHANGED <<order, evidence, findable, pass, bounds>>

-----------------------------------------------------------------------------

PassStep ==
    NextPending \/ PublishEvidence \/ RequireFindable \/ Settle

Request ==
    \E j \in Jobs : ImportStart(j) \/ JobCancel(j) \/ JobRetry(j)

\* A service with nothing pending waits for requests.
Quiescent ==
    /\ Serving /\ \A j \in Jobs : ~Pending(j)
    /\ UNCHANGED vars

Next ==
    \/ PassStep \/ Request \/ Recover
    \/ ImportFails \/ NotFindable \/ PassEnds \/ Crash
    \/ Quiescent

Spec == Init /\ [][Next]_vars

\* Connections keep arriving, and with each one the accept loop runs a pass; a
\* workspace whose service died is opened again.
FairSpec == Spec /\ WF_vars(PassStep) /\ WF_vars(Recover)

-----------------------------------------------------------------------------
(* Properties *)

Attempts == [state : {"running"} \cup Terminal, started : Nat, finished : Nat,
             error : Errors]
Events == [state : JobStates, at : Nat]
Observations == [attempt : Nat, state : Terminal, at : Nat, created : BOOLEAN]
Controls == [operation : {"job.cancel", "job.retry", "system.recovery"},
             disposition : {"cancellation_requested", "not_cancellable",
                            "retry_scheduled", "not_retryable", "recovery_requeued"},
             resulting : JobStates, source : Nat, at : Nat]

\* The rows keep their columns' domains, and no job carries the stamp of a
\* generation that has not been handed out.
TypeOK ==
    /\ \A j \in Jobs :
          /\ DOMAIN jobs[j] = DOMAIN NoJob
          /\ jobs[j].state \in JobStates
          /\ jobs[j].fence \in 0 .. generation /\ jobs[j].clock \in Nat
          /\ \A i \in DOMAIN jobs[j].attempts : jobs[j].attempts[i] \in Attempts
          /\ \A i \in DOMAIN jobs[j].events : jobs[j].events[i] \in Events
          /\ \A i \in DOMAIN jobs[j].observations :
                jobs[j].observations[i] \in Observations
          /\ jobs[j].controls \subseteq Controls
    /\ order \in Seq(Jobs)
    /\ evidence \in [Sources -> Jobs \cup {None}]
    /\ findable \subseteq Sources
    /\ pass.at \in {"idle", "import", "barrier", "settle"}
    /\ pass.job \in Jobs \cup {None} /\ pass.error \in Errors
    /\ up \in BOOLEAN /\ generation \in Nat
    /\ refused \subseteq {"start", "cancel", "retry", "claim", "settle", "recover"}

\* The scheduler row agrees with the history after any crash, recovery, retry or
\* failed pass: one attempt runs exactly while the job is claimed, every other
\* attempt has the one observation of its end, the last event tells the state, and
\* a queued job has an attempt left (_terminalize_application_job,
\* _recover_stranded_application_jobs_locked).
HistoryAgrees ==
    \A j \in Jobs :
        LET r == jobs[j]  n == Len(r.attempts) IN
        r.state # "none" =>
        /\ r.state = "claimed" <=> r.attempts[n].state = "running"
        /\ \A i \in 1 .. n - 1 : r.attempts[i].state = "failed"
        /\ Len(r.observations) = IF r.state = "claimed" THEN n - 1 ELSE n
        /\ \A i \in DOMAIN r.observations :
              /\ r.observations[i].attempt = i
              /\ r.observations[i].state = r.attempts[i].state
              /\ r.observations[i].at = r.attempts[i].finished
        /\ Last(r.events).state = r.state
        /\ r.state = "queued" => /\ r.attempts[n].error = "retryable"
                                 /\ n < MaxAttempts
        /\ r.state \in Terminal => r.attempts[n].state = r.state

\* The history the service writes by itself, and what job.cancel adds to it, always
\* satisfies the lineage triggers: no start, claim, settlement or recovery is
\* refused whatever was cancelled, retried or interrupted before.
ServiceWritesAdmitted == refused \subseteq {"retry"}

\* A job that succeeded has evidence that evidence.search can find
\* (_require_findable), and says it created it exactly when the artifact of its
\* source names it, also if an earlier attempt wrote it and died
\* (_publish_evidence); so one source is created at most once.
CreationReported ==
    \A j \in Jobs : jobs[j].state = "succeeded" =>
        /\ evidence[Source[j]] # None /\ Source[j] \in findable
        /\ Last(jobs[j].observations).created <=> evidence[Source[j]] = j

\* Every started import settles: a crash, a storage error or an exhausted budget
\* never leaves a job claimed or queued for good (run_pending, _recover).
ImportSettles ==
    \A j \in Jobs : [](jobs[j].state # "none" => <>(jobs[j].state \in Terminal))
=============================================================================
