# OmniVia Core: a verification of the service runtime

TLA+ modules, TLC models and TLAPS proofs for the service runtime of OmniVia
Core (`packages/omnivia-core-runtime`). Paths below are relative to
`src/packages/omnivia-core-runtime/src/omnivia_core_runtime/` unless they start
with `src/`.

OmniVia Core is a local service. One process at a time owns a workspace (a
directory with one SQLite database), serves requests over a local socket, and
carries durable work between them. Clients find it through a descriptor file and
start it when it is not there. Everything it promises rests on seven things:

- **one owner**: two processes never write a workspace, also when the first one
  crashed, is stopping, or cannot release something (`Ownership`);
- **one service to talk to**: clients that start it at the same time converge on
  one process, and clean up after one that did not come up (`ManagedStart`,
  `InstallationIdentity`);
- **one effect per request**: a caller that lost an answer may ask again
  (`Mutation`);
- **work that survives**: a job outlives crashes, and its history says what
  happened (`ImportJobs`);
- **agents that can be stopped**: a run of steps survives restarts with its waits
  and claims, and once stopped dispatches nothing again (`AgentRuntime`);
- **one material effect**: what an agent does to the outside world happens at most
  once, and what is not known is not guessed (`MaterialDispatch`);
- **documents that are read**: an admitted document is extracted once, with the
  exact models it was admitted against, and nothing that derives from it is lost
  (`DocumentCapture`).

## 1. Inventory

| component | state | operations | hard behaviour | what makes it correct | module |
|---|---|---|---|---|---|
| runner and lifecycle (`service/runner.py`, `service/lifecycle.py`, `service/main.py`) | lifecycle state, resource stack, generation | start, drain, stop, unwind | a failure in any start step; releases that fail or are blocked by a running listener; death anywhere | ready only as full owner; a stop leaves nothing claimed; start and stop end | `Ownership` |
| storage lock (`ownership/locks.py`) | flock | acquire, release | lost with the process | one holder | `Ownership` |
| lease and fencing generation (`ownership/lease.py`) | lease row, workspace state row | acquire, release, current authority | a lease left by a dead owner; a generation reused | generations never shared, never reused | `Ownership` |
| guard and fenced transactions (`ownership/fencing.py`, `storage/connection.py`) | guard row, triggers | open, close, validate, begin, commit, abort | authority lost between begin and commit | writes in generation order | `Ownership`, `FencedLog` |
| migration runner (`storage/migrations.py`) | applied migrations, attempt journal | begin, apply, fail, settle | crash between journal and settlement | an interrupted migration is seen, and recovers | `Ownership` |
| discovery descriptor (`ownership/discovery.py`) | one file | publish, discover, compare and clean | compare, then unlink | nobody withdraws another's descriptor | `Ownership`, `ManagedStart` |
| transports (`service/transport.py`) | listener thread, gate | accept, serve, stop | a request in flight at stop | in-flight work ends before resources go | `Ownership`, `ImportJobs` |
| managed start (`service/managed_start.py`, `service/bootstrap.py`) | bootstrap mutex, child process | probe, spawn, poll, dial, time out, terminate, clean | stale probes; one endpoint that answers for every descriptor; a deadline racing readiness; a killed launcher | one spawn; nothing left behind; every start returns | `ManagedStart` |
| installation identity (`ownership/identity.py`) | one file | load or create | overlapping starts; death between file operations | one identity, never partial | `InstallationIdentity` |
| mutation seam (`service/mutation.py`, migrations 0007 and 0013) | claims, outcomes, executions | issue grant, execute, replay | lost answers, crashes, expiry, revoked authority | one effect; the same answer; honest refusals | `Mutation`, `IdempotentRegister` |
| import jobs (`service/import_execution.py`, `service/jobs.py`, `storage/jobs.py`, migrations 0010, 0015, 0036) | scheduler row, attempts, events, observations, controls, evidence | start, pass, settle, cancel, retry, recover | crash between evidence and settlement; any sequence of controls against the lineage triggers | row and history agree; the creator reports the creation; every import settles | `ImportJobs` |
| agent runtime (`service/runtime_scheduler.py`, `runtime_waits.py`, `runtime_recovery.py`, `storage/runtime_stop.py`, `handlers/workflow.py`) | job, run, steps, attempts, waits, effect heads, stop request | start, claim, resume, complete, fail, wait, resolve, cancel, recover | two recovery passes over one job; a stop between any two transactions; late and repeated settlements | a stop opens nothing; run and job tell one story; claims and waits survive; the finished stays finished | `AgentRuntime` |
| material effects (`service/material_dispatch_safety.py`) | effect ledger, latch, journal, fence | authorize, dispatch, settle, latch, reconcile | rival attempts; a call that raises after the effect landed; uncertain commits; stale fences | the effect at most once; true and final answers; a latched attempt issues nothing | `MaterialDispatch` |
| generic job queue (`service/jobs.py`) | job rows | claim, heartbeat, complete, fail, recover | attempt count read outside its transaction | | no caller outside the tests |
| document intake and processing (`service/document_intake.py`, `document_processing.py`, `processing_settings.py`, `handlers/document_capture.py`, `storage/document_intake.py`) | captures with their frozen resources, outbox, extraction revisions, heads, derived knowledge | capture, reprocess, pass, admit, extract, complete, derive, settle | three transactions per obligation and a crash between any two; a reprocess that overtakes a running extraction; a page read where a set is meant | a settled capture owes nothing; every admitted one settles | `DocumentCapture` |
| OCR resource lifecycle (`service/ocr_resource_lifecycle.py`) | state document (entries, pins), payloads, selection leases | install with eviction, remove, reconcile, pin, assert, lease, release, reclaim | other processes use the cache while work is queued; a pin outlives the transaction it was for | what unresolved work is to execute with stays | `DocumentCapture` |
| chat | turns, generations | submit, generate, cancel | late results | | later |
| installation store, backup, blobs | files and a control database | | crash between file operations | | later |

Components meet in shared state, never in messages of their own: the operating
system's lock and the database rows tie the service instances together; the
descriptor file and the bootstrap mutex tie launchers to instances; one gate
makes requests and background passes of one instance exclude each other; a crash
leaves what was committed to the next owner. `PROJECT.json` lists every
component, the ones that are not modelled with their reason, and the hazards at
the lines where they bite.

## 2. Modules

### Ownership, FencedLog, OwnershipProofs

An *instance* is one service process with its own `ServiceInstanceIdentity`; it
starts at most once. `pc` is where its main thread is in `ServiceRunner.start`,
`stop` or the unwinding of the resource stack; `txn` is its listener thread.
`lock` and `conn` are what the operating system holds for a process and drops
when it dies; `stateGen`, `lease`, `guard`, `applied`, `attempts` and `writes` are
database rows; `descriptor` is the file.

| code | actions |
|---|---|
| `ServiceRunner._start`, in its order | `Start`, `AcquireStorageLock`, `OpenDatabase`, `AcquireLease`, `BeginMigration`, `ApplyMigration`, `FailMigration`, `SettleMigration`, `EnterRecovery`, `OpenGuard`, `Recover`, `FindInterrupted`, `StartTransport`, `ServeInProcess`, `PushAdmission`, `Publish`, `PublishReadiness`, `RefuseReadiness` |
| refusals and failures of it | `Refused`, `Refuse`, `StartFault` |
| `fenced_transaction` on the listener thread | `AcceptRequest`, `BeginWrite`, `CommitWrite`, `AbortWrite` |
| `drain`, `stop`, `ResourceStack.unwind` | `Drain`, `Stop`, `CompareDescriptor`, `UnlinkDescriptor`, `ReleaseAdmission`, `ReleaseTransport`, `ReleaseGuard`, `ReleaseLease`, `ReleaseConnection`, `ReleaseLock`, `FailEnds`, `CleanAfterFailure`, `StopEnds`, `StopBlocked`, `RetryStop` |
| end of the process | `Exit`, `Crash` |

Comparing a descriptor and unlinking it are two steps, as in the code. A release
may fail (the code swallows it and goes on), and a transport whose listener is
still running blocks the unwinding (`ResourceReleaseBlocked`).

Two remarks from the source. `runner.py` comments "5. Migrations, then the
generation, then recovery" where the code takes the generation first; the model
follows the code. `evaluate_takeover` has no caller outside the tests: who may
take over is decided by the storage lock, never by the age of a lease, so lease
time is not modelled and a failed renewal is only the `Stop` it leads to.

`FencedLog` is the abstract specification: an epoch, an owner, and a log to which
only the owner of the current epoch appends. `Ownership` implements it with
`LeaseOwner` (the lease row, while held) as its owner, `stateGen` as its epoch,
`gen` as the epoch of each owner and `writes` as its log.

### ManagedStart, ManagedStartProofs

Extends `Ownership` with launchers: `Discover`, `ProbeFirst`, `TakeMutex`,
`ProbeAgain`, `Attach`, `Retry`, `TimeOut` (`coordinated_startup` and the attach
loop), `Spawn`, `SpawnFails`, `Poll`, `DialAdvertised`, `Expire` (the wait),
`Terminate`, `Reap`, `Kill`, `CompareChild`, `UnlinkChild` (the cleanup) and
`Interrupt` (the launcher is killed). Every instance is the child of one launcher or
one of the `Predecessors`, of which one may have served and died, its descriptor left
behind, before the first launcher looks (`CrashedBefore`); services that an operator
runs beside them are not in this model. `Incompatible` names instances of another build.

All services of a workspace listen at one address, which the client derives from the
workspace (`omnivia-core-client`, `managed_local.py:312-335`), and a service binds over
the socket of a dead one (`service/transport.py:828-862`). So what a launcher dials is
not the instance its descriptor names but whoever is bound by then (`Bound`), and
reading the descriptor and dialling are separate steps:

- `DialedReady`: `_dial_readiness` compares the workspace, the correlation id and the
  authorization of the answer, not the instance or the pid. Any bound service that is
  ready answers for any descriptor. A dial may also fail at any time (its timeout).
- `SeemsLive`, `SeemsGone`: `_live` asks whether the pid exists and the endpoint
  accepts a connection. The pid of a dead service may be there still (not reaped) or
  again (reused), so either answer is possible for it while somebody is bound; for a
  running service with a listener the answer is yes, except that a full listen queue
  (`UNKNOWN`) counts as no. `Overloaded` names the instances that may have one.

`CompareChild` takes the pid in the descriptor for the child's; a reused pid is not
in this one comparison.

### InstallationIdentity, InstallationIdentityProofs

`load_or_create` file operation by file operation (`Look`, `OpenTemporary`,
`WriteTemporary`, `Replace`, `Reread`), with inodes, since an open file keeps its
inode through a rename. It runs before the storage lock is taken, so
`Overlapping` says whether starts may overlap.

### Mutation, IdempotentRegister, MutationProofs

`Deny` and `Grant` are `issue_mutation_grant`; `Enter`, `FindClaim`, `Replay`,
`Unservable`, `CommitReplay`, `CheckPrecondition`, `Mutate`, `MutateFails`,
`Commit` and `Answer` are `execute_mutation` with its one transaction; every check
of the grant's window in it may find it `Expired`. Callers (`Send`, `GiveUp`) send
a request again under its key until they may settle, as `CLICaptureDelivery.swift`
does: an access refusal is held, a marked refusal is unknown, any other refusal is
final. The one serving thread takes connections in their order. A request is a
key, a fingerprint, the fingerprints an older Core gave its spellings (aliases that
answer a claim and are never stored; a workspace may start with such a claim) and
the record version it requires; all mutations change one record, whose version is the
number of effects. A grant is issued for one request and presented once, so the
check for a spent grant cannot fail and is left out; who owns the workspace is
`Ownership`'s subject.

`IdempotentRegister` is the abstract specification: a record, and the last answer each
caller heard. A request is applied while its key is free and the record has the version
it requires; a caller that has not settled may hear where its request was applied, that
another one has its key, that its version is not the record's, that it was refused
without effect, or nothing of the record, each only while it is true. `Mutation`
implements it with `effects` as the record and `answer` as what was heard: no
transaction, claim, grant, connection or crash is left.

### ImportJobs, ImportJobsProofs

A job is the rows the code keeps for it: the scheduler row (`state`, `fence`), the
attempts, the events, the terminal observations and the controls. `Claimed`,
`Terminalized`, `Recovered`, `Cancelled` and `Retried` build the rows of a
transaction; `AttemptAdmitted`, `ClosingAdmitted`, `EventAdmitted`,
`ObservationAdmitted` and `ControlAdmitted` are what the triggers and checks of
migrations 0010, 0015 and 0036 say of each row at the moment it is inserted, and a
transaction with a refused row commits nothing and is noted in `refused`. The
executor's pass (`NextPending`, `ImportFails`, `PublishEvidence`,
`RequireFindable`, `NotFindable`, `Settle`, `PassEnds`) commits claim, evidence and
settlement separately; `ImportStart`, `JobCancel` and `JobRetry` come between
passes, because the gate keeps them out of one; `Crash` comes anywhere and
`Recover` is the next owner's start.

Each transaction reads a later instant than the one before (`Now`). Two controls
in one microsecond, or a wall clock that steps back, are not modelled: the code reads
wall time and has no defence a property could be about. The state `cancelled`, checkpoints and resume have no
production caller. The staged-source error that is retryable after a delay is
`final` here: nothing schedules the delay.

### AgentRuntime, AgentRuntimeProofs

A *run* is an instance of a plan of steps, carried by one durable job. Every
operation of the code is one fenced transaction, so every action is one commit; the
conditions of a refusal, the triggers' included, are conjuncts of the action they
prevent.

| code | actions |
|---|---|
| `workflow.start` | `StartRun` |
| `RuntimeScheduler` | `ClaimNext`, `ResumeClaim`, `CompleteStep`, `CompleteRun`, `FailRetry`, `FailRun`; `OpenAttempt` is the part they share |
| `open_runtime_wait`, `resolve_runtime_wait` | `OpenWait`, `ResolveWait` |
| `workflow.control` cancel | `CancelFinished` (nothing was left to stop), `CancelPending` (an effect owes an answer: the stop is recorded and the run is `uncertain`), `CancelRun` (everything is closed in one transaction) |
| `ServiceRunner._recover` | `RuntimePass` (`recover_runtime_startup`: adopts suspended runs, closes and requeues orphaned attempts, leaves stops and contradictions alone), then `Sweep` (`recover_stranded_application_jobs`) |
| the process | `Exit`, `Start` |
| the effect ledger | `DeclareEffect`, `RecordEffect` |

`claims` are what this process has handed to workers: a worker may settle its claim
late or twice. `lineage` is the claim that the latest event of the run names, which
the completion trigger of migration 0066 compares. The effect ledger has no writer
in the repository; its rows appear as the triggers of migrations 0023 and 0024 let
them, and a run has one effect at most, enough to keep a stop waiting. The status
`partially_completed` is never written. Deadlines, policies, signals and artifacts
are data of refusals and left out.

### MaterialDispatch, MaterialDispatchProofs

One effect and the attempts that may issue it, each with a coordinator.
`dispatch_material` is cut at each call to a collaborator: `Authorize`, `ReadState`,
`CommitIntent`, `ClaimEffect`, `DispatchEffect`, `CommitReceipt`, `SettleEffect`,
`WriteLatch`. The store, the journal and the effect are arguments of the code and
have no production implementation in the repository; they are modelled by their
protocol: a stale fence is refused, compare-and-set is atomic, a commit succeeds,
fails or is uncertain, and a call that raised may have landed, be lost, or be under
way (`Land`, `Lose`). `Examine` and `Reconcile` give the answer of someone outside,
on evidence that was true when it was taken. `AgentRuntime` sees the same effect
from the other side, as the head that a stop waits for.

### DocumentCapture, DocumentCaptureProofs

Captures of one document, the worker that extracts them, and the managed cache of
OCR resources that administrative processes share with the service. A resource is
one exact identity of one unit of capacity.

| code | actions |
|---|---|
| `document.capture` | `BeginCapture` (`admitted_resources` pins the selection, or nothing), `CommitCapture` (capture and outbox row), `RollbackRequest` |
| `document.reprocess` | `BeginReprocess` (leases what is present), `CommitReprocess` (revision, result and head in one transaction) |
| `DocumentProcessingExecutor.run_pending` | `Sweep` (`reclaim_capture_pins`), `ReadPage` |
| `_process_obligation`, `_execute_obligation` | `AssertPinned`, `TakeLease`, `AdmitRevision`, `Complete`, `Derive`, `Settle`, `Release`; a failed transaction ends the pass (`AbortPass`), an unreadable cache or a missing pin skips the row (`SkipObligation`, `NextObligation`) |
| `ManagedOcrResources` | `Install`, `Remove`, `Reconcile` |
| outside | `Crash`, `Start`, `LoseBytes` (a payload is deleted, or its length is changed, on disk) |

A handler holds `runner.sqlite_gate` for its whole request, and the worker from
`complete_extraction` to the settlement and within each other step on the database;
`GateFree` is that. Extraction runs outside it, so a reprocess may move the head
under it. An operation on the cache is one step under its coordination lock. The
dispositions that do not promote (`not_published`, `historical_only`, `superseded`)
are one, `withheld`. Revisions of an obligation carry its operation key: the capture
and the resources it was served, since the profile digest differs between served and
unavailable resources and otherwise depends on frozen columns alone.

Left out: bytes that no entry names (nobody reads them); the capture head, which no
step of an extraction reads; retention and source removal, which have no production
caller; originals and their bindings; the packaged models, which nobody can evict;
the refusal `LanguageStorageFull`, which leaves everything as it was; the pause
of a capture whose profile another build resolves differently; and a payload replaced
by one of the same length, which the code takes for present, since it compares lengths
alone (`Present`). A revision counts as derived once its derivation has been run:
`DocumentKnowledgeRefused` is suppressed and leaves no knowledge, and the obligation
settles all the same.

## 3. Runs

`tlc -config X.cfg M` in this directory.

| run | what it shows | bounds |
|---|---|---|
| `ownership` | ownership is exclusive, writes are in generation order, no takeover under an open transaction, and all of it refines `FencedLog`; starts conclude and unwinding frees the workspace | 2 instances, 1 migration, 3 writes, 2 crashes, failing start steps and releases; 59,577 states |
| `identity_serial` | one whole identity over starts that do not overlap | 4 processes, 3 deaths |
| `managed` | no launcher spawns next to a service another one is responsible for, unless it cannot be seen: that launcher was killed, the service's listen queue is full, or, after a disturbance, that launcher returned another descriptor than its child's; a failed managed start leaves no process, lock or descriptor; a stop whose releases succeed leaves no claim of its own; every managed start returns | 2 launchers, one of which may be killed, deadlines that may pass, 2 children, one of another build and overloaded, a predecessor that may have died and left its descriptor, failing start steps, 2 crashes; 257,033 |
| `import` | scheduler row and history agree; no trigger refuses what the service itself writes; a job that succeeded is findable, and exactly the one the artifact names reports its creation; every started import settles | 2 jobs, one source, 2 attempts, 2 requests, 1 crash, 2 faults; 79,645 |
| `mutation_once` | one effect per key, together with its claim, outcome and record; a result is the result of the caller's own effect; a failure a caller settles on had no effect; all of it refines `IdempotentRegister`, which also excludes a lost update; a caller that keeps asking settles, or is told for ever that it has no access or that the outcome cannot be established | 3 requests on 2 keys, every refusal, 1 lost answer, 1 crash, with and without a claim of an older Core; 145,000 |
| `runtime` | run and job tell one story; a stop opens no attempt and survives restarts; retries and recoveries stay within a common bound; suspensions survive; what a service holds it can resume; the cancelled holds nothing and the succeeded is complete; the finished stays finished | 1 run of 3 steps, two of them ready together, 2 attempts, 2 waits, 3 services; 100,192 |
| `dispatch` | the effect is applied at most once; the ledger's answers, an offer to issue included, are true and final; calls return | 2 attempts with 2 calls each, 1 retry, 2 takeovers, 1 reconciler; 210,568 |
| `documents` | an unresolved capture holds its exact pin and nothing held leaves the cache; a settled capture has its one completed revision, and the derivation from it was run; every admitted capture settles | 2 captures, 1 reprocess, 2 identities in a cache with room for one, pages of 2, 1 fault of any kind (a crash, a failed transaction, sweep or release), 1 lost payload; 455,964 |

*Bounds.* Two instances with two crashes leave a stale lease and a stale descriptor
of another process to a newcomer; the safety properties are proved for any number.
Two attempts and two requests with a crash reach the orders of cancel, retry and
recovery in which the budget of a job runs out. One lost answer and one crash
already produce an old copy of a request in front of a new one, and a retry of a
committed mutation; the conflicting request and the second key supply the change in
between. Three services are two restarts: the second one meets what the first one's
passes left behind; the fork in the plan makes two steps ready at once. Runs meet
only in the order of `ClaimNext`, so the run has one of them; two runs of one step
(1.5 million states) and of two steps (5.8 million) were checked once with the same
outcome. In `dispatch` each attempt can be latched, rebuilt under a new fence and
asked again while the other one is anywhere in its call. In `documents` the one fault
falls anywhere in a pass, the reprocess anywhere around it, and installing the second
identity evicts the first whenever nothing holds it; a second fault only repeats a
replay. The two invariants are proved for any number of each.

Deadlock is not checked in `ownership`, `runtime` and `dispatch`: every
instance starts once, starts, calls and waits are bounded, and a finished system
may rest. The other modules state where they may rest (`Settled`, `Quiescent`) and
are checked for deadlock; in `documents` an administrator can always reconcile, and
that the work itself does not stop is `CapturesSettle`.

*Fairness.* `Ownership`: weak fairness of the main thread's start and unwinding,
of the listener thread and of process exit, since each is straight-line code on a
thread of its own; nothing is assumed of requests or of stop. `ManagedStart`: weak
fairness of launcher steps, and strong fairness of the two deadlines,
because the check of the clock is not always enabled but monotonic time passes;
nothing of the services, so a child may hang anywhere.
`ImportJobs`: weak fairness of the pass, which runs around each served request, so
this says that connections keep arriving, and of the next start after a crash.
`Mutation`: weak fairness of the service's steps, of its restart and of callers
that have no answer, and strong fairness of taking a queued request, because the
one serving thread accepts connections in their order. `MaterialDispatch`: weak
fairness of the steps of a call, which is sequential code; nothing is assumed of
the world, of takeovers or of reconcilers. `DocumentCapture`: weak fairness of a
request that has begun, of the worker's steps and of the next start; the worker runs
on the service's main loop, and requests, being bounded, leave it the gate. Nothing
is assumed of clients, administrators or faults.

Each property of a passing run is broken by a mutant of the code listed in
`PROJECT.json`; the mutated definitions stand before the ones they mutate.

### Where the code departs from what it says

Each of these is a run whose property states a comment, document or contract of
the repository, and whose counterexample is what the code does; `PROJECT.json`
quotes the lines.

| run | the code |
|---|---|
| `ownership_migration_crash` | a migration attempt left `started` by a crash is counted by every later start and settled by none: the workspace is never ready again |
| `identity_overlap` | overlapping starts share one temporary name and can return two identities (the same race can return an empty one) |
| `runtime_stop_sweep` | what the runtime pass leaves alone, a run with an unsettled stop, the sweep after it requeues without closing its attempt: the next start finds a contradictory history |
| `runtime_resume` | a run whose last step waited cannot be completed: the event that resumes it does not name the claim, and the completion trigger requires that it does |

Further remarks, visible in the actions but without a run of their own.
An accepted cancellation of a queued import is recorded and never read by the
executor: the job runs on and may succeed, where `jobs.schema.json` says "the job will
stop".
If the bytes of a frozen resource are lost between two passes over a capture, the
second one has another profile and so another operation key: the capture gets a second
revision, and if the first was promoted and its derivation cut off, nothing owes its
knowledge any more. `SettledIsComplete` therefore speaks, in its second half, of
captures whose resources were never lost.
`job.retry` of a job that recovery has queued aborts on the event trigger of
migration 0015 where the contract (`jobs.schema.json`) promises `not_retryable`;
`ServiceWritesAdmitted` allows exactly this one refusal.
A worker may settle its claim while the step is suspended (`MaySettle` reads the job
and the attempt, not the wait): the wait stays open over a step that has moved on,
and the startup pass reports the run as contradictory (`Abandoned`).
`ClaimNext` chooses the oldest claimable run before it looks at its stop, so a
stopped run whose job the sweep has queued makes every poll raise, and the runs
behind it wait.
With two reconcilers `Reconcile` cannot tell the `issued_unknown` it examined from
that of a later claim: an aged proof that the effect was not applied reopens one
that was. So `AppliedOnce` and `AnswersAreTrue` are checked and proved for one
reconciler at a time (`SoleReconciler`), which the code leaves to its callers: nothing
covers an effect that was claimed again since a reconciler looked. What the comment at
`material_dispatch_safety.py:508-513` claims, that a stale read is not written over
`settled_applied`, holds for any number of them (`DispatchAnswersFinal`).
`drain()` changes the lifecycle state alone, and `AcceptRequest` does not read it:
a draining service still admits mutations, although `service/lifecycle.py:40` says
it "admits nothing new". `Expire` stops a child that may have become ready since
the last `Poll` and may be in use. `DialAdvertised` ends the wait for a child on any
descriptor and a ready answer from whoever is bound. After a crash the descriptor is the
dead predecessor's, and the launcher's own child, ready and not yet published, answers
for it: the launcher returns `started` with a dead instance's descriptor and frees the
mutex, and the next launcher, which rediscovers that dead pid, spawns beside the
serving child; the storage lock then refuses its child. The docstring of
`_dial_readiness` says that "a service that is gone answers nothing at all". In the same
way the orphan of a killed launcher is returned as the service this launcher started.
`SpawnsAlone` excepts both, and `StartedOwnChild` says what is left. A live
service whose listen queue is full is taken for gone and spawned beside. `CompareChild` and
`UnlinkChild` are two steps, between which a service outside managed start may
publish. And `Deny` precedes `FindClaim`: a retry whose role has been withdrawn is
refused without the mark although its effect is committed, against
`service/mutation.py:432`; callers hold such a request instead of settling it,
which is what `SettledFailureHadNoEffect` relies on.

## 4. Proofs

Eight modules hold theorems, each for every value of its constants.

### OwnershipProofs

The theorems hold for any set of instances and any number of
migrations, writes and crashes, with any faults. The assumptions are those on the
constants: `None` is no instance, bounds are natural numbers, faults are of the
two kinds.

- `TypeCorrect`: the type invariant.
- `OwnershipInductive`: the inductive invariant.
- `ReadyOwner`, `WritesOrdered`, `GenerationOwned`: the invariants
  `ReadyMeansOwner`, `WritesInGenerationOrder` and `GenerationsUnique`.
- `TakeoverWaits`, `WithdrawsOwn`: the action properties
  `NoTakeoverUnderOpenTransaction` and `OnlyOwnDescriptorWithdrawn`.
- `FencedRefinement`: `Ownership` implements `FencedLog`.
- `StopLeavesNothing`: `StopLeavesNoClaim`, if no release fails.

None of the properties is inductive. That writes are in generation order needs
that the author of an open transaction holds the newest generation, which needs
that nobody can take a generation meanwhile, which needs that the transaction's
owner still holds the connection, which needs the order of the resource stack: a
lock or connection is released only above everything pushed after it, and the
transport's release waits for the listener. `OwnershipInv` is this chain as named
parts:

| part | says |
|---|---|
| `PointsInv` | which resources are on the stack at each point of the main thread, and that no generation is held before the lease |
| `NestedInv` | a resource rests on every resource acquired before it |
| `HeldInv` | who has lock or connection on its stack holds it |
| `RequestInv` | a request is in flight only over a listener, or inside an in-process call |
| `AuthorityInv` | a lease or guard entry on a stack stands for a row that names the instance at the newest generation |
| `SchemaInv` | with a guard no migration is pending, and past recovery none is interrupted |
| `DescriptorInv` | a descriptor about to be unlinked is the instance's own, or already gone |
| `GenerationInv` | generations in use are distinct and at most the stored one |
| `LogInv` | each write's generation is its author's and not newer than the stored one; the log is in order |

There is one lemma per part (`HeldStep`, `NestedStep`, ..., `LogStep`): it takes
the whole invariant and one step, with a case for each action, and shows the part
afterwards. `TopFacts` and `SoleHolder` are the two facts on which most cases
rest: what the top of a nested stack is, and that lock and connection have one
holder.

`StopLeavesNoClaim` is about the other direction, what still speaks for an instance
whose stack is empty. `ClaimedInv` is the converse of `HeldInv` and `AuthorityInv`: a
lock, connection, guard row, unreleased lease or descriptor that names an instance is
on its stack, unless it died. It is inductive with `OwnershipInv` if no release fails,
which is the hypothesis of the theorem: a failed release is swallowed by the code and
leaves the claim.

### ManagedStartProofs

For any set of launchers, each with a child of its own, any of which may be killed,
run out of time, be of another build or overloaded, any predecessors and any faults.
First, the services: the launchers find either the initial state of `Ownership` or what a
crashed predecessor left, which satisfies the same invariants (`CrashedInit`); every
step of a launcher is a step of `Ownership`, a death by signal or the withdrawal of a
descriptor (`LaunchMoves`), and the last two keep `OwnershipInv` and `ClaimedInv` as
well. So `LaunchedReadyOwner` and `LaunchedStopLeavesNothing` carry the guarantees of
`Ownership` over to the composition; `DescriptorInv` speaks of a descriptor that may
be gone because a launcher may have removed it.

Then the launchers: `LaunchTypeCorrect`; `FailedStartClean`
(`FailedStartLeavesNothing`); the action property `SpawnAlone` (`SpawnsAlone`); and
`StartedOwnChild`: while nothing is disturbed, what a launcher returns as started is its
own child (`StartedIsOwnChild`). `Undisturbed` says that no service has crashed, no
launcher was killed, no overloaded service was started and no release fails; without any
one of these a descriptor or a listener may be there that is not the child's. `Effects`
says what a step of a service can mean to a launcher; all later lemmas use it instead of
the forty-one actions. The invariant `LaunchInv`:

| part | says |
|---|---|
| `OwnershipInv`, `LaunchersOK` | the services' invariant, the launchers' types |
| `MutexInv` | a launcher between taking the bootstrap mutex and leaving its block holds it |
| `LockInv`, `ServingInv` | the storage lock is held by a running process; a service that serves has its descriptor out, and one whose stop is blocked has withdrawn it |
| `PredecessorInv` | a predecessor never starts, and if it ran it crashed |
| `ChildInv` | no child before `Popen`; a dead child before its descriptor is compared, and after every return but `started` |
| `AdoptInv` | a child that its launcher read in the descriptor keeps it until it withdraws it, and once it was returned as started no other launcher gets past its second discovery beside it, unless its listen queue was full |
| `ClaimedInv` | while releases succeed, what a service claims is on its stack |
| `StaleInv` | while nothing is disturbed, a dead and advertised child has a launcher that is about to clean up after it |
| `OwnInv` | while nothing is disturbed, a waiting launcher reads its child's descriptor or none, and returns its child's |

A spawning launcher holds the mutex, so no other is waiting for its child; those
that have not spawned have none; those that failed have a dead one; and beside one
that was returned as started under its own descriptor and still serves, the second
discovery finds it alive (`AdoptInv`). What is left are killed launchers, overloaded
services, and launchers that returned another descriptor than their child's and so left
it unobserved. That the last takes a disturbance is `OwnInv`: a descriptor other than
the child's would be that of a live service, which the lock excludes once the child is
bound, or of a dead one, which by `StaleInv` its own launcher is still holding the mutex
to clean up after.

### AgentRuntimeProofs

For any number of runs and steps, any plan in topological order and any bounds:
`RuntimeTypeCorrect`; the invariants `StopFreezes`, `FinishedClosed`,
`ClaimsAreResumable`, `RunAndJobTellOneStory` (`RunAndJobAgree`) and
`AttemptsAreBounded` (`AttemptsBounded`); the action properties
`StopInhibitsDispatch`, `SuspensionIsKept` and `FinishedIsFinal`. The assumptions are
that bounds are natural numbers and that a step requires only earlier ones.

That a finished run never changes needs that its job is finished too: a claim,
a recovery and a sweep look at the job and never at the run. That a cancelled run
holds nothing needs that an open attempt belongs to an active run, and that no
later settlement by a worker that still has a claim is admitted. `RuntimeInv` is
the conjunction that is inductive (`RuntimeInductive`):

| part | says |
|---|---|
| `AbsentHasNoJob` | a run that was not started has no job, step or attempt |
| `ClaimsOfGeneration` | no job is claimed at a newer generation than the service's, and while serving none at an older one |
| `OpenIsActive` | an open attempt is on an active step of an active run |
| `SucceededWasAttempted` | a step succeeded only after an attempt |
| `JobSucceedsWithRun` | job and run succeed together |
| `StopFreezesRun`, `CancelledHoldsNothing`, `SucceededIsComplete` | the properties themselves; the last two are `FinishedIsClosed` |

Each part has a lemma with a case for each action that can disturb it.

Three more parts are inductive on top of it (`AgreementInductive`). `AttemptBudget`
counts: a claim spends an attempt of the job for one of a step, a retry one of the
step's, so a step's attempts stay below the sum of both, and a pending step under a
claim has one to spare. `Agreement` is what a run and its job have in common as long
as no wait was abandoned: at most one open attempt, the wait suspends it, a claim has
one, and both finish together; the last two are suspended by a stop, which nothing
repairs. `SweptClean` is why the sweep does not break it: the runtime pass before it
leaves only stopped and abandoned runs with an old claim.

### MaterialDispatchProofs

For any set of attempts, any retry limit and any number of takeovers and calls:
`DispatchTypeCorrect`; `LatchHolds` (a latched attempt has no call under way and
begins none; no run states it) and `DispatchAnswersFinal` (`AnswersAreFinal`), both with
any number of reconcilers; and, with one reconciler at a time, `DispatchSafe`
(`AppliedOnce`) and `DispatchAnswersTrue` (`AnswersAreTrue`). `DispatchInv` ties the
ledger to the calls: a claim follows an offer (`ClaimsFromOffer`), an effect on offer
is untouched (`OfferIsUntouched`), one call at most is between claim and settlement
(`DispatcherIsAlone`), a receipt is evidence (`ReceiptIsEvidence`), what is settled was
applied (`SettledIsApplied`), and the verdict a reconciler carries is still true when it
is recorded (`VerdictsHold`). The last part is what fails with two reconcilers.

### DocumentCaptureProofs

For any captures, identities, selections, capacity, budget and bounds:
`CaptureTypeCorrect`, and `ResourcesHeld` (`HeldResourcesStay`). `HeldInv` adds what
the pin's life needs: outbox sequences are distinct and only admitted captures have one
(`SequencesOrdered`), the worker's page holds admitted captures (`PageAdmitted`), a
request for a capture that is not yet admitted has its selection pinned (`DraftPinned`,
the reason why the sweep may not run inside a request), and a pin is released for a
settled row only (`ReleaseIsSettled`).

`SettledComplete` (`SettledIsComplete`) holds for the same constants. Neither the row of a
settled capture nor the head it is compared with is written by the settlement, so the
invariant `SettleInv` follows the obligation through its steps, and through the replay
of any of them:

| part | says |
|---|---|
| `KeysUnique` | an operation key names one revision |
| `RowsServed`, `WorkerServed` | a revision, and the worker's row, are with what the capture froze, unless some of it was lost; this rests on `HeldResourcesStay` (`MissingWasLost`) |
| `PagePending` | a settled row is in the worker's page only while it is released |
| `StageRow` | the open revision while extracting, the completed one from then on, its derivation run before the settlement |
| `HeadNewest` | no promoted revision is newer than the head |
| `SettledRow` | what a settled capture shows, and that it gains no result any more (`SettledGainsNothing`) |

`RevisionFrame`, `WorkerFrame` and `SettledFrame` say who writes what; `ReprocessRow`,
`AdmitRow` and `CompleteRow` say what the three writers of revisions do.

### InstallationIdentityProofs

For any number of processes and deaths, if starts do not overlap: `SerialOneIdentity`
(`OneIdentity`) and `SerialWholeIdentity` (`NoPartialIdentity`). That they do not
overlap is a hypothesis of the theorems, because nothing in the code ensures it;
`identity_overlap` is what happens otherwise. `IdentityInv` says that one process is
inside `load_or_create` (`OneInside`), that from its look to its rename it alone touches
either name and renames a file that is written (`CreatorAlone`), and that the name
refers to a whole id (`NameIsWhole`), which is what was returned (`ReturnedIsNamed`).

### MutationProofs

For any requests, keys, fingerprints, refusals and any number of losses and crashes:
`OneEffectPerKey` (`EffectOnce`), `ResultsAreTheEffects` (`AnswersAgree`),
`NoLostUpdate` (`EffectsAtRequiredVersion`), the action property
`SettledFailuresAreTrue`, and `RegisterRefinement`: `Mutation` implements
`IdempotentRegister` (`ImplementsRegister`). The assumptions: `None` is neither a request, a version nor a
fingerprint, and a required version is a number. None of the invariants is inductive:
that a commit finds its key free and its version current is what an earlier step of
the call has read. `MutationInv` ties the call to the tables:

| part | says |
|---|---|
| `EffectClaimed` | an effect's key has its fingerprint as claim and its position as outcome |
| `ClaimExecuted` | a claimed key has its effect and exactly one record that executed it |
| `CallCurrent` | what the call has read at its point is still so |
| `AnswersStored` | a result that was heard is the stored one, under an accepted spelling |
| `EffectsAtRequiredVersion`, `TypeOK` | no effect on another version than the required one, and the tables' domains |

The refinement adds `WaitingUnsettled` (whoever waits has not settled): a step writes
the tables or is heard, never both (`DurableStep`, `AnswerStep`), a commit is `Apply`,
and what is heard goes to one caller that was waiting (`CallersStep`) and is true of
the record because the claim and outcome it was read from are (`AppliedIsClaimed`).

`DurableStep` says that a step leaves the tables alone, records a replay or commits;
`AnswerStep` says what is so of the tables when a caller hears something.

### ImportJobsProofs

For any jobs and sources, any attempt budget and any number of requests, crashes and
faults: `HistoryTrue` (`HistoryAgrees`), `WritesAdmitted` (`ServiceWritesAdmitted`) and
`SuccessReported` (`CreationReported`). The assumptions: `None` is no job, the budget is
not zero. The argument is about one row: each transaction (`StartRow`, `ClaimRow`,
`SettleRow`, `RecoverRow`, `CancelRow`, `RetryRow`) takes a row with `RowInv` to one with
`RowInv`, and all but a retry are admitted.

| part of `RowInv` | says |
|---|---|
| `RowAgrees` | what `HistoryAgrees` says of the row, and that the last attempt of a queued job failed |
| `Clocked` | nothing in the row is later than its clock, so that the next transaction is later than everything the triggers compare it with |
| `Lineaged` | a job that is active again after a settlement has the control the triggers look for: the newest requeueing one, with its event, for the last observation |

`ServiceWritesAdmitted` follows from the last two; the retry of a queued job has to be
refused, since its control would become the newest and lead nowhere. `PassReports` is
the part for `CreationReported`: what the pass has found is still so when it settles.

### Model-checked only

Liveness under fairness and everything about `ENABLED` is outside the proof
system, and so is what a recursive definition computes for every input. So the
liveness properties (`StartConcludes`, `StopFreesWorkspace`, `LaunchersReturn`,
`ImportSettles`, `RequestsSettle`, `CallsReturn`, `CapturesSettle`), and the absence of
deadlock, are checked by TLC on the instances above and nothing more. Every invariant
and action property of a passing run is proved. `GenerationOwned`, `LatchHolds`,
`StartedOwnChild` and `NoLostUpdate` are the other way round: proved, and stated by no run. Type invariants are proved and, where
they only say what the variables range over, are among no run's properties; that of
`ImportJobs`, whose proofs have their own (`Rows`, `PassTyped`), is neither checked
nor proved.

## 5. Not modelled

- Lease heartbeats and probe facts (they decide nothing but a stop), filesystem
  qualification, file permissions, the Windows lock, command-line parsing.
- What a grant covers and binds, authentication, framing, contract validation:
  data of a decision that is in the model as its outcome.
- Extractors, search projections, code analysis, semantic storage, distribution
  and signing, clients, schemas and generated code: computation, or input and
  output, without the concurrency and recovery this project is about.
- The generic `JobQueue`, which has no caller outside the tests; `AuthoritativeStore`
  and the journal of material dispatch, which have no implementation to model.
- The capability gateway's resolution of a call, wait policies and deadlines, stop
  cleanup receipts, releases and reviews of workflows: decisions over data.
- The subsystems in the plan below.

## 6. Plan

Done, in this order: `FencedLog`, `Ownership` and its proofs, `ManagedStart`,
`InstallationIdentity`, `ImportJobs`, `Mutation`, `AgentRuntime` and its proofs,
`MaterialDispatch` and its proofs, `DocumentCapture` and its proofs, the proofs of
`InstallationIdentity`, `Mutation` and `ImportJobs`, those of `ManagedStart`, and
`IdempotentRegister`.

Next, modelling:

1. Chat: turns, generations and late results.
2. Installation store, the files under the OCR cache, and backup, as far as their
   protocols go.
3. The document worker's subprocess and its budget.

Next, proofs:

1. `MaterialDispatch` shown to implement an effect that is applied at most once and
   whose ledger gives true answers.
2. `AgentRuntime` shown to implement a plan whose steps are done once and in order.
