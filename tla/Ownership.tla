------------------------------ MODULE Ownership ------------------------------
(***************************************************************************)
(* Exclusive ownership of one workspace: ServiceRunner.start / stop        *)
(* (service/runner.py), the lifecycle and resource stack                   *)
(* (service/lifecycle.py), the lifetime storage lock (ownership/locks.py), *)
(* the workspace lease and fencing generation (ownership/lease.py), the    *)
(* mutation guard and fenced transactions (ownership/fencing.py), the      *)
(* migration journal (storage/migrations.py) and the discovery descriptor  *)
(* (ownership/discovery.py).                                               *)
(*                                                                         *)
(* An instance is one service process with its own                         *)
(* ServiceInstanceIdentity: it starts at most once.  Its main thread runs  *)
(* start, then stop; its listener thread runs fenced transactions.  A      *)
(* crash drops what the operating system drops (lock, connection, open     *)
(* transaction) and keeps every committed row and the descriptor file.     *)
(***************************************************************************)
EXTENDS Naturals, Sequences, FiniteSets

CONSTANTS
    Instances,   \* service instance identities
    None,        \* no instance
    Migrations,  \* number of migrations this build carries beyond the substrate
    MaxWrites,   \* bound: no new transaction once the log is this long
    MaxCrashes,  \* bound: abrupt process deaths
    Faults       \* the failures a run allows: "start", "release"

ASSUME NoneAssumption == None \notin Instances
ASSUME BoundsAssumption ==
    Migrations \in Nat /\ MaxWrites \in Nat /\ MaxCrashes \in Nat
ASSUME FaultsAssumption == Faults \subseteq {"start", "release"}

VARIABLES
    lock,        \* holder of the lifetime storage lock (flock on storage.lock)
    conn,        \* holder of the exclusive SQLite connection
    stateGen,    \* omnivia_workspace_state.fencing_generation
    lease,       \* the single omnivia_workspace_lease row
    guard,       \* the single omnivia_mutation_guard row
    applied,     \* how many of the migrations are applied
    attempts,    \* instances whose omnivia_migration_attempts row says 'started'
    writes,      \* committed fenced transactions, in commit order
    descriptor,  \* instance named by the published endpoint descriptor
    pc,          \* where the main thread of each instance is
    state,       \* ServiceLifecycle.state
    gen,         \* ServiceRunner.generation (0: none yet)
    stack,       \* ResourceStack entries; their order is the order of Rank
    txn,         \* the listener's request: "idle", "accepted", or its transaction "open"
    matched,     \* compare_and_clean has compared, and will unlink
    crashes      \* abrupt deaths so far

osVars   == <<lock, conn>>
ownerVars == <<stateGen, lease, guard>>
schemaVars == <<applied, attempts>>
procVars == <<pc, state, gen, stack, txn, matched>>
vars == <<lock, conn, stateGen, lease, guard, applied, attempts, writes,
          descriptor, pc, state, gen, stack, txn, matched, crashes>>

-----------------------------------------------------------------------------
(* Domains *)

OptInstance == Instances \cup {None}

ServiceState == {"stopped", "starting", "migrating", "recovering", "ready",
                 "draining", "failed", "gone"}

Resources == {"lock", "connection", "lease", "guard", "transport",
              "admission", "descriptor"}

\* The order in which start pushes resources.
Rank(r) ==
    CASE r = "lock"       -> 1
      [] r = "connection" -> 2
      [] r = "lease"      -> 3
      [] r = "guard"      -> 4
      [] r = "transport"  -> 5
      [] r = "admission"  -> 6
      [] r = "descriptor" -> 7

NoLease == [owner |-> None, gen |-> 0, lifecycle |-> "absent"]
NoGuard == [owner |-> None, gen |-> 0]

LeaseRecord == [owner : OptInstance, gen : Nat,
                lifecycle : {"absent", "held", "released"}]
MutationGuard == [owner : OptInstance, gen : Nat]
Write == [by : Instances, gen : Nat]

\* Program points of _start, of the unwinding calls, and of an ended process.
StartPoints == {"locking", "opening", "leasing", "migrating", "applying",
                "settling", "guarding", "recover", "evaluate", "unrecovered",
                "transport", "admission", "publish"}
UnwindPoints == {"refusing", "failing", "stopping"}
Points == {"idle", "serving", "cleaning", "blocked", "ended", "dead"}
              \cup StartPoints \cup UnwindPoints

-----------------------------------------------------------------------------
(* Authority *)

\* assert_current_authority, read through the caller's own connection: workspace
\* state and lease both name the caller.
CurrentAuthority(i) ==
    /\ conn = i
    /\ stateGen = gen[i]
    /\ lease.owner = i
    /\ lease.gen = gen[i]

\* _validate: current authority, and the guard row is the caller's own tuple.
Validate(i) ==
    /\ CurrentAuthority(i)
    /\ guard = [owner |-> i, gen |-> gen[i]]

\* The persisted guard trigger of every mutable table.
TriggerAdmits ==
    /\ guard.gen = stateGen
    /\ lease.gen = guard.gen
    /\ lease.owner = guard.owner
    /\ lease.lifecycle = "held"

\* Mutation of Top: resources released in acquisition order.
TopOldest(i, r) == r \in stack[i] /\ \A s \in stack[i] : Rank(r) <= Rank(s)

\* The top entry of the resource stack.
Top(i, r) == r \in stack[i] /\ \A s \in stack[i] : Rank(s) <= Rank(r)

Push(i, r) == stack' = [stack EXCEPT ![i] = @ \cup {r}]
Pop(i, r)  == stack' = [stack EXCEPT ![i] = @ \ {r}]
Goto(i, p) == pc' = [pc EXCEPT ![i] = p]
Become(i, s) == state' = [state EXCEPT ![i] = s]

\* An exception leaves _start; start()'s handler unwinds.
Raise(i) == Goto(i, "failing") /\ UNCHANGED <<state, gen, stack, txn, matched>>

-----------------------------------------------------------------------------
(* Startup, in the order of ServiceRunner._start *)

Init ==
    /\ lock = None /\ conn = None
    /\ stateGen = 1 /\ lease = NoLease /\ guard = NoGuard
    /\ applied = 0 /\ attempts = {} /\ writes = <<>>
    /\ descriptor = None
    /\ pc = [i \in Instances |-> "idle"]
    /\ state = [i \in Instances |-> "stopped"]
    /\ gen = [i \in Instances |-> 0]
    /\ stack = [i \in Instances |-> {}]
    /\ txn = [i \in Instances |-> "idle"]
    /\ matched = [i \in Instances |-> FALSE]
    /\ crashes = 0

\* start(): STARTING; compatibility and filesystem checks acquire nothing.
Start(i) ==
    /\ pc[i] = "idle"
    /\ Become(i, "starting") /\ Goto(i, "locking")
    /\ UNCHANGED <<gen, stack, txn, matched>>
    /\ UNCHANGED <<osVars, ownerVars, schemaVars, writes, descriptor, crashes>>

\* Any step of _start may raise (I/O, an incompatible manifest, a port in use).
StartFault(i) ==
    /\ pc[i] \in StartPoints /\ "start" \in Faults
    /\ Raise(i)
    /\ UNCHANGED <<osVars, ownerVars, schemaVars, writes, descriptor, crashes>>

\* Mutation of Refused: waits for the storage lock instead of refusing.
RefusedPatiently(i) ==
    \/ pc[i] = "opening" /\ conn # None
    \/ pc[i] = "migrating" /\ applied < Migrations /\ stateGen # gen[i]
    \/ pc[i] = "guarding" /\ ~CurrentAuthority(i)
    \/ pc[i] = "recover" /\ attempts = {} /\ ~(Validate(i) /\ TriggerAdmits)

\* The conditions under which a step of _start must raise: the lock is held
\* elsewhere, another connection is open (locking_mode = EXCLUSIVE), the
\* generation has moved, the authority is lost, a fenced transaction is refused.
Refused(i) ==
    \/ pc[i] = "locking" /\ lock # None
    \/ pc[i] = "opening" /\ conn # None
    \/ pc[i] = "migrating" /\ applied < Migrations /\ stateGen # gen[i]
    \/ pc[i] = "guarding" /\ ~CurrentAuthority(i)
    \/ pc[i] = "recover" /\ attempts = {} /\ ~(Validate(i) /\ TriggerAdmits)

Refuse(i) ==
    /\ Refused(i)
    /\ Raise(i)
    /\ UNCHANGED <<osVars, ownerVars, schemaVars, writes, descriptor, crashes>>

\* Non-blocking flock.
AcquireStorageLock(i) ==
    /\ pc[i] = "locking" /\ lock = None
    /\ lock' = i
    /\ Push(i, "lock") /\ Goto(i, "opening")
    /\ UNCHANGED <<state, gen, txn, matched>>
    /\ UNCHANGED <<conn, ownerVars, schemaVars, writes, descriptor, crashes>>

\* The one connection, opened exclusive.
OpenDatabase(i) ==
    /\ pc[i] = "opening" /\ conn = None
    /\ conn' = i
    /\ Push(i, "connection") /\ Goto(i, "leasing")
    /\ UNCHANGED <<state, gen, txn, matched>>
    /\ UNCHANGED <<lock, ownerVars, schemaVars, writes, descriptor, crashes>>

\* acquire_lease: one transaction increments the generation, replaces the row.
AcquireLease(i) ==
    /\ pc[i] = "leasing"
    /\ lock = i /\ conn = i
    /\ stateGen' = stateGen + 1
    /\ lease' = [owner |-> i, gen |-> stateGen + 1, lifecycle |-> "held"]
    /\ gen' = [gen EXCEPT ![i] = stateGen + 1]
    /\ Push(i, "lease") /\ Goto(i, "migrating")
    /\ UNCHANGED <<state, txn, matched, guard>>
    /\ UNCHANGED <<osVars, schemaVars, writes, descriptor, crashes>>

\* apply_pending_migrations, per migration: a durable 'started' row first.
BeginMigration(i) ==
    /\ pc[i] = "migrating" /\ applied < Migrations /\ stateGen = gen[i]
    /\ attempts' = attempts \cup {i}
    /\ Become(i, "migrating") /\ Goto(i, "applying")
    /\ UNCHANGED <<gen, stack, txn, matched>>
    /\ UNCHANGED <<osVars, ownerVars, applied, writes, descriptor, crashes>>

\* ... then the migration in one transaction ...
ApplyMigration(i) ==
    /\ pc[i] = "applying" /\ stateGen = gen[i]
    /\ applied' = applied + 1
    /\ Goto(i, "settling")
    /\ UNCHANGED <<state, gen, stack, txn, matched>>
    /\ UNCHANGED <<osVars, ownerVars, attempts, writes, descriptor, crashes>>

\* ... whose failure is rolled back, recorded as 'failed' and raised ...
FailMigration(i) ==
    /\ pc[i] = "applying"
    /\ stateGen # gen[i] \/ "start" \in Faults
    /\ attempts' = attempts \ {i}
    /\ Raise(i)
    /\ UNCHANGED <<osVars, ownerVars, applied, writes, descriptor, crashes>>

\* ... then the row is marked 'succeeded'.
SettleMigration(i) ==
    /\ pc[i] = "settling"
    /\ attempts' = attempts \ {i}
    /\ Goto(i, "migrating")
    /\ UNCHANGED <<state, gen, stack, txn, matched>>
    /\ UNCHANGED <<osVars, ownerVars, applied, writes, descriptor, crashes>>

\* Every migration is applied: RECOVERING.
EnterRecovery(i) ==
    /\ pc[i] = "migrating" /\ applied = Migrations
    /\ Become(i, "recovering") /\ Goto(i, "guarding")
    /\ UNCHANGED <<gen, stack, txn, matched>>
    /\ UNCHANGED <<osVars, ownerVars, schemaVars, writes, descriptor, crashes>>

\* open_guard under the lease: the single guard row is replaced.
OpenGuard(i) ==
    /\ pc[i] = "guarding" /\ CurrentAuthority(i)
    /\ guard' = [owner |-> i, gen |-> gen[i]]
    /\ Push(i, "guard") /\ Goto(i, "recover")
    /\ UNCHANGED <<state, gen, txn, matched, stateGen, lease>>
    /\ UNCHANGED <<osVars, schemaVars, writes, descriptor, crashes>>

\* _recover counts the attempts still 'started' and gives up on readiness ...
FindInterrupted(i) ==
    /\ pc[i] = "recover" /\ attempts # {}
    /\ Goto(i, "unrecovered")
    /\ UNCHANGED <<state, gen, stack, txn, matched>>
    /\ UNCHANGED <<osVars, ownerVars, schemaVars, writes, descriptor, crashes>>

\* ... or sweeps stranded jobs in fenced transactions.
Recover(i) ==
    /\ pc[i] = "recover" /\ attempts = {}
    /\ Validate(i) /\ TriggerAdmits
    /\ writes' = Append(writes, [by |-> i, gen |-> gen[i]])
    /\ Goto(i, "evaluate")
    /\ UNCHANGED <<state, gen, stack, txn, matched>>
    /\ UNCHANGED <<osVars, ownerVars, schemaVars, descriptor, crashes>>

\* The readiness facts that depend on modelled state.
ReadinessSatisfied(i) ==
    /\ lock = i
    /\ conn = i
    /\ CurrentAuthority(i)
    /\ applied = Migrations
    /\ pc[i] = "evaluate"

\* publish_readiness: READY ...
PublishReadiness(i) ==
    /\ ReadinessSatisfied(i)
    /\ Become(i, "ready") /\ Goto(i, "transport")
    /\ UNCHANGED <<gen, stack, txn, matched>>
    /\ UNCHANGED <<osVars, ownerVars, schemaVars, writes, descriptor, crashes>>

\* ... or fail() and ReadinessRefused; the facts not modelled may fail too.
RefuseReadiness(i) ==
    /\ pc[i] \in {"evaluate", "unrecovered"}
    /\ ~ReadinessSatisfied(i) \/ "start" \in Faults
    /\ Goto(i, "refusing")
    /\ UNCHANGED <<state, gen, stack, txn, matched>>
    /\ UNCHANGED <<osVars, ownerVars, schemaVars, writes, descriptor, crashes>>

\* The serve hook starts the listeners ...
StartTransport(i) ==
    /\ pc[i] = "transport"
    /\ Push(i, "transport") /\ Goto(i, "admission")
    /\ UNCHANGED <<state, gen, txn, matched>>
    /\ UNCHANGED <<osVars, ownerVars, schemaVars, writes, descriptor, crashes>>

\* ... and an in-process runner has none, and advertises nothing.
ServeInProcess(i) ==
    /\ pc[i] = "transport"
    /\ Goto(i, "serving")
    /\ UNCHANGED <<state, gen, stack, txn, matched>>
    /\ UNCHANGED <<osVars, ownerVars, schemaVars, writes, descriptor, crashes>>

\* The last entry serve pushes: the stop signal to every listener.
PushAdmission(i) ==
    /\ pc[i] = "admission"
    /\ Push(i, "admission") /\ Goto(i, "publish")
    /\ UNCHANGED <<state, gen, txn, matched>>
    /\ UNCHANGED <<osVars, ownerVars, schemaVars, writes, descriptor, crashes>>

\* publish(): an atomic rename; readiness is advertised last.
Publish(i) ==
    /\ pc[i] = "publish"
    /\ descriptor' = i
    /\ Push(i, "descriptor") /\ Goto(i, "serving")
    /\ UNCHANGED <<state, gen, txn, matched>>
    /\ UNCHANGED <<osVars, ownerVars, schemaVars, writes, crashes>>

-----------------------------------------------------------------------------
(* Serving *)

\* Mutation of Admits: the stop signal is not looked at.
AdmitsWhileUp(i) == "transport" \in stack[i] \/ pc[i] = "serving"

\* A listener takes a request until it is told to stop; an in-process runner
\* takes its caller's.  The lifecycle state is not consulted.
Admits(i) ==
    \/ "admission" \in stack[i]
    \/ pc[i] \in {"admission", "publish", "serving"}

\* A frame is read, or an in-process call made.
AcceptRequest(i) ==
    /\ Admits(i) /\ txn[i] = "idle" /\ Len(writes) < MaxWrites
    /\ txn' = [txn EXCEPT ![i] = "accepted"]
    /\ UNCHANGED <<pc, state, gen, stack, matched>>
    /\ UNCHANGED <<osVars, ownerVars, schemaVars, writes, descriptor, crashes>>

\* fenced_transaction: BEGIN IMMEDIATE and the validation on entry.  A document
\* request looks at the stop signal first, a binary transfer does not, so an
\* accepted request may begin its transaction after the signal.
BeginWrite(i) ==
    /\ txn[i] = "accepted"
    /\ Validate(i)
    /\ txn' = [txn EXCEPT ![i] = "open"]
    /\ UNCHANGED <<pc, state, gen, stack, matched>>
    /\ UNCHANGED <<osVars, ownerVars, schemaVars, writes, descriptor, crashes>>

\* The body's rows pass the trigger, the second validation passes, COMMIT.
CommitWrite(i) ==
    /\ txn[i] = "open"
    /\ TriggerAdmits /\ Validate(i)
    /\ writes' = Append(writes, [by |-> i, gen |-> gen[i]])
    /\ txn' = [txn EXCEPT ![i] = "idle"]
    /\ UNCHANGED <<pc, state, gen, stack, matched>>
    /\ UNCHANGED <<osVars, ownerVars, schemaVars, descriptor, crashes>>

\* The request is refused, or the body or a validation raises: ROLLBACK.
AbortWrite(i) ==
    /\ txn[i] # "idle"
    /\ txn' = [txn EXCEPT ![i] = "idle"]
    /\ UNCHANGED <<pc, state, gen, stack, matched>>
    /\ UNCHANGED <<osVars, ownerVars, schemaVars, writes, descriptor, crashes>>

\* drain(): only the state changes.
Drain(i) ==
    /\ pc[i] = "serving" /\ state[i] = "ready"
    /\ Become(i, "draining")
    /\ UNCHANGED <<pc, gen, stack, txn, matched>>
    /\ UNCHANGED <<osVars, ownerVars, schemaVars, writes, descriptor, crashes>>

\* A signal, or a lease renewal that failed, ends _serve_until_stopped.  An
\* in-process caller stops between its own transactions.
Stop(i) ==
    /\ pc[i] = "serving"
    /\ "transport" \in stack[i] \/ txn[i] = "idle"
    /\ Become(i, "draining") /\ Goto(i, "stopping")
    /\ UNCHANGED <<gen, stack, txn, matched>>
    /\ UNCHANGED <<osVars, ownerVars, schemaVars, writes, descriptor, crashes>>

-----------------------------------------------------------------------------
(* ResourceStack.unwind: one release per step, from the top *)

Unwinding(i, r) == pc[i] \in UnwindPoints /\ Top(i, r) /\ ~matched[i]

\* compare_and_clean reads and compares ...
CompareDescriptor(i) ==
    /\ Unwinding(i, "descriptor")
    /\ matched' = [matched EXCEPT ![i] = (descriptor = i)]
    /\ stack' = [stack EXCEPT ![i] = IF descriptor = i THEN @ ELSE @ \ {"descriptor"}]
    /\ UNCHANGED <<pc, state, gen, txn>>
    /\ UNCHANGED <<osVars, ownerVars, schemaVars, writes, descriptor, crashes>>

\* ... and unlinks in a second step; an OSError is swallowed.
UnlinkDescriptor(i) ==
    /\ matched[i]
    /\ descriptor' = None \/ ("release" \in Faults /\ UNCHANGED descriptor)
    /\ matched' = [matched EXCEPT ![i] = FALSE]
    /\ Pop(i, "descriptor")
    /\ UNCHANGED <<pc, state, gen, txn>>
    /\ UNCHANGED <<osVars, ownerVars, schemaVars, writes, crashes>>

\* The listeners are told to stop; an in-flight request goes on.
ReleaseAdmission(i) ==
    /\ Unwinding(i, "admission")
    /\ Pop(i, "admission")
    /\ UNCHANGED <<pc, state, gen, txn, matched>>
    /\ UNCHANGED <<osVars, ownerVars, schemaVars, writes, descriptor, crashes>>

\* Mutation of ReleaseTransport: unwinds past a listener that is still running.
ReleaseTransportRunning(i) ==
    /\ Unwinding(i, "transport")
    /\ Pop(i, "transport")
    /\ UNCHANGED <<pc, state, gen, txn, matched>>
    /\ UNCHANGED <<osVars, ownerVars, schemaVars, writes, descriptor, crashes>>

\* A listener is released only once its thread has ended.
ReleaseTransport(i) ==
    /\ Unwinding(i, "transport") /\ txn[i] = "idle"
    /\ Pop(i, "transport")
    /\ UNCHANGED <<pc, state, gen, txn, matched>>
    /\ UNCHANGED <<osVars, ownerVars, schemaVars, writes, descriptor, crashes>>

\* Mutation of ReleaseGuard: the row is left to the next open_guard.
ReleaseGuardLazily(i) ==
    /\ Unwinding(i, "guard")
    /\ Pop(i, "guard")
    /\ UNCHANGED <<pc, state, gen, txn, matched>>
    /\ UNCHANGED <<osVars, ownerVars, schemaVars, writes, descriptor, crashes>>

\* close_guard deletes the row; a failing DELETE is swallowed.
ReleaseGuard(i) ==
    /\ Unwinding(i, "guard")
    /\ \/ conn = i /\ guard' = NoGuard
       \/ (conn # i \/ "release" \in Faults) /\ UNCHANGED guard
    /\ Pop(i, "guard")
    /\ UNCHANGED <<pc, state, gen, txn, matched, stateGen, lease>>
    /\ UNCHANGED <<osVars, schemaVars, writes, descriptor, crashes>>

\* Mutation of ReleaseLease: a release takes its generation back.
ReleaseLeaseDecrementing(i) ==
    /\ Unwinding(i, "lease")
    /\ lease' = [lease EXCEPT !.lifecycle = "released"]
    /\ stateGen' = stateGen - 1
    /\ Pop(i, "lease")
    /\ UNCHANGED <<pc, state, gen, txn, matched, guard>>
    /\ UNCHANGED <<osVars, schemaVars, writes, descriptor, crashes>>

\* release_lease marks the owner's row released, and never decrements the
\* generation; a refusal or a failure is swallowed.
ReleaseLease(i) ==
    /\ Unwinding(i, "lease")
    /\ \/ /\ conn = i /\ lease.owner = i
          /\ lease' = [owner |-> i, gen |-> lease.gen, lifecycle |-> "released"]
       \/ (conn # i \/ lease.owner # i \/ "release" \in Faults) /\ UNCHANGED lease
    /\ Pop(i, "lease")
    /\ UNCHANGED <<pc, state, gen, txn, matched, stateGen, guard>>
    /\ UNCHANGED <<osVars, schemaVars, writes, descriptor, crashes>>

\* connection.close(); a close that raises leaves the file lock in place.
ReleaseConnection(i) ==
    /\ Unwinding(i, "connection")
    /\ conn' = None \/ ("release" \in Faults /\ UNCHANGED conn)
    /\ Pop(i, "connection")
    /\ UNCHANGED <<pc, state, gen, txn, matched, lock>>
    /\ UNCHANGED <<ownerVars, schemaVars, writes, descriptor, crashes>>

\* PosixFileLock.release closes the handle whatever happens.
ReleaseLock(i) ==
    /\ Unwinding(i, "lock")
    /\ lock' = None
    /\ Pop(i, "lock")
    /\ UNCHANGED <<pc, state, gen, txn, matched, conn>>
    /\ UNCHANGED <<ownerVars, schemaVars, writes, descriptor, crashes>>

\* ResourceReleaseBlocked: the listener thread is still running.
Blocked(i) == Top(i, "transport") /\ txn[i] # "idle"

\* Mutation of FailEnds: records a state the lifecycle does not have.
FailEndsBlocked(i) ==
    /\ pc[i] \in {"failing", "refusing"} /\ ~matched[i]
    /\ stack[i] = {} \/ Blocked(i)
    /\ Become(i, IF stack[i] = {} THEN "failed" ELSE "blocked")
    /\ Goto(i, IF pc[i] = "failing" THEN "cleaning" ELSE "stopping")
    /\ UNCHANGED <<gen, stack, txn, matched>>
    /\ UNCHANGED <<osVars, ownerVars, schemaVars, writes, descriptor, crashes>>

\* unwind returns; FAILED is recorded only now.  start()'s exception handler
\* goes on to clean the descriptor, its readiness handler does not.
FailEnds(i) ==
    /\ pc[i] \in {"failing", "refusing"} /\ ~matched[i]
    /\ stack[i] = {} \/ Blocked(i)
    /\ Become(i, "failed")
    /\ Goto(i, IF pc[i] = "failing" THEN "cleaning" ELSE "stopping")
    /\ UNCHANGED <<gen, stack, txn, matched>>
    /\ UNCHANGED <<osVars, ownerVars, schemaVars, writes, descriptor, crashes>>

\* Mutation of CleanAfterFailure: removes whatever descriptor is there.
CleanAfterFailureBlindly(i) ==
    /\ pc[i] = "cleaning"
    /\ descriptor' = None
    /\ Goto(i, "stopping")
    /\ UNCHANGED <<state, gen, stack, txn, matched>>
    /\ UNCHANGED <<osVars, ownerVars, schemaVars, writes, crashes>>

\* _clean_discovery after a failed start, with the storage lock released.  Only
\* the final publication names this instance, so the comparison decides alone.
CleanAfterFailure(i) ==
    /\ pc[i] = "cleaning"
    /\ descriptor' = IF descriptor = i THEN None ELSE descriptor
    /\ Goto(i, "stopping")
    /\ UNCHANGED <<state, gen, stack, txn, matched>>
    /\ UNCHANGED <<osVars, ownerVars, schemaVars, writes, crashes>>

\* lifecycle.stop: STOPPED ...
StopEnds(i) ==
    /\ pc[i] = "stopping" /\ stack[i] = {}
    /\ Become(i, "stopped") /\ Goto(i, "ended")
    /\ UNCHANGED <<gen, stack, txn, matched>>
    /\ UNCHANGED <<osVars, ownerVars, schemaVars, writes, descriptor, crashes>>

\* ... or FAILED, with the blocked entry and all below it still held.
StopBlocked(i) ==
    /\ pc[i] = "stopping" /\ Blocked(i) /\ ~matched[i]
    /\ Become(i, "failed") /\ Goto(i, "blocked")
    /\ UNCHANGED <<gen, stack, txn, matched>>
    /\ UNCHANGED <<osVars, ownerVars, schemaVars, writes, descriptor, crashes>>

\* A later stop() resumes the unwind at the blocked entry.
RetryStop(i) ==
    /\ pc[i] = "blocked"
    /\ Goto(i, "stopping")
    /\ UNCHANGED <<state, gen, stack, txn, matched>>
    /\ UNCHANGED <<osVars, ownerVars, schemaVars, writes, descriptor, crashes>>

-----------------------------------------------------------------------------
(* Process death: the kernel closes every file of the process *)

Die(i) ==
    /\ lock' = IF lock = i THEN None ELSE lock
    /\ conn' = IF conn = i THEN None ELSE conn
    /\ Goto(i, "dead") /\ Become(i, "gone")
    /\ stack' = [stack EXCEPT ![i] = {}]
    /\ txn' = [txn EXCEPT ![i] = "idle"]
    /\ matched' = [matched EXCEPT ![i] = FALSE]
    /\ UNCHANGED <<gen, ownerVars, schemaVars, writes, descriptor>>

\* main returns after stop(), complete or blocked; daemon threads end with it.
Exit(i) == pc[i] \in {"ended", "blocked"} /\ Die(i) /\ UNCHANGED crashes

Crash(i) ==
    /\ pc[i] \notin {"idle", "dead", "ended", "blocked"}
    /\ crashes < MaxCrashes
    /\ Die(i)
    /\ crashes' = crashes + 1

-----------------------------------------------------------------------------

StartStep(i) ==
    \/ Refuse(i) \/ AcquireStorageLock(i) \/ OpenDatabase(i) \/ AcquireLease(i)
    \/ BeginMigration(i) \/ ApplyMigration(i) \/ FailMigration(i)
    \/ SettleMigration(i) \/ EnterRecovery(i) \/ OpenGuard(i)
    \/ FindInterrupted(i) \/ Recover(i)
    \/ PublishReadiness(i) \/ RefuseReadiness(i)
    \/ StartTransport(i) \/ ServeInProcess(i) \/ PushAdmission(i) \/ Publish(i)

UnwindStep(i) ==
    \/ CompareDescriptor(i) \/ UnlinkDescriptor(i)
    \/ ReleaseAdmission(i) \/ ReleaseTransport(i) \/ ReleaseGuard(i)
    \/ ReleaseLease(i) \/ ReleaseConnection(i) \/ ReleaseLock(i)
    \/ FailEnds(i) \/ CleanAfterFailure(i) \/ StopEnds(i) \/ StopBlocked(i)

ServeStep(i) == BeginWrite(i) \/ CommitWrite(i) \/ AbortWrite(i)

InstanceStep(i) ==
    \/ Start(i) \/ StartFault(i) \/ StartStep(i)
    \/ AcceptRequest(i) \/ ServeStep(i) \/ Drain(i) \/ Stop(i)
    \/ UnwindStep(i) \/ RetryStop(i) \/ Exit(i) \/ Crash(i)

Next == \E i \in Instances : InstanceStep(i)

Spec == Init /\ [][Next]_vars

\* The main thread and the listener thread of a live process keep running, and
\* a process whose main has returned exits.  Nobody is obliged to start, stop,
\* drain, crash or retry.
Fairness ==
    \A i \in Instances :
        /\ WF_vars(StartStep(i)) /\ WF_vars(UnwindStep(i))
        /\ WF_vars(ServeStep(i)) /\ WF_vars(Exit(i))

FairSpec == Spec /\ Fairness

-----------------------------------------------------------------------------
(* Properties *)

\* The rows, locks and program state keep the shapes the code gives them.
TypeOK ==
    /\ lock \in OptInstance /\ conn \in OptInstance
    /\ stateGen \in Nat /\ lease \in LeaseRecord /\ guard \in MutationGuard
    /\ applied \in Nat /\ attempts \subseteq Instances /\ writes \in Seq(Write)
    /\ descriptor \in OptInstance
    /\ pc \in [Instances -> Points]
    /\ state \in [Instances -> ServiceState]
    /\ gen \in [Instances -> Nat]
    /\ stack \in [Instances -> SUBSET Resources]
    /\ txn \in [Instances -> {"idle", "accepted", "open"}]
    /\ matched \in [Instances -> BOOLEAN]
    /\ crashes \in Nat

\* What core.readiness answers over a live listener.
AnswersReady(i) == state[i] = "ready" /\ "transport" \in stack[i]

\* An instance whose listener answers "ready" is the exact owner: it holds the
\* storage lock and the only connection, the lease and the guard carry its
\* generation, and no migration is pending or interrupted.  In particular two
\* instances never answer "ready" together (publish_readiness, unwind order,
\* FAILED recorded only after the unwind).
ReadyMeansOwner ==
    \A i \in Instances : AnswersReady(i) =>
        /\ lock = i /\ conn = i
        /\ Validate(i) /\ TriggerAdmits
        /\ applied = Migrations /\ attempts = {}

\* Fenced transactions commit in generation order, and those of one generation
\* have one author: once a successor has written, nothing of a superseded
\* instance lands after it, whatever crashed, failed to clean up or was still in
\* flight (fenced_transaction).
WritesInGenerationOrder ==
    \A m, n \in 1..Len(writes) : m < n =>
        \/ writes[m].gen < writes[n].gen
        \/ writes[m].gen = writes[n].gen /\ writes[m].by = writes[n].by

\* A generation belongs to one instance for ever: two instances never hold the
\* same one, and every committed write carries its author's own generation
\* (acquire_lease increments inside one transaction; release never decrements).
GenerationsUnique ==
    /\ \A i, j \in Instances : gen[i] = gen[j] /\ gen[i] # 0 => i = j
    /\ \A n \in 1..Len(writes) : writes[n].gen = gen[writes[n].by]

\* The generation never moves while another instance has a fenced transaction
\* open: a takeover waits for the storage lock and the exclusive connection,
\* which outlive the listener (ResourceReleaseBlocked).
NoTakeoverUnderOpenTransaction ==
    [][stateGen' # stateGen => \A i \in Instances : txn[i] = "idle"]_vars

\* Only the instance a descriptor names withdraws it: a failing or stopping
\* instance never un-advertises another one (compare_and_clean).
OnlyOwnDescriptorWithdrawn ==
    [][\A i \in Instances :
          descriptor = i /\ descriptor' # i =>
             \/ matched[i] /\ ~matched'[i]
             \/ descriptor' # None]_vars

\* The workspace is a fenced log: its owner is the holder of a lease that is not
\* released, its epoch the fencing generation, its log the committed fenced
\* transactions.
LeaseOwner == IF lease.lifecycle = "held" THEN lease.owner ELSE None

Fenced == INSTANCE FencedLog WITH
    Owners <- Instances, Nobody <- None,
    epoch <- stateGen, owner <- LeaseOwner, epochOf <- gen, log <- writes

\* Every behaviour of the runner, its lock, its rows and its crashes is one of
\* the fenced log: authority is handed over at one indivisible point
\* (acquire_lease) and every commit falls inside its author's tenure.
ImplementsFencedLog == Fenced!Spec

\* The inductive invariant behind the properties above, in named parts.

\* What a program point says about the resource stack, and the generation.
PointsInv ==
    \A i \in Instances :
        /\ pc[i] \in {"idle", "locking", "ended", "dead"} => stack[i] = {}
        /\ pc[i] = "opening" => stack[i] = {"lock"}
        /\ pc[i] = "leasing" => stack[i] = {"lock", "connection"}
        /\ pc[i] \in {"migrating", "applying", "settling", "guarding"} =>
              stack[i] = {"lock", "connection", "lease"}
        /\ pc[i] \in {"recover", "evaluate", "unrecovered", "transport"} =>
              stack[i] = {"lock", "connection", "lease", "guard"}
        /\ pc[i] = "admission" =>
              stack[i] = {"lock", "connection", "lease", "guard", "transport"}
        /\ pc[i] = "publish" =>
              stack[i] = {"lock", "connection", "lease", "guard", "transport",
                          "admission"}
        /\ pc[i] = "serving" => {"lock", "connection", "lease", "guard"} \subseteq stack[i]
        /\ pc[i] \in {"idle", "locking", "opening", "leasing"} => gen[i] = 0

\* A resource rests on every resource acquired before it.
NestedInv ==
    \A i \in Instances :
        /\ "descriptor" \in stack[i] => "admission" \in stack[i]
        /\ "admission" \in stack[i] => "transport" \in stack[i]
        /\ "transport" \in stack[i] => "guard" \in stack[i]
        /\ "guard" \in stack[i] => "lease" \in stack[i]
        /\ "lease" \in stack[i] => "connection" \in stack[i]
        /\ "connection" \in stack[i] => "lock" \in stack[i]

\* The stack tells the truth about the lock and the connection.
HeldInv ==
    \A i \in Instances :
        /\ "lock" \in stack[i] => lock = i
        /\ "connection" \in stack[i] => conn = i

\* A request is in flight only over a listener, or inside an in-process call.
RequestInv ==
    \A i \in Instances :
        txn[i] # "idle" => "transport" \in stack[i] \/ pc[i] = "serving"

\* The lease and guard entries stand for rows that carry the newest generation.
AuthorityInv ==
    \A i \in Instances :
        /\ "lease" \in stack[i] =>
              /\ gen[i] = stateGen
              /\ lease = [owner |-> i, gen |-> stateGen, lifecycle |-> "held"]
        /\ "guard" \in stack[i] => guard = [owner |-> i, gen |-> stateGen]

\* From the guard on no migration is pending, past recovery none interrupted.
SchemaInv ==
    /\ applied <= Migrations
    /\ \A i \in Instances :
        /\ pc[i] = "applying" => applied < Migrations
        /\ pc[i] = "guarding" => applied = Migrations
        /\ "guard" \in stack[i] => applied = Migrations
        /\ \/ "transport" \in stack[i]
           \/ pc[i] \in {"evaluate", "transport", "serving"}
           => attempts = {}

\* A descriptor is its publisher's; the one about to unlink it was compared, and
\* by then is there or already gone.
DescriptorInv ==
    \A i \in Instances :
        /\ descriptor = i =>
              pc[i] \in {"serving", "stopping", "blocked", "ended", "dead"}
        /\ matched[i] => /\ descriptor \in {i, None} /\ pc[i] \in UnwindPoints
                         /\ "descriptor" \in stack[i]

\* Generations are handed out once, in increasing order.
GenerationInv ==
    /\ stateGen >= 1
    /\ \A i \in Instances : gen[i] <= stateGen
    /\ \A i, j \in Instances : gen[i] = gen[j] /\ gen[i] # 0 => i = j

\* The log carries its authors' generations, in order.
LogInv ==
    /\ \A n \in 1..Len(writes) :
          /\ writes[n].gen >= 1 /\ writes[n].gen <= stateGen
          /\ writes[n].gen = gen[writes[n].by]
    /\ \A m, n \in 1..Len(writes) : m < n => writes[m].gen <= writes[n].gen

OwnershipInv ==
    /\ TypeOK /\ PointsInv /\ NestedInv /\ HeldInv /\ RequestInv
    /\ AuthorityInv /\ SchemaInv /\ DescriptorInv /\ GenerationInv /\ LogInv

\* With every release succeeding, a process that ended its stop leaves nothing
\* that speaks for it: no descriptor, no guard row, a released lease.
StopLeavesNoClaim ==
    \A i \in Instances : pc[i] = "ended" =>
        /\ lock # i /\ conn # i /\ descriptor # i
        /\ guard.owner # i
        /\ lease.owner = i => lease.lifecycle = "released"

\* Recovery recovers interrupted migrations: once a successor reaches _recover
\* with an interrupted attempt on record, the attempt is eventually settled.
InterruptedMigrationRecovers ==
    \A i \in Instances :
        (pc[i] = "recover" /\ attempts # {}) ~> (attempts = {})

\* A start that has begun comes to an end: the instance serves, or has ended.
StartConcludes ==
    \A i \in Instances :
        (pc[i] \in StartPoints) ~> (pc[i] \in {"serving", "ended", "dead"})

\* A stop, blocked or not, frees the workspace: the storage lock and the
\* connection do not stay with an instance that is stopping or has failed.
StopFreesWorkspace ==
    \A i \in Instances :
        (pc[i] \in UnwindPoints) ~> (lock # i /\ conn # i)
=============================================================================
