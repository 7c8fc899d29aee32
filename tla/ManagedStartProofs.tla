--------------------------- MODULE ManagedStartProofs ---------------------------
(* Managed start, for any set of launchers and any faults: the services keep   *)
(* what module OwnershipProofs shows of them, a failed start leaves nothing,   *)
(* and a launcher spawns alone.                                                *)
EXTENDS ManagedStart, OwnershipProofs

-----------------------------------------------------------------------------
(* What a step of a service means to the launchers *)

\* Only its own program point and stack change; a start does not begin again and
\* a death is final; it serves and advertises itself only after start, and keeps
\* its descriptor's entry while it serves; a blocked stop has none left; it takes
\* the lock at one point and loses it when it dies; and it publishes and
\* withdraws no descriptor but its own, which it keeps while it has the entry.
Effects(i) ==
    /\ \A j \in Instances \ {i} : pc'[j] = pc[j] /\ stack'[j] = stack[j]
    /\ pc[i] # "idle" => pc'[i] # "idle"
    /\ pc[i] = "dead" => pc'[i] = "dead"
    /\ pc'[i] \in StartPoints => pc[i] \in StartPoints \cup {"idle"}
    /\ pc'[i] = "serving" =>
          \/ pc[i] = "serving" /\ stack[i] \subseteq stack'[i]
          \/ pc[i] = "publish" /\ "descriptor" \in stack'[i]
          \/ pc[i] = "transport"
    /\ pc'[i] = "blocked" =>
          "descriptor" \notin stack'[i] \/ (pc[i] = "blocked" /\ stack'[i] = stack[i])
    /\ "descriptor" \in stack'[i] => "descriptor" \in stack[i] \/ pc[i] = "publish"
    /\ lock' \in {lock, None} \/ (lock' = i /\ pc'[i] = "opening")
    /\ pc'[i] = "dead" => pc[i] = "dead" \/ lock' # i
    /\ \/ descriptor' = descriptor
       \/ descriptor' = i /\ pc[i] = "publish" /\ pc'[i] = "serving"
       \/ descriptor' = None /\ (descriptor = i \/ matched[i])
    /\ descriptor = i /\ "descriptor" \in stack'[i] => descriptor' = i

\* A step of an instance has these effects.
LEMMA EffectsOfStep ==
    ASSUME OwnershipInv, NEW i \in Instances, InstanceStep(i)
    PROVE  Effects(i)
<1> USE NoneAssumption DEF OwnershipInv, TypeOK, Effects, Push, Pop, Goto, Raise,
   Become, osVars, OptInstance, StartPoints, UnwindPoints
<1>1. CASE Start(i) BY <1>1 DEF Start
<1>2. CASE StartFault(i) BY <1>2 DEF StartFault
<1>3. CASE Refuse(i) BY <1>3 DEF Refuse, Refused
<1>4. CASE AcquireStorageLock(i) BY <1>4 DEF AcquireStorageLock
<1>5. CASE OpenDatabase(i) BY <1>5 DEF OpenDatabase
<1>6. CASE AcquireLease(i) BY <1>6 DEF AcquireLease
<1>7. CASE BeginMigration(i) BY <1>7 DEF BeginMigration
<1>8. CASE ApplyMigration(i) BY <1>8 DEF ApplyMigration
<1>9. CASE FailMigration(i) BY <1>9 DEF FailMigration
<1>10. CASE SettleMigration(i) BY <1>10 DEF SettleMigration
<1>11. CASE EnterRecovery(i) BY <1>11 DEF EnterRecovery
<1>12. CASE OpenGuard(i) BY <1>12 DEF OpenGuard
<1>13. CASE FindInterrupted(i) BY <1>13 DEF FindInterrupted
<1>14. CASE Recover(i) BY <1>14 DEF Recover
<1>15. CASE PublishReadiness(i) BY <1>15 DEF PublishReadiness, ReadinessSatisfied
<1>16. CASE RefuseReadiness(i) BY <1>16 DEF RefuseReadiness
<1>17. CASE StartTransport(i) BY <1>17 DEF StartTransport
<1>18. CASE ServeInProcess(i) BY <1>18 DEF ServeInProcess
<1>19. CASE PushAdmission(i) BY <1>19 DEF PushAdmission
<1>20. CASE Publish(i) BY <1>20 DEF Publish
<1>21. CASE AcceptRequest(i) BY <1>21 DEF AcceptRequest
<1>22. CASE BeginWrite(i) BY <1>22 DEF BeginWrite
<1>23. CASE CommitWrite(i) BY <1>23 DEF CommitWrite
<1>24. CASE AbortWrite(i) BY <1>24 DEF AbortWrite
<1>25. CASE Drain(i) BY <1>25 DEF Drain
<1>26. CASE Stop(i) BY <1>26 DEF Stop
<1>27. CASE CompareDescriptor(i)
    BY <1>27, TopFacts DEF CompareDescriptor, Unwinding
<1>28. CASE UnlinkDescriptor(i) BY <1>28 DEF UnlinkDescriptor, DescriptorInv
<1>29. CASE ReleaseAdmission(i)
    BY <1>29, TopFacts DEF ReleaseAdmission, Unwinding
<1>30. CASE ReleaseTransport(i)
    BY <1>30, TopFacts DEF ReleaseTransport, Unwinding
<1>31. CASE ReleaseGuard(i) BY <1>31, TopFacts DEF ReleaseGuard, Unwinding
<1>32. CASE ReleaseLease(i) BY <1>32, TopFacts DEF ReleaseLease, Unwinding
<1>33. CASE ReleaseConnection(i)
    BY <1>33, TopFacts DEF ReleaseConnection, Unwinding
<1>34. CASE ReleaseLock(i) BY <1>34, TopFacts DEF ReleaseLock, Unwinding
<1>35. CASE FailEnds(i) BY <1>35 DEF FailEnds
<1>36. CASE CleanAfterFailure(i) BY <1>36 DEF CleanAfterFailure, DescriptorInv
<1>37. CASE StopEnds(i) BY <1>37 DEF StopEnds
<1>38. CASE StopBlocked(i) BY <1>38, TopFacts DEF StopBlocked, Blocked
<1>39. CASE RetryStop(i) BY <1>39 DEF RetryStop
<1>40. CASE Exit(i) BY <1>40 DEF Exit, Die
<1>41. CASE Crash(i) BY <1>41 DEF Crash, Die
<1>. QED
    BY <1>1, <1>2, <1>3, <1>4, <1>5, <1>6, <1>7, <1>8, <1>9, <1>10,
       <1>11, <1>12, <1>13, <1>14, <1>15, <1>16, <1>17, <1>18, <1>19, <1>20,
       <1>21, <1>22, <1>23, <1>24, <1>25, <1>26, <1>27, <1>28, <1>29, <1>30,
       <1>31, <1>32, <1>33, <1>34, <1>35, <1>36, <1>37, <1>38, <1>39, <1>40,
       <1>41
       DEF InstanceStep, StartStep, UnwindStep, ServeStep

\* So has a death, by whatever signal.
LEMMA EffectsOfDeath ==
    ASSUME OwnershipInv, NEW i \in Instances, Die(i)
    PROVE  Effects(i)
    BY NoneAssumption DEF OwnershipInv, TypeOK, Effects, Die, Goto, Become,
       StartPoints

-----------------------------------------------------------------------------
(* The services under managed start *)

\* A descriptor is withdrawn by somebody who is not a service.
Withdrawn ==
    /\ descriptor' = None
    /\ UNCHANGED <<osVars, ownerVars, schemaVars, writes, procVars, crashes>>

\* A death by signal is no crash of the bounded environment of Ownership.
Killed == \E i \in Instances : Die(i) /\ UNCHANGED crashes

\* All that launchers do to the services is to spawn, signal and clean up.
LEMMA LaunchMoves == LaunchNext => [Next]_vars \/ Killed \/ Withdrawn
<1> SUFFICES ASSUME LaunchNext PROVE [Next]_vars \/ Killed \/ Withdrawn
    OBVIOUS
<1> USE ChildAssumption
<1>1. ASSUME NEW i \in Instances, ServiceStep(i) PROVE [Next]_vars
    BY <1>1 DEF ServiceStep, Next
<1>2. CASE Settled
    BY <1>2 DEF Settled, allVars
<1>3. ASSUME NEW l \in Launchers,
             LauncherStep(l) \/ TimeOut(l) \/ Expire(l) \/ Interrupt(l)
      PROVE  [Next]_vars \/ Killed \/ Withdrawn
  <2>1. CASE Spawn(l)
      BY <2>1 DEF Spawn, Next, InstanceStep
  <2>2. CASE Terminate(l)
      BY <2>2 DEF Terminate, Next, InstanceStep, Killed
  <2>3. CASE Kill(l)
      BY <2>3 DEF Kill, Killed
  <2>4. CASE UnlinkChild(l)
      BY <2>4 DEF UnlinkChild, Withdrawn
  <2>5. CASE \/ Discover(l) \/ ProbeFirst(l) \/ TakeMutex(l) \/ ProbeAgain(l)
             \/ Attach(l) \/ Retry(l) \/ SpawnFails(l) \/ Poll(l)
             \/ DialAdvertised(l) \/ Reap(l) \/ CompareChild(l)
             \/ TimeOut(l) \/ Expire(l) \/ Interrupt(l)
      BY <2>5 DEF Discover, ProbeFirst, TakeMutex, ProbeAgain, Attach, Retry,
         SpawnFails, Poll, DialAdvertised, Reap, CompareChild, TimeOut, Expire,
         Interrupt
  <2>. QED
      BY <1>3, <2>1, <2>2, <2>3, <2>4, <2>5 DEF LauncherStep
<1>. QED
    BY <1>1, <1>2, <1>3 DEF LaunchNext

\* A service killed at any point leaves what a crash leaves.
LEMMA DeathKeeps ==
    ASSUME OwnershipInv, NEW i \in Instances, Die(i), UNCHANGED crashes
    PROVE  OwnershipInv'
<1> USE NoneAssumption, BoundsAssumption DEF OwnershipInv, TypeOK, Die, Goto,
   Become
<1>1. TypeOK'
    BY DEF OptInstance, ServiceState, Points, ownerVars, schemaVars
<1>2. PointsInv'
    BY DEF PointsInv, UnwindPoints
<1>3. NestedInv'
    BY DEF NestedInv
<1>4. HeldInv'
    BY DEF HeldInv, OptInstance
<1>5. RequestInv'
    BY DEF RequestInv
<1>6. AuthorityInv'
    BY DEF AuthorityInv, ownerVars
<1>7. SchemaInv'
    BY DEF SchemaInv, schemaVars
<1>8. DescriptorInv'
    BY DEF DescriptorInv, UnwindPoints
<1>9. GenerationInv'
    BY DEF GenerationInv, ownerVars
<1>10. LogInv'
    BY DEF LogInv, ownerVars
<1>. QED
    BY <1>1, <1>2, <1>3, <1>4, <1>5, <1>6, <1>7, <1>8, <1>9, <1>10

\* The services do not rely on their descriptor staying where they put it.
LEMMA WithdrawalKeeps == OwnershipInv /\ Withdrawn => OwnershipInv'
BY NoneAssumption DEF OwnershipInv, Withdrawn, osVars, ownerVars, schemaVars,
   procVars, TypeOK, OptInstance, PointsInv, NestedInv, HeldInv, RequestInv,
   AuthorityInv, SchemaInv, DescriptorInv, GenerationInv, LogInv

\* A step of managed start keeps the services' inductive invariant.
LEMMA LaunchedStep == OwnershipInv /\ [LaunchNext]_allVars => OwnershipInv'
<1> SUFFICES ASSUME OwnershipInv, [LaunchNext]_allVars PROVE OwnershipInv'
    OBVIOUS
<1>1. [Next]_vars \/ Killed \/ Withdrawn
    BY LaunchMoves DEF allVars
<1>2. CASE [Next]_vars BY <1>2, OwnershipStep
<1>3. CASE Killed BY <1>3, DeathKeeps DEF Killed
<1>4. CASE Withdrawn BY <1>4, WithdrawalKeeps
<1>. QED
    BY <1>1, <1>2, <1>3, <1>4

\* What a dead predecessor left is a state its successors can start from.
LEMMA CrashedInit ==
    ASSUME NEW p \in Instances, CrashedBefore(p)
    PROVE  OwnershipInv /\ ClaimedInv
<1> USE NoneAssumption, BoundsAssumption DEF CrashedBefore
<1>1. writes \in Seq(Write) /\ Len(writes) = 1 /\ writes[1] = [by |-> p, gen |-> 2]
    BY DEF Write
<1>2. TypeOK
    BY <1>1 DEF TypeOK, OptInstance, LeaseRecord, MutationGuard, Points, ServiceState
<1>3. PointsInv /\ NestedInv /\ HeldInv /\ RequestInv /\ AuthorityInv
    BY DEF PointsInv, NestedInv, HeldInv, RequestInv, AuthorityInv
<1>4. SchemaInv /\ DescriptorInv /\ GenerationInv
    BY DEF SchemaInv, DescriptorInv, GenerationInv
<1>5. LogInv
    BY <1>1 DEF LogInv
<1>6. ClaimedInv
    BY DEF ClaimedInv
<1>. QED
    BY <1>2, <1>3, <1>4, <1>5, <1>6 DEF OwnershipInv

\* Whether a predecessor died or not, the launchers find such a state.
LEMMA LaunchFinds == LaunchInit => OwnershipInv /\ ClaimedInv
BY CrashedInit, OwnershipInit, ClaimedInit, ChildAssumption DEF LaunchInit

\* Whatever launchers spawn, signal, kill and clean up, the services keep their
\* invariant: managed_start.py runs beside them and takes nothing away.
THEOREM LaunchedOwnership == LaunchSpec => []OwnershipInv
BY LaunchFinds, LaunchedStep, PTL DEF LaunchSpec

\* Readiness under managed start means ownership too.
THEOREM LaunchedReadyOwner == LaunchSpec => []ReadyMeansOwner
BY LaunchedOwnership, OwnerIsReady, PTL

\* A death and a withdrawal leave nothing that a stop would have to clean.
LEMMA ClaimedLaunched ==
    ASSUME "release" \notin Faults
    PROVE  OwnershipInv /\ ClaimedInv /\ [LaunchNext]_allVars => ClaimedInv'
<1> SUFFICES ASSUME OwnershipInv, ClaimedInv, [LaunchNext]_allVars
             PROVE  ClaimedInv'
    OBVIOUS
<1>1. [Next]_vars \/ Killed \/ Withdrawn
    BY LaunchMoves DEF allVars
<1>2. CASE [Next]_vars
    BY <1>2, ClaimedStep
<1>3. ASSUME NEW i \in Instances, Die(i) PROVE ClaimedInv'
    BY <1>3, NoneAssumption DEF OwnershipInv, TypeOK, ClaimedInv, Die, Goto,
       ownerVars, OptInstance
<1>4. CASE Withdrawn
    BY <1>4, NoneAssumption DEF ClaimedInv, Withdrawn, osVars, ownerVars, procVars
<1>. QED
    BY <1>1, <1>2, <1>3, <1>4 DEF Killed

\* With signals, kills and launchers cleaning up, too, a service that ended its
\* stop leaves no claim, while no release fails.
THEOREM LaunchedStopLeavesNothing ==
    ASSUME "release" \notin Faults
    PROVE  LaunchSpec => []StopLeavesNoClaim
BY LaunchFinds, LaunchedOwnership, ClaimedLaunched, ClaimedIsEnough, PTL
   DEF LaunchSpec

-----------------------------------------------------------------------------
(* Launchers: types and the bootstrap mutex *)

\* The statuses of managed_start that the actions name.
LEMMA StatusFacts ==
    /\ "" \in Statuses
    /\ {"attached", "started", "incompatible_service", "timeout",
        "spawn_failure", "readiness_failure"} \subseteq Statuses
BY Zenon DEF Statuses

\* The launchers' own variables keep their types.
LaunchersOK ==
    /\ mutex \in Launchers \cup {None}
    /\ at \in [Launchers -> LaunchPoints]
    /\ seen \in [Launchers -> OptInstance]
    /\ status \in [Launchers -> Statuses]

\* A launcher's step keeps the launchers' types.
LEMMA LaunchersStep ==
    OwnershipInv /\ LaunchersOK /\ [LaunchNext]_allVars => LaunchersOK'
<1> SUFFICES ASSUME OwnershipInv, LaunchersOK, [LaunchNext]_allVars
             PROVE  LaunchersOK'
    OBVIOUS
<1> USE StatusFacts DEF OwnershipInv, TypeOK, LaunchersOK, LaunchPoints, Move,
   Return
<1>1. CASE UNCHANGED allVars
    BY <1>1 DEF allVars, launchVars
<1>2. ASSUME NEW i \in Instances, ServiceStep(i) PROVE LaunchersOK'
    BY <1>2 DEF ServiceStep, launchVars
<1>3. ASSUME NEW l \in Launchers,
             LauncherStep(l) \/ TimeOut(l) \/ Expire(l) \/ Interrupt(l)
      PROVE  LaunchersOK'
  <2>1. CASE Discover(l) BY <2>1 DEF Discover
  <2>2. CASE ProbeFirst(l) BY <2>2 DEF ProbeFirst
  <2>3. CASE TakeMutex(l) BY <2>3 DEF TakeMutex
  <2>4. CASE ProbeAgain(l) BY <2>4 DEF ProbeAgain
  <2>5. CASE Attach(l) BY <2>5 DEF Attach
  <2>6. CASE Retry(l) BY <2>6 DEF Retry
  <2>7. CASE Spawn(l) BY <2>7 DEF Spawn
  <2>8. CASE SpawnFails(l) BY <2>8 DEF SpawnFails
  <2>9. CASE Poll(l) BY <2>9 DEF Poll
  <2>10. CASE DialAdvertised(l) BY <2>10 DEF DialAdvertised
  <2>11. CASE Terminate(l) BY <2>11 DEF Terminate
  <2>12. CASE Reap(l) BY <2>12 DEF Reap
  <2>13. CASE Kill(l) BY <2>13 DEF Kill
  <2>14. CASE CompareChild(l) BY <2>14 DEF CompareChild
  <2>15. CASE UnlinkChild(l) BY <2>15 DEF UnlinkChild
  <2>16. CASE TimeOut(l) BY <2>16 DEF TimeOut
  <2>17. CASE Expire(l) BY <2>17 DEF Expire
  <2>18. CASE Interrupt(l) BY <2>18 DEF Interrupt
  <2>. QED
      BY <1>3, <2>1, <2>2, <2>3, <2>4, <2>5, <2>6, <2>7, <2>8, <2>9, <2>10,
         <2>11, <2>12, <2>13, <2>14, <2>15, <2>16, <2>17, <2>18
         DEF LauncherStep
<1>4. CASE Settled
    BY <1>4, <1>1 DEF Settled
<1>. QED
    BY <1>1, <1>2, <1>3, <1>4 DEF LaunchNext

\* The points between taking the bootstrap mutex and leaving its with block.
Holding == {"second", "reprobe", "spawn", "poll", "dial", "terminate", "wait",
            "compare", "unlink"}

\* The points before Popen.
Unspawned == {"first", "probe", "mutex", "second", "reprobe", "attach", "retry",
              "spawn"}

\* A launcher inside the with block holds the mutex.
MutexInv == \A l \in Launchers : at[l] \in Holding => mutex = l

\* flock excludes the others, and every way out of the block releases it.
LEMMA MutexStep ==
    LaunchersOK /\ MutexInv /\ [LaunchNext]_allVars => MutexInv'
<1> SUFFICES ASSUME LaunchersOK, MutexInv, [LaunchNext]_allVars PROVE MutexInv'
    OBVIOUS
<1> USE LauncherAssumption DEF LaunchersOK, MutexInv, Holding, Move, Return
<1>1. CASE UNCHANGED allVars
    BY <1>1 DEF allVars, launchVars
<1>2. ASSUME NEW i \in Instances, ServiceStep(i) PROVE MutexInv'
    BY <1>2 DEF ServiceStep, launchVars
<1>3. ASSUME NEW l \in Launchers,
             LauncherStep(l) \/ TimeOut(l) \/ Expire(l) \/ Interrupt(l)
      PROVE  MutexInv'
  <2>1. CASE Discover(l) BY <2>1 DEF Discover
  <2>2. CASE ProbeFirst(l) BY <2>2 DEF ProbeFirst
  <2>3. CASE TakeMutex(l) BY <2>3 DEF TakeMutex
  <2>4. CASE ProbeAgain(l) BY <2>4 DEF ProbeAgain
  <2>5. CASE Attach(l) BY <2>5 DEF Attach
  <2>6. CASE Retry(l) BY <2>6 DEF Retry
  <2>7. CASE Spawn(l) BY <2>7 DEF Spawn
  <2>8. CASE SpawnFails(l) BY <2>8 DEF SpawnFails
  <2>9. CASE Poll(l) BY <2>9 DEF Poll
  <2>10. CASE DialAdvertised(l) BY <2>10 DEF DialAdvertised
  <2>11. CASE Terminate(l) BY <2>11 DEF Terminate
  <2>12. CASE Reap(l) BY <2>12 DEF Reap
  <2>13. CASE Kill(l) BY <2>13 DEF Kill
  <2>14. CASE CompareChild(l) BY <2>14 DEF CompareChild
  <2>15. CASE UnlinkChild(l) BY <2>15 DEF UnlinkChild
  <2>16. CASE TimeOut(l) BY <2>16 DEF TimeOut
  <2>17. CASE Expire(l) BY <2>17 DEF Expire
  <2>18. CASE Interrupt(l) BY <2>18 DEF Interrupt
  <2>. QED
      BY <1>3, <2>1, <2>2, <2>3, <2>4, <2>5, <2>6, <2>7, <2>8, <2>9, <2>10,
         <2>11, <2>12, <2>13, <2>14, <2>15, <2>16, <2>17, <2>18
         DEF LauncherStep
<1>4. CASE Settled
    BY <1>4, <1>1 DEF Settled
<1>. QED
    BY <1>1, <1>2, <1>3, <1>4 DEF LaunchNext

-----------------------------------------------------------------------------
(* Launchers and their children *)

\* A process holds the storage lock only while it runs.
LockInv == \A i \in Instances : lock = i => pc[i] \notin {"idle", "dead"}

\* A spawned service that serves has published its descriptor, and one whose stop
\* is blocked has withdrawn it.
ServingInv ==
    \A i \in Instances :
        /\ pc[i] = "serving" => "descriptor" \in stack[i]
        /\ pc[i] = "blocked" => "descriptor" \notin stack[i]

\* A predecessor is never started; if it ran, it died by a crash.
PredecessorInv ==
    \A p \in Predecessors : pc[p] = "idle" \/ (pc[p] = "dead" /\ crashes # 0)

\* A launcher's child exists from Popen on; it is dead before its descriptor is
\* compared, and after any return but "started", which is known only then.
ChildInv ==
    \A l \in Launchers :
        /\ at[l] \in Unspawned => pc[Child[l]] = "idle"
        /\ at[l] \in {"compare", "unlink"} => pc[Child[l]] = "dead"
        /\ status[l] = "started" => at[l] = "returned"
        /\ at[l] = "returned" =>
              \/ pc[Child[l]] = "idle"
              \/ pc[Child[l]] = "dead" /\ descriptor # Child[l]
              \/ status[l] = "started"

\* A child its launcher has read in the descriptor is past its start, and until it
\* withdraws that descriptor it stays there; once it was returned as started, a
\* launcher that discovers again sees it, so none spawns or cleans up beside it,
\* unless its listen queue was full.
AdoptInv ==
    \A l \in Launchers :
        seen[l] = Child[l] /\ (at[l] = "dial" \/ status[l] = "started") =>
            /\ pc[Child[l]] \notin StartPoints
            /\ "descriptor" \in stack[Child[l]] /\ Child[l] \notin Overloaded =>
                  /\ descriptor = Child[l]
                  /\ \A k \in Launchers \ {l} :
                        /\ at[k] \in Holding => at[k] \in {"second", "reprobe"}
                        /\ at[k] = "reprobe" => seen[k] = Child[l]

\* A launcher acts on its own child, as the child itself might, or not at all,
\* and leaves the descriptor alone.
LEMMA SignalEffects ==
    ASSUME OwnershipInv, NEW l \in Launchers, Spawn(l) \/ Terminate(l) \/ Kill(l)
    PROVE  /\ Child[l] \in Instances /\ descriptor' = descriptor
           /\ Effects(Child[l]) \/ UNCHANGED <<pc, stack, lock>>
<1>1. Child[l] \in Instances
    BY ChildAssumption
<1>2. CASE Spawn(l)
  <2>1. InstanceStep(Child[l])
      BY <1>2 DEF Spawn, InstanceStep
  <2>. QED
      BY <1>1, <1>2, <2>1, EffectsOfStep DEF Spawn, Start
<1>3. CASE Terminate(l)
  <2>1. CASE Stop(Child[l])
    <3>1. InstanceStep(Child[l])
        BY <2>1 DEF InstanceStep
    <3>. QED
        BY <1>1, <2>1, <3>1, EffectsOfStep DEF Stop
  <2>2. CASE Die(Child[l])
      BY <1>1, <2>2, EffectsOfDeath DEF Die
  <2>3. CASE UNCHANGED vars
      BY <1>1, <2>3 DEF vars
  <2>. QED
      BY <1>3, <2>1, <2>2, <2>3 DEF Terminate
<1>4. CASE Kill(l)
    BY <1>1, <1>4, EffectsOfDeath DEF Kill, Die
<1>. QED
    BY <1>2, <1>3, <1>4

\* Every step changes one service, and none begins to serve without a listener.
LEMMA LaunchEffects ==
    ASSUME OwnershipInv, [LaunchNext]_allVars
    PROVE  \/ \E i \in Instances :
                 Effects(i) /\ (pc[i] # "transport" \/ pc'[i] # "serving")
           \/ UNCHANGED <<pc, stack, lock>>
<1>1. ASSUME NEW i \in Instances, Start(i) \/ Stop(i)
      PROVE  Effects(i) /\ (pc[i] # "transport" \/ pc'[i] # "serving")
  <2>1. InstanceStep(i) /\ pc[i] # "transport"
      BY <1>1 DEF InstanceStep, Start, Stop
  <2>. QED
      BY <2>1, EffectsOfStep
<1>2. ASSUME NEW i \in Instances, Die(i)
      PROVE  Effects(i) /\ (pc[i] # "transport" \/ pc'[i] # "serving")
  <2>1. pc'[i] = "dead"
      BY <1>2 DEF Die, Goto, OwnershipInv, TypeOK
  <2>. QED
      BY <1>2, <2>1, EffectsOfDeath
<1>3. ASSUME NEW i \in Instances, ServiceStep(i)
      PROVE  Effects(i) /\ (pc[i] # "transport" \/ pc'[i] # "serving")
    BY <1>3, EffectsOfStep DEF ServiceStep
<1>4. CASE UNCHANGED vars
    BY <1>4 DEF vars
<1>5. CASE Settled \/ UNCHANGED allVars
    BY <1>5, <1>4 DEF Settled, allVars
<1>6. ASSUME NEW l \in Launchers,
             LauncherStep(l) \/ TimeOut(l) \/ Expire(l) \/ Interrupt(l)
      PROVE  \/ \E i \in Instances :
                   Effects(i) /\ (pc[i] # "transport" \/ pc'[i] # "serving")
             \/ UNCHANGED <<pc, stack, lock>>
  <2>1. Child[l] \in Instances
      BY ChildAssumption
  <2>2. CASE Spawn(l)
      BY <1>1, <2>1, <2>2 DEF Spawn
  <2>3. CASE Terminate(l)
      BY <1>1, <1>2, <1>4, <2>1, <2>3 DEF Terminate
  <2>4. CASE Kill(l)
      BY <1>2, <2>1, <2>4 DEF Kill
  <2>5. CASE UnlinkChild(l)
      BY <2>5 DEF UnlinkChild, osVars, procVars
  <2>6. CASE UNCHANGED vars
      BY <1>4, <2>6
  <2>7. CASE \/ Discover(l) \/ ProbeFirst(l) \/ TakeMutex(l) \/ ProbeAgain(l)
             \/ Attach(l) \/ Retry(l) \/ SpawnFails(l) \/ Poll(l)
             \/ DialAdvertised(l) \/ Reap(l) \/ CompareChild(l)
             \/ TimeOut(l) \/ Expire(l) \/ Interrupt(l)
      BY <2>6, <2>7 DEF Discover, ProbeFirst, TakeMutex, ProbeAgain, Attach,
         Retry, SpawnFails, Poll, DialAdvertised, Reap, CompareChild, TimeOut,
         Expire, Interrupt
  <2>. QED
      BY <1>6, <2>2, <2>3, <2>4, <2>5, <2>7 DEF LauncherStep
<1>. QED
    BY <1>3, <1>5, <1>6 DEF LaunchNext

\* The lock follows the life of its holder.
LEMMA LockStep ==
    OwnershipInv /\ LockInv /\ [LaunchNext]_allVars => LockInv'
<1> SUFFICES ASSUME OwnershipInv, LockInv, [LaunchNext]_allVars PROVE LockInv'
    OBVIOUS
<1>1. CASE UNCHANGED <<pc, stack, lock>>
    BY <1>1 DEF LockInv
<1>2. ASSUME NEW i \in Instances, Effects(i) PROVE LockInv'
    BY <1>2, NoneAssumption DEF LockInv, Effects
<1>. QED
    BY <1>1, <1>2, LaunchEffects

\* A child serves only after its descriptor was pushed, and keeps it.
LEMMA ServingStep ==
    OwnershipInv /\ ServingInv /\ [LaunchNext]_allVars => ServingInv'
<1> SUFFICES ASSUME OwnershipInv, ServingInv, [LaunchNext]_allVars
             PROVE  ServingInv'
    OBVIOUS
<1>1. CASE UNCHANGED <<pc, stack, lock>>
    BY <1>1 DEF ServingInv
<1>2. ASSUME NEW i \in Instances, Effects(i),
             pc[i] # "transport" \/ pc'[i] # "serving"
      PROVE  ServingInv'
    BY <1>2 DEF ServingInv, Effects
<1>. QED
    BY <1>1, <1>2, LaunchEffects

\* A child is started by its launcher alone, dies for good, and is advertised
\* by itself alone.
LEMMA ChildStep ==
    OwnershipInv /\ LaunchersOK /\ ChildInv /\ [LaunchNext]_allVars => ChildInv'
<1> SUFFICES ASSUME OwnershipInv, LaunchersOK, ChildInv, [LaunchNext]_allVars
             PROVE  ChildInv'
    OBVIOUS
<1> USE NoneAssumption, ChildAssumption DEF LaunchersOK, ChildInv, Unspawned,
   Move, Return
<1>1. CASE UNCHANGED allVars
    BY <1>1 DEF allVars, launchVars, vars
<1>2. ASSUME NEW i \in Instances, ServiceStep(i) PROVE ChildInv'
  <2>1. pc[i] # "idle" /\ Effects(i) /\ UNCHANGED launchVars
      BY <1>2, EffectsOfStep DEF ServiceStep
  <2>. QED
      BY <2>1 DEF Effects, launchVars
<1>3. ASSUME NEW l \in Launchers,
             LauncherStep(l) \/ TimeOut(l) \/ Expire(l) \/ Interrupt(l)
      PROVE  ChildInv'
  <2> USE DEF vars
  <2>1. CASE Discover(l) BY <2>1 DEF Discover
  <2>2. CASE ProbeFirst(l) BY <2>2 DEF ProbeFirst
  <2>3. CASE TakeMutex(l) BY <2>3 DEF TakeMutex
  <2>4. CASE ProbeAgain(l) BY <2>4 DEF ProbeAgain
  <2>5. CASE Attach(l) BY <2>5 DEF Attach
  <2>6. CASE Retry(l) BY <2>6 DEF Retry
  <2>7. CASE Spawn(l)
      BY <2>7 DEF Spawn, Start, Goto, OwnershipInv, TypeOK
  <2>8. CASE SpawnFails(l) BY <2>8 DEF SpawnFails
  <2>9. CASE Poll(l) BY <2>9 DEF Poll
  <2>10. CASE DialAdvertised(l) BY <2>10 DEF DialAdvertised
  <2>11. CASE Terminate(l)
    <3>1. \A k \in Launchers \ {l} : pc'[Child[k]] = pc[Child[k]]
        BY <2>11, SignalEffects DEF Effects
    <3>2. /\ descriptor' = descriptor /\ at[l] = "terminate"
          /\ at' = [at EXCEPT ![l] = "wait"] /\ UNCHANGED <<seen, status>>
        BY <2>11, SignalEffects DEF Terminate
    <3>. QED
        BY <3>1, <3>2
  <2>12. CASE Reap(l) BY <2>12 DEF Reap
  <2>13. CASE Kill(l) BY <2>13 DEF Kill, Die, Goto, OwnershipInv, TypeOK
  <2>14. CASE CompareChild(l) BY <2>14 DEF CompareChild
  <2>15. CASE UnlinkChild(l) BY <2>15 DEF UnlinkChild, procVars
  <2>16. CASE TimeOut(l) BY <2>16 DEF TimeOut
  <2>17. CASE Expire(l) BY <2>17 DEF Expire
  <2>18. CASE Interrupt(l) BY <2>18 DEF Interrupt
  <2>. QED
      BY <1>3, <2>1, <2>2, <2>3, <2>4, <2>5, <2>6, <2>7, <2>8, <2>9, <2>10,
         <2>11, <2>12, <2>13, <2>14, <2>15, <2>16, <2>17, <2>18
         DEF LauncherStep
<1>4. CASE Settled
    BY <1>4, <1>1 DEF Settled
<1>. QED
    BY <1>1, <1>2, <1>3, <1>4 DEF LaunchNext

\* A service that is advertised is seen, unless its listen queue is full.
LEMMA ServiceSeen ==
    ASSUME OwnershipInv, NEW c \in Instances \ Overloaded, "descriptor" \in stack[c]
    PROVE  ~SeemsGone(c)
<1>1. "transport" \in stack[c] /\ pc[c] # "dead"
    BY DEF OwnershipInv, NestedInv, PointsInv
<1>. QED
    BY <1>1 DEF SeemsGone, Bound

\* Only the published child's own step, or a launcher that holds the mutex,
\* could end what a descriptor that was read says of it.
LEMMA AdoptStep ==
    /\ OwnershipInv /\ LaunchersOK /\ MutexInv /\ ChildInv /\ AdoptInv
    /\ [LaunchNext]_allVars
    => AdoptInv'
<1> SUFFICES ASSUME OwnershipInv, LaunchersOK, MutexInv, ChildInv, AdoptInv,
                    [LaunchNext]_allVars
             PROVE  AdoptInv'
    OBVIOUS
<1> USE NoneAssumption, ChildAssumption DEF LaunchersOK, MutexInv, ChildInv,
   AdoptInv, Holding, Move, Return
<1>1. CASE UNCHANGED allVars
    BY <1>1 DEF allVars, launchVars, vars
<1>2. ASSUME NEW i \in Instances, ServiceStep(i) PROVE AdoptInv'
  <2>1. pc[i] # "idle" /\ Effects(i) /\ UNCHANGED <<mutex, at, seen, status>>
      BY <1>2, EffectsOfStep DEF ServiceStep, launchVars
  <2>2. ASSUME NEW l \in Launchers, pc[Child[l]] \notin StartPoints,
               seen[l] = Child[l], at[l] = "dial" \/ status[l] = "started",
               "descriptor" \in stack'[Child[l]]
        PROVE  /\ "descriptor" \in stack[Child[l]]
               /\ descriptor = Child[l] => descriptor' = Child[l]
    <3>1. "descriptor" \in stack[Child[l]]
        BY <2>1, <2>2 DEF Effects, StartPoints
    <3>2. ASSUME descriptor = Child[l], i # Child[l] PROVE descriptor' = Child[l]
      <4>1. pc[i] # "publish"
        <5>1. stack[Child[l]] # {}
            BY <3>1
        <5>2. stack[i] = {}
            BY <3>2, <5>1, SoleHolder
        <5>3. pc[i] = "publish" => "lock" \in stack[i]
            BY DEF OwnershipInv, PointsInv
        <5>. QED
            BY <5>2, <5>3
      <4>2. ~matched[i]
          BY <3>2 DEF OwnershipInv, DescriptorInv
      <4>. QED
          BY <2>1, <3>2, <4>1, <4>2 DEF Effects
    <3>3. ASSUME descriptor = Child[l], i = Child[l] PROVE descriptor' = Child[l]
        BY <2>1, <2>2, <3>3 DEF Effects
    <3>. QED
        BY <3>1, <3>2, <3>3
  <2>3. ASSUME NEW l \in Launchers, pc[Child[l]] \notin StartPoints,
               seen[l] = Child[l], at[l] = "dial" \/ status[l] = "started"
        PROVE  pc'[Child[l]] \notin StartPoints
      BY <2>1, <2>3 DEF Effects
  <2>. QED
      BY <2>1, <2>2, <2>3
<1>3. ASSUME NEW l \in Launchers,
             LauncherStep(l) \/ TimeOut(l) \/ Expire(l) \/ Interrupt(l)
      PROVE  AdoptInv'
  <2> USE DEF vars
  <2>1. CASE Discover(l) BY <2>1 DEF Discover
  <2>2. CASE ProbeFirst(l) BY <2>2 DEF ProbeFirst
  <2>3. CASE TakeMutex(l) BY <2>3 DEF TakeMutex
  <2>4. CASE ProbeAgain(l)
    <3>1. ASSUME NEW k \in Launchers, Child[k] \notin Overloaded,
                 "descriptor" \in stack[Child[k]]
          PROVE  ~SeemsGone(Child[k])
        BY <3>1, ServiceSeen
    <3>. QED
        BY <2>4, <3>1 DEF ProbeAgain
  <2>5. CASE Attach(l) BY <2>5 DEF Attach
  <2>6. CASE Retry(l) BY <2>6 DEF Retry
  <2>7. CASE Spawn(l)
    <3>1. /\ \A k \in Launchers \ {l} :
                pc'[Child[k]] = pc[Child[k]] /\ stack'[Child[k]] = stack[Child[k]]
          /\ descriptor' = descriptor
        BY <2>7, SignalEffects DEF Effects
    <3>2. /\ at[l] = "spawn" /\ at' = [at EXCEPT ![l] = "poll"]
          /\ UNCHANGED <<seen, status>>
        BY <2>7 DEF Spawn
    <3>. QED
        BY <3>1, <3>2
  <2>8. CASE SpawnFails(l) BY <2>8 DEF SpawnFails
  <2>9. CASE Poll(l) BY <2>9 DEF Poll, OwnershipInv, DescriptorInv, StartPoints
  <2>10. CASE DialAdvertised(l) BY <2>10 DEF DialAdvertised
  <2>11. CASE Terminate(l)
    <3>1. /\ \A k \in Launchers \ {l} :
                pc'[Child[k]] = pc[Child[k]] /\ stack'[Child[k]] = stack[Child[k]]
          /\ descriptor' = descriptor
        BY <2>11, SignalEffects DEF Effects
    <3>2. /\ at[l] = "terminate" /\ at' = [at EXCEPT ![l] = "wait"]
          /\ UNCHANGED <<seen, status>>
        BY <2>11 DEF Terminate
    <3>. QED
        BY <3>1, <3>2
  <2>12. CASE Reap(l) BY <2>12 DEF Reap
  <2>13. CASE Kill(l)
    <3>1. /\ \A k \in Launchers \ {l} :
                pc'[Child[k]] = pc[Child[k]] /\ stack'[Child[k]] = stack[Child[k]]
          /\ descriptor' = descriptor
        BY <2>13, SignalEffects DEF Effects
    <3>2. /\ at[l] = "wait" /\ at' = [at EXCEPT ![l] = "compare"]
          /\ UNCHANGED <<seen, status>>
        BY <2>13 DEF Kill
    <3>. QED
        BY <3>1, <3>2
  <2>14. CASE CompareChild(l) BY <2>14 DEF CompareChild
  <2>15. CASE UnlinkChild(l) BY <2>15 DEF UnlinkChild, procVars
  <2>16. CASE TimeOut(l) BY <2>16 DEF TimeOut
  <2>17. CASE Expire(l) BY <2>17 DEF Expire
  <2>18. CASE Interrupt(l) BY <2>18 DEF Interrupt
  <2>. QED
      BY <1>3, <2>1, <2>2, <2>3, <2>4, <2>5, <2>6, <2>7, <2>8, <2>9, <2>10,
         <2>11, <2>12, <2>13, <2>14, <2>15, <2>16, <2>17, <2>18
         DEF LauncherStep
<1>4. CASE Settled
    BY <1>4, <1>1 DEF Settled
<1>. QED
    BY <1>1, <1>2, <1>3, <1>4 DEF LaunchNext

-----------------------------------------------------------------------------
(* While nothing is disturbed *)

\* A service ends by itself, with its stop ended or blocked, or by a crash.
LEMMA DeathOfStep ==
    ASSUME OwnershipInv, NEW i \in Instances, InstanceStep(i)
    PROVE  /\ crashes' = crashes \/ crashes' = crashes + 1
           /\ pc'[i] = "dead" =>
                 pc[i] \in {"dead", "ended", "blocked"} \/ crashes' = crashes + 1
<1> USE DEF OwnershipInv, TypeOK, Goto, Raise
<1>1. CASE Start(i) \/ StartFault(i) \/ AcceptRequest(i) \/ ServeStep(i)
    BY <1>1 DEF Start, StartFault, AcceptRequest, ServeStep, BeginWrite,
       CommitWrite, AbortWrite
<1>2. CASE StartStep(i)
    BY <1>2 DEF StartStep, Refuse, AcquireStorageLock, OpenDatabase, AcquireLease,
       BeginMigration, ApplyMigration, FailMigration, SettleMigration,
       EnterRecovery, OpenGuard, FindInterrupted, Recover, PublishReadiness,
       RefuseReadiness, StartTransport, ServeInProcess, PushAdmission, Publish
<1>3. CASE Drain(i) \/ Stop(i) \/ UnwindStep(i) \/ RetryStop(i)
    BY <1>3 DEF Drain, Stop, RetryStop, UnwindStep, CompareDescriptor,
       UnlinkDescriptor, ReleaseAdmission, ReleaseTransport, ReleaseGuard,
       ReleaseLease, ReleaseConnection, ReleaseLock, FailEnds, CleanAfterFailure,
       StopEnds, StopBlocked
<1>4. CASE Exit(i) \/ Crash(i)
    BY <1>4 DEF Exit, Crash
<1>. QED
    BY <1>1, <1>2, <1>3, <1>4 DEF InstanceStep

\* A step of a launcher moves that launcher, and none that was killed.
LEMMA LauncherMoves ==
    ASSUME LaunchersOK, NEW l \in Launchers,
           LauncherStep(l) \/ TimeOut(l) \/ Expire(l) \/ Interrupt(l)
    PROVE  /\ at[l] # "killed"
           /\ \A k \in Launchers \ {l} : at'[k] = at[k]
BY DEF LaunchersOK, LauncherStep, Move, Return, Discover, ProbeFirst, TakeMutex,
   ProbeAgain, Attach, Retry, Spawn, SpawnFails, Poll, DialAdvertised, Terminate,
   Reap, Kill, CompareChild, UnlinkChild, TimeOut, Expire, Interrupt

\* A system that is undisturbed was undisturbed before.
LEMMA UndisturbedBefore ==
    ASSUME OwnershipInv, LaunchersOK, [LaunchNext]_allVars, Undisturbed'
    PROVE  Undisturbed
<1>1. crashes = 0
  <2>1. CASE Withdrawn \/ Killed
      BY <2>1 DEF Withdrawn, Killed, Undisturbed
  <2>2. CASE UNCHANGED vars
      BY <2>2 DEF vars, Undisturbed
  <2>3. ASSUME NEW i \in Instances, InstanceStep(i) PROVE crashes = 0
    <3>1. crashes' = crashes \/ crashes' = crashes + 1
        BY <2>3, DeathOfStep
    <3>. QED
        BY <3>1 DEF Undisturbed, OwnershipInv, TypeOK
  <2>4. [Next]_vars \/ Killed \/ Withdrawn
      BY LaunchMoves DEF allVars
  <2>. QED
      BY <2>1, <2>2, <2>3, <2>4 DEF Next
<1>2. \A k \in Launchers : at[k] # "killed"
  <2>1. CASE UNCHANGED launchVars
      BY <2>1 DEF launchVars, Undisturbed
  <2>2. ASSUME NEW l \in Launchers,
               LauncherStep(l) \/ TimeOut(l) \/ Expire(l) \/ Interrupt(l)
        PROVE  \A k \in Launchers : at[k] # "killed"
      BY <2>2, LauncherMoves DEF Undisturbed
  <2>. QED
      BY <2>1, <2>2 DEF LaunchNext, ServiceStep, Settled, allVars
<1>3. \A j \in Overloaded : pc[j] = "idle"
  <2>1. ASSUME NEW i \in Instances, Effects(i)
        PROVE  \A j \in Overloaded : pc[j] = "idle"
      BY <2>1, LauncherAssumption DEF Effects, Undisturbed
  <2>2. CASE UNCHANGED <<pc, stack, lock>>
      BY <2>2 DEF Undisturbed
  <2>. QED
      BY <2>1, <2>2, LaunchEffects
<1>4. "release" \notin Faults
    BY DEF Undisturbed
<1>. QED
    BY <1>1, <1>2, <1>3, <1>4 DEF Undisturbed

\* No launcher starts a predecessor.
LEMMA PredecessorStep ==
    OwnershipInv /\ PredecessorInv /\ [LaunchNext]_allVars => PredecessorInv'
<1> SUFFICES ASSUME OwnershipInv, PredecessorInv, [LaunchNext]_allVars,
                    NEW p \in Predecessors
             PROVE  pc'[p] = "idle" \/ (pc'[p] = "dead" /\ crashes' # 0)
    BY DEF PredecessorInv
<1> USE ChildAssumption DEF PredecessorInv
<1>1. p \in Instances /\ \A l \in Launchers : Child[l] \in Instances \ {p}
    OBVIOUS
<1>2. ASSUME NEW i \in Instances, ServiceStep(i)
      PROVE  pc'[p] = "idle" \/ (pc'[p] = "dead" /\ crashes' # 0)
  <2>1. Effects(i) /\ pc[i] # "idle"
      BY <1>2, EffectsOfStep DEF ServiceStep
  <2>2. crashes' = crashes \/ crashes' = crashes + 1
      BY <1>2, DeathOfStep DEF ServiceStep
  <2>3. crashes # 0 => crashes' # 0
      BY <2>2 DEF OwnershipInv, TypeOK
  <2>. QED
      BY <1>1, <2>1, <2>3 DEF Effects
<1>3. ASSUME NEW l \in Launchers,
             LauncherStep(l) \/ TimeOut(l) \/ Expire(l) \/ Interrupt(l)
      PROVE  pc'[p] = "idle" \/ (pc'[p] = "dead" /\ crashes' # 0)
  <2>1. CASE Spawn(l) \/ Terminate(l) \/ Kill(l)
    <3>1. pc'[p] = pc[p]
        BY <1>1, <2>1, SignalEffects DEF Effects
    <3>2. crashes' = crashes
        BY <2>1 DEF Spawn, Start, Terminate, Stop, Kill, vars
    <3>. QED
        BY <3>1, <3>2
  <2>2. CASE UnlinkChild(l)
      BY <2>2 DEF UnlinkChild, procVars
  <2>3. CASE UNCHANGED vars
      BY <2>3 DEF vars
  <2>4. CASE \/ Discover(l) \/ ProbeFirst(l) \/ TakeMutex(l) \/ ProbeAgain(l)
             \/ Attach(l) \/ Retry(l) \/ SpawnFails(l) \/ Poll(l)
             \/ DialAdvertised(l) \/ Reap(l) \/ CompareChild(l)
             \/ TimeOut(l) \/ Expire(l) \/ Interrupt(l)
      BY <2>3, <2>4 DEF Discover, ProbeFirst, TakeMutex, ProbeAgain, Attach,
         Retry, SpawnFails, Poll, DialAdvertised, Reap, CompareChild, TimeOut,
         Expire, Interrupt
  <2>. QED
      BY <1>3, <2>1, <2>2, <2>4 DEF LauncherStep
<1>4. CASE UNCHANGED allVars
    BY <1>4 DEF allVars, vars
<1>. QED
    BY <1>2, <1>3, <1>4 DEF LaunchNext, Settled

\* Where a launcher that has ended its child still has to look at the descriptor.
Cleaning == {"wait", "compare", "unlink"}

\* While nothing is disturbed, only a child whose launcher is about to clean up
\* after it is dead and advertised.
StaleInv ==
    Undisturbed => \A i \in Instances :
        descriptor = i /\ pc[i] = "dead" =>
            \E m \in Launchers : Child[m] = i /\ at[m] \in Cleaning

\* A service that ends by itself has withdrawn its descriptor, and one that its
\* launcher ended is cleaned up after.
LEMMA StaleStep ==
    /\ OwnershipInv /\ LaunchersOK /\ ServingInv /\ StaleInv
    /\ "release" \notin Faults => ClaimedInv
    /\ [LaunchNext]_allVars
    => StaleInv'
<1> SUFFICES ASSUME OwnershipInv, LaunchersOK, ServingInv, StaleInv,
                    "release" \notin Faults => ClaimedInv, [LaunchNext]_allVars,
                    Undisturbed',
                    NEW i \in Instances, descriptor' = i, pc'[i] = "dead"
             PROVE  \E m \in Launchers : Child[m] = i /\ at'[m] \in Cleaning
    BY DEF StaleInv
<1>1. Undisturbed
    BY UndisturbedBefore
<1>2. descriptor = i /\ pc[i] = "dead" =>
         \E m \in Launchers : Child[m] = i /\ at[m] \in Cleaning
    BY <1>1 DEF StaleInv
<1>3. CASE UNCHANGED <<vars, at>>
    BY <1>2, <1>3 DEF vars
<1>4. ASSUME NEW j \in Instances, ServiceStep(j)
      PROVE  \E m \in Launchers : Child[m] = i /\ at'[m] \in Cleaning
  <2>1. Effects(j) /\ InstanceStep(j) /\ at' = at
      BY <1>4, EffectsOfStep DEF ServiceStep, launchVars
  <2>2. descriptor = i
      BY <2>1, NoneAssumption DEF Effects
  <2>3. pc[i] = "dead"
    <3>1. CASE i # j
        BY <2>1, <3>1 DEF Effects
    <3>2. CASE i = j
      <4>1. crashes' # crashes + 1
          BY <1>1 DEF Undisturbed
      <4>2. pc[i] \in {"dead", "ended", "blocked"}
          BY <2>1, <3>2, <4>1, DeathOfStep
      <4>3. pc[i] \in {"ended", "blocked"} => "descriptor" \notin stack[i]
          BY DEF ServingInv, OwnershipInv, PointsInv
      <4>4. "descriptor" \in stack[i] \/ pc[i] = "dead"
          BY <1>1, <2>2 DEF Undisturbed, ClaimedInv
      <4>. QED
          BY <4>2, <4>3, <4>4
    <3>. QED
        BY <3>1, <3>2
  <2>. QED
      BY <1>2, <2>1, <2>2, <2>3
<1>5. ASSUME NEW l \in Launchers,
             LauncherStep(l) \/ TimeOut(l) \/ Expire(l) \/ Interrupt(l)
      PROVE  \E m \in Launchers : Child[m] = i /\ at'[m] \in Cleaning
  <2>1. \A k \in Launchers \ {l} : at'[k] = at[k]
      BY <1>5, LauncherMoves
  <2> USE DEF LaunchersOK, Move, Return, Cleaning
  <2>2. CASE Spawn(l) \/ Terminate(l) \/ Kill(l)
    <3>1. descriptor = i
        BY <2>2, SignalEffects
    <3>2. CASE i = Child[l]
      <4>1. CASE Spawn(l)
          BY <3>2, <4>1 DEF Spawn, Start, Goto, OwnershipInv, TypeOK
      <4>2. CASE Terminate(l)
          BY <3>2, <4>2 DEF Terminate
      <4>3. CASE Kill(l)
          BY <3>2, <4>3 DEF Kill
      <4>. QED
          BY <2>2, <4>1, <4>2, <4>3
    <3>3. CASE i # Child[l]
      <4>1. pc[i] = "dead"
          BY <2>2, <3>3, SignalEffects DEF Effects
      <4>. QED
          BY <1>2, <2>1, <3>1, <3>3, <4>1
    <3>. QED
        BY <3>2, <3>3
  <2>3. CASE UnlinkChild(l)
      BY <2>3, NoneAssumption DEF UnlinkChild
  <2>4. CASE Reap(l)
      BY <1>2, <2>1, <2>4 DEF Reap, vars
  <2>5. CASE CompareChild(l)
      BY <1>2, <2>1, <2>5 DEF CompareChild, vars
  <2>6. ASSUME UNCHANGED vars, at[l] \notin Cleaning
        PROVE  \E m \in Launchers : Child[m] = i /\ at'[m] \in Cleaning
      BY <1>2, <2>1, <2>6 DEF vars
  <2>7. CASE \/ Discover(l) \/ ProbeFirst(l) \/ TakeMutex(l) \/ ProbeAgain(l)
             \/ Attach(l) \/ Retry(l) \/ SpawnFails(l) \/ Poll(l)
             \/ DialAdvertised(l) \/ TimeOut(l) \/ Expire(l)
      BY <2>6, <2>7 DEF Discover, ProbeFirst, TakeMutex, ProbeAgain, Attach,
         Retry, SpawnFails, Poll, DialAdvertised, TimeOut, Expire
  <2>8. CASE Interrupt(l)
      BY <2>8 DEF Interrupt, Undisturbed
  <2>. QED
      BY <1>5, <2>2, <2>3, <2>4, <2>5, <2>7, <2>8 DEF LauncherStep
<1>. QED
    BY <1>3, <1>4, <1>5 DEF LaunchNext, Settled, allVars, launchVars

\* While nothing is disturbed, a launcher that waits for its child reads no
\* descriptor but its child's, and returns that one.
OwnInv ==
    Undisturbed => \A l \in Launchers :
        /\ at[l] = "dial" => seen[l] \in {None, Child[l]}
        /\ status[l] = "started" => seen[l] = Child[l]

\* The inductive invariant of managed start.
LaunchInv ==
    /\ OwnershipInv /\ LaunchersOK /\ MutexInv
    /\ LockInv /\ ServingInv /\ PredecessorInv /\ ChildInv /\ AdoptInv
    /\ "release" \notin Faults => ClaimedInv
    /\ StaleInv /\ OwnInv

\* Under the mutex, with nothing disturbed, no other service is advertised: it is
\* a predecessor's, or its launcher's to clean up, or was seen before the spawn.
LEMMA PollsOwnChild ==
    ASSUME LaunchInv, Undisturbed, NEW l \in Launchers, at[l] = "poll"
    PROVE  descriptor \in {None, Child[l]}
<1> SUFFICES ASSUME descriptor \in Instances, descriptor # Child[l] PROVE FALSE
    BY DEF LaunchInv, OwnershipInv, TypeOK, OptInstance
<1>1. descriptor \notin Predecessors
    BY DEF LaunchInv, PredecessorInv, OwnershipInv, DescriptorInv, Undisturbed
<1>2. PICK k \in Launchers : Child[k] = descriptor
    BY <1>1, ChildAssumption
<1>3. k # l /\ at[k] \notin Holding
    BY <1>2 DEF LaunchInv, MutexInv, Holding
<1>4. pc[Child[k]] # "dead"
  <2>1. ASSUME pc[Child[k]] = "dead"
        PROVE  \E m \in Launchers : Child[m] = Child[k] /\ at[m] \in Cleaning
      BY <1>2, <2>1 DEF LaunchInv, StaleInv
  <2>. QED
      BY <1>3, <2>1, ChildAssumption DEF Cleaning, Holding
<1>5. "descriptor" \in stack[Child[k]]
    BY <1>2, <1>4 DEF LaunchInv, ClaimedInv, Undisturbed
<1>6. pc[Child[k]] # "idle"
    BY <1>2, <1>5 DEF LaunchInv, OwnershipInv, PointsInv
<1>7. at[k] = "returned"
    BY <1>3, <1>6 DEF LaunchInv, LaunchersOK, LaunchPoints, Holding, Unspawned,
       ChildInv, Undisturbed
<1>8. status[k] = "started" /\ seen[k] = Child[k]
    BY <1>4, <1>6, <1>7 DEF LaunchInv, ChildInv, OwnInv
<1>9. Child[k] \notin Overloaded
    BY <1>6 DEF Undisturbed
<1>. QED
    BY <1>3, <1>5, <1>8, <1>9 DEF LaunchInv, AdoptInv, Holding

\* A launcher reads at the poll and returns "started" only from the dial.
LEMMA OwnStep == LaunchInv /\ [LaunchNext]_allVars => OwnInv'
<1> SUFFICES ASSUME LaunchInv, [LaunchNext]_allVars, Undisturbed'
             PROVE  \A l \in Launchers :
                       /\ at'[l] = "dial" => seen'[l] \in {None, Child[l]}
                       /\ status'[l] = "started" => seen'[l] = Child[l]
    BY DEF OwnInv
<1>0. LaunchersOK /\ ChildInv /\ Undisturbed
    BY UndisturbedBefore DEF LaunchInv
<1>1. \A l \in Launchers :
         /\ at[l] = "dial" => seen[l] \in {None, Child[l]}
         /\ status[l] = "started" => seen[l] = Child[l] /\ at[l] = "returned"
    BY <1>0 DEF LaunchInv, OwnInv, ChildInv
<1> DEFINE Goal == \A l \in Launchers :
                      /\ at'[l] = "dial" => seen'[l] \in {None, Child[l]}
                      /\ status'[l] = "started" => seen'[l] = Child[l]
<1> USE <1>0, <1>1 DEF LaunchersOK, Move, Return
<1>2. CASE UNCHANGED launchVars
    BY <1>2 DEF launchVars
<1>3. ASSUME NEW l \in Launchers,
             LauncherStep(l) \/ TimeOut(l) \/ Expire(l) \/ Interrupt(l)
      PROVE  Goal
  <2>1. CASE Discover(l) BY <2>1 DEF Discover
  <2>2. CASE ProbeFirst(l) BY <2>2 DEF ProbeFirst
  <2>3. CASE TakeMutex(l) BY <2>3 DEF TakeMutex
  <2>4. CASE ProbeAgain(l) BY <2>4 DEF ProbeAgain
  <2>5. CASE Attach(l) BY <2>5 DEF Attach
  <2>6. CASE Retry(l) BY <2>6 DEF Retry
  <2>7. CASE Spawn(l) BY <2>7 DEF Spawn
  <2>8. CASE SpawnFails(l) BY <2>8 DEF SpawnFails
  <2>9. CASE Poll(l)
    <3>1. descriptor \in {None, Child[l]}
        BY <2>9, PollsOwnChild DEF Poll
    <3>. QED
        BY <2>9, <3>1 DEF Poll
  <2>10. CASE DialAdvertised(l) BY <2>10 DEF DialAdvertised, DialedReady
  <2>11. CASE Terminate(l) BY <2>11 DEF Terminate
  <2>12. CASE Reap(l) BY <2>12 DEF Reap
  <2>13. CASE Kill(l) BY <2>13 DEF Kill
  <2>14. CASE CompareChild(l) BY <2>14 DEF CompareChild
  <2>15. CASE UnlinkChild(l) BY <2>15 DEF UnlinkChild
  <2>16. CASE TimeOut(l) BY <2>16 DEF TimeOut
  <2>17. CASE Expire(l) BY <2>17 DEF Expire
  <2>18. CASE Interrupt(l) BY <2>18 DEF Interrupt
  <2>. QED
      BY <1>3, <2>1, <2>2, <2>3, <2>4, <2>5, <2>6, <2>7, <2>8, <2>9, <2>10,
         <2>11, <2>12, <2>13, <2>14, <2>15, <2>16, <2>17, <2>18
         DEF LauncherStep
<1>. QED
    BY <1>2, <1>3 DEF LaunchNext, ServiceStep, Settled, allVars

-----------------------------------------------------------------------------
(* What managed start promises *)

\* Before the first step nothing is spawned, held or read.
LEMMA LaunchInvInit == LaunchInit => LaunchInv
<1> SUFFICES ASSUME LaunchInit PROVE LaunchInv
    OBVIOUS
<1>1. OwnershipInv /\ ClaimedInv
    BY LaunchFinds
<1>2. status = [l \in Launchers |-> ""] /\ \A l \in Launchers : status[l] # "started"
    BY Zenon DEF LaunchInit
<1>3. LaunchersOK
    BY <1>2, StatusFacts DEF LaunchInit, LaunchersOK, LaunchPoints, OptInstance
<1>4. /\ lock = None /\ \A i \in Instances : pc[i] \in {"idle", "dead"}
      /\ \A i \in Instances : pc[i] = "dead" => crashes # 0
      /\ \A l \in Launchers : pc[Child[l]] = "idle"
  <2>1. Init \/ \E p \in Predecessors : CrashedBefore(p)
      BY DEF LaunchInit
  <2>2. \A l \in Launchers : Child[l] \in Instances \ Predecessors
      BY ChildAssumption
  <2>3. CASE Init
      BY <2>2, <2>3 DEF Init
  <2>4. ASSUME NEW p \in Predecessors, CrashedBefore(p)
        PROVE  /\ lock = None /\ \A i \in Instances : pc[i] \in {"idle", "dead"}
               /\ \A i \in Instances : pc[i] = "dead" => crashes # 0
               /\ \A l \in Launchers : pc[Child[l]] = "idle"
      BY <2>2, <2>4 DEF CrashedBefore
  <2>. QED
      BY <2>1, <2>3, <2>4
<1>5. MutexInv /\ LockInv /\ ServingInv /\ PredecessorInv
    BY <1>4, NoneAssumption, ChildAssumption DEF LaunchInit, MutexInv, Holding,
       LockInv, ServingInv, PredecessorInv
<1>6. ChildInv /\ AdoptInv
    BY <1>2, <1>4 DEF LaunchInit, ChildInv, AdoptInv
<1>7. StaleInv /\ OwnInv
    BY <1>2, <1>4 DEF LaunchInit, StaleInv, OwnInv, Undisturbed
<1>. QED
    BY <1>1, <1>3, <1>5, <1>6, <1>7 DEF LaunchInv

\* Every step of a launcher or of a service keeps it.
LEMMA LaunchInvInductive == LaunchSpec => []LaunchInv
<1>1. ASSUME LaunchInv, [LaunchNext]_allVars PROVE LaunchInv'
  <2>1. OwnershipInv' /\ LaunchersOK' /\ MutexInv' /\ LockInv' /\ ServingInv'
      BY <1>1, LaunchedStep, LaunchersStep, MutexStep, LockStep, ServingStep
         DEF LaunchInv
  <2>2. PredecessorInv' /\ ChildInv' /\ AdoptInv' /\ StaleInv' /\ OwnInv'
      BY <1>1, PredecessorStep, ChildStep, AdoptStep, StaleStep, OwnStep
         DEF LaunchInv
  <2>3. "release" \notin Faults => ClaimedInv'
      BY <1>1, ClaimedLaunched DEF LaunchInv
  <2>. QED
      BY <2>1, <2>2, <2>3 DEF LaunchInv
<1>. QED
    BY <1>1, LaunchInvInit, PTL DEF LaunchSpec

\* The type invariant of managed start, for any launchers and children.
THEOREM LaunchTypeCorrect == LaunchSpec => []LaunchTypeOK
<1>1. LaunchInv => LaunchTypeOK
    BY DEF LaunchInv, OwnershipInv, LaunchersOK, LaunchTypeOK
<1>. QED
    BY <1>1, LaunchInvInductive, PTL

\* The child of a launcher that reported a failure never ran or is dead, holds no
\* lock and is not advertised, whatever it was doing when it was terminated or
\* killed (_stop_child, _clean_child_descriptor).
THEOREM FailedStartClean == LaunchSpec => []FailedStartLeavesNothing
<1>1. LaunchInv => FailedStartLeavesNothing
  <2> SUFFICES ASSUME LaunchInv, NEW l \in Launchers, at[l] = "returned",
                      status[l] \in {"spawn_failure", "readiness_failure"}
               PROVE  /\ pc[Child[l]] \in {"idle", "dead"}
                      /\ lock # Child[l] /\ descriptor # Child[l]
      BY DEF FailedStartLeavesNothing
  <2>1. \/ pc[Child[l]] = "idle"
        \/ pc[Child[l]] = "dead" /\ descriptor # Child[l]
      BY DEF LaunchInv, ChildInv
  <2>2. lock # Child[l] /\ (pc[Child[l]] = "idle" => descriptor # Child[l])
      BY <2>1, ChildAssumption DEF LaunchInv, LockInv, OwnershipInv, DescriptorInv
  <2>. QED
      BY <2>1, <2>2
<1>. QED
    BY <1>1, LaunchInvInductive, PTL

\* When a launcher spawns, another launcher's child is starting or serving only
\* if that launcher was killed, its listen queue is full, or its launcher
\* returned another descriptor than the child's, which takes a disturbance: the
\* mutex excludes those still waiting for theirs, and the second discovery sees a
\* started one.
THEOREM SpawnAlone == LaunchSpec => SpawnsAlone
<1>1. ASSUME LaunchInv, NEW l \in Launchers, NEW k \in Launchers \ {l},
             at[l] = "spawn", pc[Child[k]] \in StartPoints \cup {"serving"},
             at[k] # "killed", Child[k] \notin Overloaded
      PROVE  status[k] = "started" /\ seen[k] # Child[k] /\ ~Undisturbed
  <2>1. mutex = l /\ at[k] \notin Holding
      BY <1>1 DEF LaunchInv, MutexInv, Holding
  <2>2. pc[Child[k]] \notin {"idle", "dead"}
      BY <1>1 DEF StartPoints
  <2>3. at[k] = "returned"
      BY <1>1, <2>1, <2>2 DEF LaunchInv, LaunchersOK, LaunchPoints, Holding,
         Unspawned, ChildInv
  <2>4. status[k] = "started"
      BY <1>1, <2>2, <2>3 DEF LaunchInv, ChildInv
  <2>5. seen[k] # Child[k]
    <3>1. ASSUME seen[k] = Child[k] PROVE "descriptor" \in stack[Child[k]]
        BY <1>1, <2>4, <3>1, ChildAssumption DEF LaunchInv, AdoptInv, ServingInv
    <3>. QED
        BY <1>1, <2>4, <3>1 DEF LaunchInv, AdoptInv, Holding
  <2>. QED
      BY <1>1, <2>4, <2>5 DEF LaunchInv, OwnInv
<1>2. LaunchInv /\ [LaunchNext]_allVars =>
        [\A l \in Launchers : at[l] = "spawn" /\ at'[l] = "poll" =>
            \A k \in Launchers \ {l} :
                pc[Child[k]] \in StartPoints \cup {"serving"} =>
                    \/ at[k] = "killed"
                    \/ Child[k] \in Overloaded
                    \/ status[k] = "started" /\ seen[k] # Child[k] /\ ~Undisturbed
        ]_allVars
    BY <1>1
<1>. QED
    BY <1>2, LaunchInvInductive, PTL DEF LaunchSpec, SpawnsAlone

\* The status tells "attached to an existing service" from "started a new one":
\* what a launcher returns as started is its own child (ManagedStartResult),
\* while nothing has been disturbed.
StartedIsOwnChild ==
    Undisturbed => \A l \in Launchers :
        at[l] = "returned" /\ status[l] = "started" => seen[l] = Child[l]

\* Until a service crashes, a launcher is killed or a listen queue is full, and
\* while every release succeeds, "started" means that the descriptor returned is
\* the launcher's own child's.  A stale descriptor is enough to break it: the
\* child answers at the same endpoint before it has published its own.
THEOREM StartedOwnChild == LaunchSpec => []StartedIsOwnChild
<1>1. LaunchInv => StartedIsOwnChild
    BY DEF LaunchInv, OwnInv, StartedIsOwnChild
<1>. QED
    BY <1>1, LaunchInvInductive, PTL
=============================================================================
