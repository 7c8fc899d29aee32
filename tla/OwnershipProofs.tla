--------------------------- MODULE OwnershipProofs ---------------------------
(* Safety of workspace ownership, for any set of instances and any bounds. *)
EXTENDS Ownership, TLAPS

-----------------------------------------------------------------------------
(* Type correctness *)

\* Every step of every instance keeps each variable in its domain.
LEMMA TypeStep == TypeOK /\ [Next]_vars => TypeOK'
<1> SUFFICES ASSUME TypeOK, [Next]_vars PROVE TypeOK'
    OBVIOUS
<1> USE NoneAssumption DEF TypeOK, OptInstance, LeaseRecord, MutationGuard,
   Write, ServiceState, Resources, Points, StartPoints, UnwindPoints, Push,
   Pop, Goto, Become, Raise, osVars, ownerVars, schemaVars, NoGuard
<1>1. CASE UNCHANGED vars
    BY <1>1 DEF vars
<1>2. ASSUME NEW i \in Instances, InstanceStep(i) PROVE TypeOK'
  <2>1. CASE Start(i) BY <2>1 DEF Start
  <2>2. CASE StartFault(i) BY <2>2 DEF StartFault
  <2>3. CASE Refuse(i) BY <2>3 DEF Refuse
  <2>4. CASE AcquireStorageLock(i) BY <2>4 DEF AcquireStorageLock
  <2>5. CASE OpenDatabase(i) BY <2>5 DEF OpenDatabase
  <2>6. CASE AcquireLease(i) BY <2>6 DEF AcquireLease
  <2>7. CASE BeginMigration(i) BY <2>7 DEF BeginMigration
  <2>8. CASE ApplyMigration(i) BY <2>8 DEF ApplyMigration
  <2>9. CASE FailMigration(i) BY <2>9 DEF FailMigration
  <2>10. CASE SettleMigration(i) BY <2>10 DEF SettleMigration
  <2>11. CASE EnterRecovery(i) BY <2>11 DEF EnterRecovery
  <2>12. CASE OpenGuard(i) BY <2>12 DEF OpenGuard
  <2>13. CASE FindInterrupted(i) BY <2>13 DEF FindInterrupted
  <2>14. CASE Recover(i) BY <2>14 DEF Recover
  <2>15. CASE PublishReadiness(i) BY <2>15 DEF PublishReadiness
  <2>16. CASE RefuseReadiness(i) BY <2>16 DEF RefuseReadiness
  <2>17. CASE StartTransport(i) BY <2>17 DEF StartTransport
  <2>18. CASE ServeInProcess(i) BY <2>18 DEF ServeInProcess
  <2>19. CASE PushAdmission(i) BY <2>19 DEF PushAdmission
  <2>20. CASE Publish(i) BY <2>20 DEF Publish
  <2>21. CASE AcceptRequest(i) BY <2>21 DEF AcceptRequest
  <2>22. CASE BeginWrite(i) BY <2>22 DEF BeginWrite
  <2>23. CASE CommitWrite(i) BY <2>23 DEF CommitWrite
  <2>24. CASE AbortWrite(i) BY <2>24 DEF AbortWrite
  <2>25. CASE Drain(i) BY <2>25 DEF Drain
  <2>26. CASE Stop(i) BY <2>26 DEF Stop
  <2>27. CASE CompareDescriptor(i) BY <2>27 DEF CompareDescriptor
  <2>28. CASE UnlinkDescriptor(i) BY <2>28 DEF UnlinkDescriptor
  <2>29. CASE ReleaseAdmission(i) BY <2>29 DEF ReleaseAdmission
  <2>30. CASE ReleaseTransport(i) BY <2>30 DEF ReleaseTransport
  <2>31. CASE ReleaseGuard(i) BY <2>31 DEF ReleaseGuard
  <2>32. CASE ReleaseLease(i) BY <2>32 DEF ReleaseLease
  <2>33. CASE ReleaseConnection(i) BY <2>33 DEF ReleaseConnection
  <2>34. CASE ReleaseLock(i) BY <2>34 DEF ReleaseLock
  <2>35. CASE FailEnds(i) BY <2>35 DEF FailEnds
  <2>36. CASE CleanAfterFailure(i) BY <2>36 DEF CleanAfterFailure
  <2>37. CASE StopEnds(i) BY <2>37 DEF StopEnds
  <2>38. CASE StopBlocked(i) BY <2>38 DEF StopBlocked
  <2>39. CASE RetryStop(i) BY <2>39 DEF RetryStop
  <2>40. CASE Exit(i) BY <2>40 DEF Exit, Die
  <2>41. CASE Crash(i) BY <2>41 DEF Crash, Die
  <2>. QED
    BY <1>2, <2>1, <2>2, <2>3, <2>4, <2>5, <2>6, <2>7, <2>8, <2>9, <2>10,
       <2>11, <2>12, <2>13, <2>14, <2>15, <2>16, <2>17, <2>18, <2>19, <2>20,
       <2>21, <2>22, <2>23, <2>24, <2>25, <2>26, <2>27, <2>28, <2>29, <2>30,
       <2>31, <2>32, <2>33, <2>34, <2>35, <2>36, <2>37, <2>38, <2>39, <2>40,
       <2>41
       DEF InstanceStep, StartStep, UnwindStep, ServeStep
<1>. QED
    BY <1>1, <1>2 DEF Next

\* The type invariant of workspace ownership holds of every behaviour.
THEOREM TypeCorrect == Spec => []TypeOK
<1>1. Init => TypeOK
    BY NoneAssumption DEF Init, TypeOK, OptInstance, LeaseRecord, MutationGuard,
       Write, NoLease, NoGuard, Points, ServiceState, Resources
<1>2. QED
    BY <1>1, TypeStep, PTL DEF Spec

-----------------------------------------------------------------------------
(* The resource stack *)

\* What lies below the top of the stack (ResourceStack.unwind releases it first).
LEMMA TopFacts ==
    ASSUME TypeOK, NEW i \in Instances
    PROVE  /\ Top(i, "lock") => stack[i] = {"lock"}
           /\ Top(i, "connection") => stack[i] \subseteq {"lock", "connection"}
           /\ Top(i, "lease") => stack[i] \subseteq {"lock", "connection", "lease"}
           /\ Top(i, "guard") =>
                 stack[i] \subseteq {"lock", "connection", "lease", "guard"}
           /\ Top(i, "transport") =>
                 stack[i] \subseteq Resources \ {"admission", "descriptor"}
           /\ Top(i, "admission") => stack[i] \subseteq Resources \ {"descriptor"}
BY DEF TypeOK, Top, Resources, Rank

\* At most one instance has anything on its resource stack: the storage lock is
\* the first resource acquired and the last released.
LEMMA SoleHolder ==
    ASSUME OwnershipInv, NEW i \in Instances, NEW j \in Instances, i # j,
           stack[i] # {}
    PROVE  stack[j] = {}
<1>1. "lock" \in stack[i]
    BY DEF OwnershipInv, TypeOK, NestedInv, Resources
<1>2. "lock" \notin stack[j]
    BY <1>1 DEF OwnershipInv, HeldInv
<1>. QED
    BY <1>2 DEF OwnershipInv, TypeOK, NestedInv, Resources

\* A step keeps the stack truthful about the lock and the connection.
LEMMA HeldStep == OwnershipInv /\ [Next]_vars => HeldInv'
<1> SUFFICES ASSUME OwnershipInv, [Next]_vars PROVE HeldInv'
    OBVIOUS
<1> USE NoneAssumption, BoundsAssumption DEF OwnershipInv, TypeOK, Push, Pop,
   Goto, Raise, osVars, HeldInv, NestedInv, PointsInv, OptInstance
<1>1. CASE UNCHANGED vars
    BY <1>1 DEF vars
<1>2. ASSUME NEW i \in Instances, InstanceStep(i) PROVE HeldInv'
  <2>1. CASE Start(i) BY <2>1 DEF Start
  <2>2. CASE StartFault(i) BY <2>2 DEF StartFault
  <2>3. CASE Refuse(i) BY <2>3 DEF Refuse
  <2>4. CASE AcquireStorageLock(i) BY <2>4 DEF AcquireStorageLock
  <2>5. CASE OpenDatabase(i) BY <2>5 DEF OpenDatabase
  <2>6. CASE AcquireLease(i) BY <2>6 DEF AcquireLease
  <2>7. CASE BeginMigration(i) BY <2>7 DEF BeginMigration
  <2>8. CASE ApplyMigration(i) BY <2>8 DEF ApplyMigration
  <2>9. CASE FailMigration(i) BY <2>9 DEF FailMigration
  <2>10. CASE SettleMigration(i) BY <2>10 DEF SettleMigration
  <2>11. CASE EnterRecovery(i) BY <2>11 DEF EnterRecovery
  <2>12. CASE OpenGuard(i) BY <2>12 DEF OpenGuard
  <2>13. CASE FindInterrupted(i) BY <2>13 DEF FindInterrupted
  <2>14. CASE Recover(i) BY <2>14 DEF Recover
  <2>15. CASE PublishReadiness(i) BY <2>15 DEF PublishReadiness
  <2>16. CASE RefuseReadiness(i) BY <2>16 DEF RefuseReadiness
  <2>17. CASE StartTransport(i) BY <2>17 DEF StartTransport
  <2>18. CASE ServeInProcess(i) BY <2>18 DEF ServeInProcess
  <2>19. CASE PushAdmission(i) BY <2>19 DEF PushAdmission
  <2>20. CASE Publish(i) BY <2>20 DEF Publish
  <2>21. CASE AcceptRequest(i) BY <2>21 DEF AcceptRequest
  <2>22. CASE BeginWrite(i) BY <2>22 DEF BeginWrite
  <2>23. CASE CommitWrite(i) BY <2>23 DEF CommitWrite
  <2>24. CASE AbortWrite(i) BY <2>24 DEF AbortWrite
  <2>25. CASE Drain(i) BY <2>25 DEF Drain
  <2>26. CASE Stop(i) BY <2>26 DEF Stop
  <2>27. CASE CompareDescriptor(i)
      BY <2>27, TopFacts DEF CompareDescriptor, Unwinding
  <2>28. CASE UnlinkDescriptor(i) BY <2>28 DEF UnlinkDescriptor
  <2>29. CASE ReleaseAdmission(i)
      BY <2>29, TopFacts DEF ReleaseAdmission, Unwinding
  <2>30. CASE ReleaseTransport(i)
      BY <2>30, TopFacts DEF ReleaseTransport, Unwinding
  <2>31. CASE ReleaseGuard(i) BY <2>31, TopFacts DEF ReleaseGuard, Unwinding
  <2>32. CASE ReleaseLease(i) BY <2>32, TopFacts DEF ReleaseLease, Unwinding
  <2>33. CASE ReleaseConnection(i)
    <3>1. stack[i] # {} /\ Top(i, "connection")
        BY <2>33 DEF ReleaseConnection, Unwinding, Top
    <3>2. \A j \in Instances : j # i => stack'[j] = {}
        BY <2>33, <3>1, SoleHolder DEF ReleaseConnection
    <3>3. "connection" \notin stack'[i] /\ ("lock" \in stack'[i] => lock' = i)
        BY <2>33 DEF ReleaseConnection
    <3>. QED
        BY <3>2, <3>3
  <2>34. CASE ReleaseLock(i) BY <2>34, TopFacts DEF ReleaseLock, Unwinding
  <2>35. CASE FailEnds(i) BY <2>35 DEF FailEnds
  <2>36. CASE CleanAfterFailure(i) BY <2>36 DEF CleanAfterFailure
  <2>37. CASE StopEnds(i) BY <2>37 DEF StopEnds
  <2>38. CASE StopBlocked(i) BY <2>38 DEF StopBlocked
  <2>39. CASE RetryStop(i) BY <2>39 DEF RetryStop
  <2>40. CASE Exit(i) BY <2>40 DEF Exit, Die
  <2>41. CASE Crash(i) BY <2>41 DEF Crash, Die
  <2>. QED
    BY <1>2, <2>1, <2>2, <2>3, <2>4, <2>5, <2>6, <2>7, <2>8, <2>9, <2>10,
       <2>11, <2>12, <2>13, <2>14, <2>15, <2>16, <2>17, <2>18, <2>19, <2>20,
       <2>21, <2>22, <2>23, <2>24, <2>25, <2>26, <2>27, <2>28, <2>29, <2>30,
       <2>31, <2>32, <2>33, <2>34, <2>35, <2>36, <2>37, <2>38, <2>39, <2>40,
       <2>41
       DEF InstanceStep, StartStep, UnwindStep, ServeStep
<1>. QED
    BY <1>1, <1>2 DEF Next

\* A step keeps every stack nested.
LEMMA NestedStep == OwnershipInv /\ [Next]_vars => NestedInv'
<1> SUFFICES ASSUME OwnershipInv, [Next]_vars PROVE NestedInv'
    OBVIOUS
<1> USE NoneAssumption, BoundsAssumption DEF OwnershipInv, TypeOK, Push, Pop,
   Goto, Raise, osVars, NestedInv, PointsInv
<1>1. CASE UNCHANGED vars
    BY <1>1 DEF vars
<1>2. ASSUME NEW i \in Instances, InstanceStep(i) PROVE NestedInv'
  <2>1. CASE Start(i) BY <2>1 DEF Start
  <2>2. CASE StartFault(i) BY <2>2 DEF StartFault
  <2>3. CASE Refuse(i) BY <2>3 DEF Refuse
  <2>4. CASE AcquireStorageLock(i) BY <2>4 DEF AcquireStorageLock
  <2>5. CASE OpenDatabase(i) BY <2>5 DEF OpenDatabase
  <2>6. CASE AcquireLease(i) BY <2>6 DEF AcquireLease
  <2>7. CASE BeginMigration(i) BY <2>7 DEF BeginMigration
  <2>8. CASE ApplyMigration(i) BY <2>8 DEF ApplyMigration
  <2>9. CASE FailMigration(i) BY <2>9 DEF FailMigration
  <2>10. CASE SettleMigration(i) BY <2>10 DEF SettleMigration
  <2>11. CASE EnterRecovery(i) BY <2>11 DEF EnterRecovery
  <2>12. CASE OpenGuard(i) BY <2>12 DEF OpenGuard
  <2>13. CASE FindInterrupted(i) BY <2>13 DEF FindInterrupted
  <2>14. CASE Recover(i) BY <2>14 DEF Recover
  <2>15. CASE PublishReadiness(i) BY <2>15 DEF PublishReadiness
  <2>16. CASE RefuseReadiness(i) BY <2>16 DEF RefuseReadiness
  <2>17. CASE StartTransport(i) BY <2>17 DEF StartTransport
  <2>18. CASE ServeInProcess(i) BY <2>18 DEF ServeInProcess
  <2>19. CASE PushAdmission(i) BY <2>19 DEF PushAdmission
  <2>20. CASE Publish(i) BY <2>20 DEF Publish
  <2>21. CASE AcceptRequest(i) BY <2>21 DEF AcceptRequest
  <2>22. CASE BeginWrite(i) BY <2>22 DEF BeginWrite
  <2>23. CASE CommitWrite(i) BY <2>23 DEF CommitWrite
  <2>24. CASE AbortWrite(i) BY <2>24 DEF AbortWrite
  <2>25. CASE Drain(i) BY <2>25 DEF Drain
  <2>26. CASE Stop(i) BY <2>26 DEF Stop
  <2>27. CASE CompareDescriptor(i)
      BY <2>27, TopFacts DEF CompareDescriptor, Unwinding
  <2>28. CASE UnlinkDescriptor(i) BY <2>28 DEF UnlinkDescriptor
  <2>29. CASE ReleaseAdmission(i)
      BY <2>29, TopFacts DEF ReleaseAdmission, Unwinding
  <2>30. CASE ReleaseTransport(i)
      BY <2>30, TopFacts DEF ReleaseTransport, Unwinding
  <2>31. CASE ReleaseGuard(i) BY <2>31, TopFacts DEF ReleaseGuard, Unwinding
  <2>32. CASE ReleaseLease(i) BY <2>32, TopFacts DEF ReleaseLease, Unwinding
  <2>33. CASE ReleaseConnection(i)
      BY <2>33, TopFacts DEF ReleaseConnection, Unwinding
  <2>34. CASE ReleaseLock(i) BY <2>34, TopFacts DEF ReleaseLock, Unwinding
  <2>35. CASE FailEnds(i) BY <2>35 DEF FailEnds
  <2>36. CASE CleanAfterFailure(i) BY <2>36 DEF CleanAfterFailure
  <2>37. CASE StopEnds(i) BY <2>37 DEF StopEnds
  <2>38. CASE StopBlocked(i) BY <2>38 DEF StopBlocked
  <2>39. CASE RetryStop(i) BY <2>39 DEF RetryStop
  <2>40. CASE Exit(i) BY <2>40 DEF Exit, Die
  <2>41. CASE Crash(i) BY <2>41 DEF Crash, Die
  <2>. QED
    BY <1>2, <2>1, <2>2, <2>3, <2>4, <2>5, <2>6, <2>7, <2>8, <2>9, <2>10,
       <2>11, <2>12, <2>13, <2>14, <2>15, <2>16, <2>17, <2>18, <2>19, <2>20,
       <2>21, <2>22, <2>23, <2>24, <2>25, <2>26, <2>27, <2>28, <2>29, <2>30,
       <2>31, <2>32, <2>33, <2>34, <2>35, <2>36, <2>37, <2>38, <2>39, <2>40,
       <2>41
       DEF InstanceStep, StartStep, UnwindStep, ServeStep
<1>. QED
    BY <1>1, <1>2 DEF Next

\* A step leaves no request in flight without a listener or a caller.
LEMMA RequestStep == OwnershipInv /\ [Next]_vars => RequestInv'
<1> SUFFICES ASSUME OwnershipInv, [Next]_vars PROVE RequestInv'
    OBVIOUS
<1> USE NoneAssumption, BoundsAssumption DEF OwnershipInv, TypeOK, Push, Pop,
   Goto, Raise, osVars, RequestInv, NestedInv, PointsInv
<1>1. CASE UNCHANGED vars
    BY <1>1 DEF vars
<1>2. ASSUME NEW i \in Instances, InstanceStep(i) PROVE RequestInv'
  <2>1. CASE Start(i) BY <2>1 DEF Start
  <2>2. CASE StartFault(i) BY <2>2 DEF StartFault, StartPoints
  <2>3. CASE Refuse(i) BY <2>3 DEF Refuse, Refused
  <2>4. CASE AcquireStorageLock(i) BY <2>4 DEF AcquireStorageLock
  <2>5. CASE OpenDatabase(i) BY <2>5 DEF OpenDatabase
  <2>6. CASE AcquireLease(i) BY <2>6 DEF AcquireLease
  <2>7. CASE BeginMigration(i) BY <2>7 DEF BeginMigration
  <2>8. CASE ApplyMigration(i) BY <2>8 DEF ApplyMigration
  <2>9. CASE FailMigration(i) BY <2>9 DEF FailMigration
  <2>10. CASE SettleMigration(i) BY <2>10 DEF SettleMigration
  <2>11. CASE EnterRecovery(i) BY <2>11 DEF EnterRecovery
  <2>12. CASE OpenGuard(i) BY <2>12 DEF OpenGuard
  <2>13. CASE FindInterrupted(i) BY <2>13 DEF FindInterrupted
  <2>14. CASE Recover(i) BY <2>14 DEF Recover
  <2>15. CASE PublishReadiness(i)
      BY <2>15 DEF PublishReadiness, ReadinessSatisfied
  <2>16. CASE RefuseReadiness(i) BY <2>16 DEF RefuseReadiness
  <2>17. CASE StartTransport(i) BY <2>17 DEF StartTransport
  <2>18. CASE ServeInProcess(i) BY <2>18 DEF ServeInProcess
  <2>19. CASE PushAdmission(i) BY <2>19 DEF PushAdmission
  <2>20. CASE Publish(i) BY <2>20 DEF Publish
  <2>21. CASE AcceptRequest(i)
    <3>1. "transport" \in stack[i] \/ pc[i] = "serving"
        BY <2>21 DEF AcceptRequest, Admits
    <3>2. /\ pc' = pc /\ stack' = stack
          /\ \A j \in Instances : j # i => txn'[j] = txn[j]
        BY <2>21 DEF AcceptRequest
    <3>. QED
        BY <3>1, <3>2
  <2>22. CASE BeginWrite(i) BY <2>22 DEF BeginWrite
  <2>23. CASE CommitWrite(i) BY <2>23 DEF CommitWrite
  <2>24. CASE AbortWrite(i) BY <2>24 DEF AbortWrite
  <2>25. CASE Drain(i) BY <2>25 DEF Drain
  <2>26. CASE Stop(i) BY <2>26 DEF Stop
  <2>27. CASE CompareDescriptor(i)
      BY <2>27, TopFacts DEF CompareDescriptor, Unwinding
  <2>28. CASE UnlinkDescriptor(i) BY <2>28 DEF UnlinkDescriptor
  <2>29. CASE ReleaseAdmission(i)
      BY <2>29, TopFacts DEF ReleaseAdmission, Unwinding
  <2>30. CASE ReleaseTransport(i)
      BY <2>30, TopFacts DEF ReleaseTransport, Unwinding
  <2>31. CASE ReleaseGuard(i) BY <2>31, TopFacts DEF ReleaseGuard, Unwinding
  <2>32. CASE ReleaseLease(i) BY <2>32, TopFacts DEF ReleaseLease, Unwinding
  <2>33. CASE ReleaseConnection(i)
      BY <2>33, TopFacts DEF ReleaseConnection, Unwinding
  <2>34. CASE ReleaseLock(i) BY <2>34, TopFacts DEF ReleaseLock, Unwinding
  <2>35. CASE FailEnds(i) BY <2>35 DEF FailEnds
  <2>36. CASE CleanAfterFailure(i) BY <2>36 DEF CleanAfterFailure
  <2>37. CASE StopEnds(i) BY <2>37 DEF StopEnds
  <2>38. CASE StopBlocked(i) BY <2>38 DEF StopBlocked
  <2>39. CASE RetryStop(i) BY <2>39 DEF RetryStop
  <2>40. CASE Exit(i) BY <2>40 DEF Exit, Die
  <2>41. CASE Crash(i) BY <2>41 DEF Crash, Die
  <2>. QED
    BY <1>2, <2>1, <2>2, <2>3, <2>4, <2>5, <2>6, <2>7, <2>8, <2>9, <2>10,
       <2>11, <2>12, <2>13, <2>14, <2>15, <2>16, <2>17, <2>18, <2>19, <2>20,
       <2>21, <2>22, <2>23, <2>24, <2>25, <2>26, <2>27, <2>28, <2>29, <2>30,
       <2>31, <2>32, <2>33, <2>34, <2>35, <2>36, <2>37, <2>38, <2>39, <2>40,
       <2>41
       DEF InstanceStep, StartStep, UnwindStep, ServeStep
<1>. QED
    BY <1>1, <1>2 DEF Next

\* A step keeps the program points in agreement with the stacks.
LEMMA PointsStep == OwnershipInv /\ [Next]_vars => PointsInv'
<1> SUFFICES ASSUME OwnershipInv, [Next]_vars PROVE PointsInv'
    OBVIOUS
<1> USE NoneAssumption, BoundsAssumption DEF OwnershipInv, TypeOK, Push, Pop,
   Goto, Raise, osVars, PointsInv, UnwindPoints
<1>1. CASE UNCHANGED vars
    BY <1>1 DEF vars
<1>2. ASSUME NEW i \in Instances, InstanceStep(i) PROVE PointsInv'
  <2>1. CASE Start(i) BY <2>1 DEF Start
  <2>2. CASE StartFault(i) BY <2>2 DEF StartFault, StartPoints
  <2>3. CASE Refuse(i) BY <2>3 DEF Refuse, Refused
  <2>4. CASE AcquireStorageLock(i) BY <2>4 DEF AcquireStorageLock
  <2>5. CASE OpenDatabase(i) BY <2>5 DEF OpenDatabase
  <2>6. CASE AcquireLease(i) BY <2>6 DEF AcquireLease
  <2>7. CASE BeginMigration(i) BY <2>7 DEF BeginMigration
  <2>8. CASE ApplyMigration(i) BY <2>8 DEF ApplyMigration
  <2>9. CASE FailMigration(i) BY <2>9 DEF FailMigration
  <2>10. CASE SettleMigration(i) BY <2>10 DEF SettleMigration
  <2>11. CASE EnterRecovery(i) BY <2>11 DEF EnterRecovery
  <2>12. CASE OpenGuard(i) BY <2>12 DEF OpenGuard
  <2>13. CASE FindInterrupted(i) BY <2>13 DEF FindInterrupted
  <2>14. CASE Recover(i) BY <2>14 DEF Recover
  <2>15. CASE PublishReadiness(i)
      BY <2>15 DEF PublishReadiness, ReadinessSatisfied
  <2>16. CASE RefuseReadiness(i) BY <2>16 DEF RefuseReadiness
  <2>17. CASE StartTransport(i) BY <2>17 DEF StartTransport
  <2>18. CASE ServeInProcess(i) BY <2>18 DEF ServeInProcess
  <2>19. CASE PushAdmission(i) BY <2>19 DEF PushAdmission
  <2>20. CASE Publish(i) BY <2>20 DEF Publish
  <2>21. CASE AcceptRequest(i) BY <2>21 DEF AcceptRequest
  <2>22. CASE BeginWrite(i) BY <2>22 DEF BeginWrite
  <2>23. CASE CommitWrite(i) BY <2>23 DEF CommitWrite
  <2>24. CASE AbortWrite(i) BY <2>24 DEF AbortWrite
  <2>25. CASE Drain(i) BY <2>25 DEF Drain
  <2>26. CASE Stop(i) BY <2>26 DEF Stop
  <2>27. CASE CompareDescriptor(i)
      BY <2>27, TopFacts DEF CompareDescriptor, Unwinding
  <2>28. CASE UnlinkDescriptor(i) BY <2>28 DEF UnlinkDescriptor
  <2>29. CASE ReleaseAdmission(i)
      BY <2>29, TopFacts DEF ReleaseAdmission, Unwinding
  <2>30. CASE ReleaseTransport(i)
      BY <2>30, TopFacts DEF ReleaseTransport, Unwinding
  <2>31. CASE ReleaseGuard(i) BY <2>31, TopFacts DEF ReleaseGuard, Unwinding
  <2>32. CASE ReleaseLease(i) BY <2>32, TopFacts DEF ReleaseLease, Unwinding
  <2>33. CASE ReleaseConnection(i)
      BY <2>33, TopFacts DEF ReleaseConnection, Unwinding
  <2>34. CASE ReleaseLock(i) BY <2>34, TopFacts DEF ReleaseLock, Unwinding
  <2>35. CASE FailEnds(i) BY <2>35 DEF FailEnds
  <2>36. CASE CleanAfterFailure(i) BY <2>36 DEF CleanAfterFailure
  <2>37. CASE StopEnds(i) BY <2>37 DEF StopEnds
  <2>38. CASE StopBlocked(i) BY <2>38 DEF StopBlocked
  <2>39. CASE RetryStop(i) BY <2>39 DEF RetryStop
  <2>40. CASE Exit(i) BY <2>40 DEF Exit, Die
  <2>41. CASE Crash(i) BY <2>41 DEF Crash, Die
  <2>. QED
    BY <1>2, <2>1, <2>2, <2>3, <2>4, <2>5, <2>6, <2>7, <2>8, <2>9, <2>10,
       <2>11, <2>12, <2>13, <2>14, <2>15, <2>16, <2>17, <2>18, <2>19, <2>20,
       <2>21, <2>22, <2>23, <2>24, <2>25, <2>26, <2>27, <2>28, <2>29, <2>30,
       <2>31, <2>32, <2>33, <2>34, <2>35, <2>36, <2>37, <2>38, <2>39, <2>40,
       <2>41
       DEF InstanceStep, StartStep, UnwindStep, ServeStep
<1>. QED
    BY <1>1, <1>2 DEF Next

\* A step keeps the descriptor with a publisher that is past start.
LEMMA DescriptorStep == OwnershipInv /\ [Next]_vars => DescriptorInv'
<1> SUFFICES ASSUME OwnershipInv, [Next]_vars PROVE DescriptorInv'
    OBVIOUS
<1> USE NoneAssumption, BoundsAssumption DEF OwnershipInv, TypeOK, Push, Pop,
   Goto, Raise, osVars, DescriptorInv, PointsInv, NestedInv, HeldInv,
   UnwindPoints
<1>1. CASE UNCHANGED vars
    BY <1>1 DEF vars
<1>2. ASSUME NEW i \in Instances, InstanceStep(i) PROVE DescriptorInv'
  <2>1. CASE Start(i) BY <2>1 DEF Start
  <2>2. CASE StartFault(i) BY <2>2 DEF StartFault, StartPoints
  <2>3. CASE Refuse(i) BY <2>3 DEF Refuse, Refused
  <2>4. CASE AcquireStorageLock(i) BY <2>4 DEF AcquireStorageLock
  <2>5. CASE OpenDatabase(i) BY <2>5 DEF OpenDatabase
  <2>6. CASE AcquireLease(i) BY <2>6 DEF AcquireLease
  <2>7. CASE BeginMigration(i) BY <2>7 DEF BeginMigration
  <2>8. CASE ApplyMigration(i) BY <2>8 DEF ApplyMigration
  <2>9. CASE FailMigration(i) BY <2>9 DEF FailMigration
  <2>10. CASE SettleMigration(i) BY <2>10 DEF SettleMigration
  <2>11. CASE EnterRecovery(i) BY <2>11 DEF EnterRecovery
  <2>12. CASE OpenGuard(i) BY <2>12 DEF OpenGuard
  <2>13. CASE FindInterrupted(i) BY <2>13 DEF FindInterrupted
  <2>14. CASE Recover(i) BY <2>14 DEF Recover
  <2>15. CASE PublishReadiness(i)
      BY <2>15 DEF PublishReadiness, ReadinessSatisfied
  <2>16. CASE RefuseReadiness(i) BY <2>16 DEF RefuseReadiness
  <2>17. CASE StartTransport(i) BY <2>17 DEF StartTransport
  <2>18. CASE ServeInProcess(i) BY <2>18 DEF ServeInProcess
  <2>19. CASE PushAdmission(i) BY <2>19 DEF PushAdmission
  <2>20. CASE Publish(i) BY <2>20 DEF Publish
  <2>21. CASE AcceptRequest(i) BY <2>21 DEF AcceptRequest
  <2>22. CASE BeginWrite(i) BY <2>22 DEF BeginWrite
  <2>23. CASE CommitWrite(i) BY <2>23 DEF CommitWrite
  <2>24. CASE AbortWrite(i) BY <2>24 DEF AbortWrite
  <2>25. CASE Drain(i) BY <2>25 DEF Drain
  <2>26. CASE Stop(i) BY <2>26 DEF Stop
  <2>27. CASE CompareDescriptor(i)
      BY <2>27, TopFacts DEF CompareDescriptor, Top, Unwinding
  <2>28. CASE UnlinkDescriptor(i) BY <2>28 DEF UnlinkDescriptor
  <2>29. CASE ReleaseAdmission(i)
      BY <2>29, TopFacts DEF ReleaseAdmission, Unwinding
  <2>30. CASE ReleaseTransport(i)
      BY <2>30, TopFacts DEF ReleaseTransport, Unwinding
  <2>31. CASE ReleaseGuard(i) BY <2>31, TopFacts DEF ReleaseGuard, Unwinding
  <2>32. CASE ReleaseLease(i) BY <2>32, TopFacts DEF ReleaseLease, Unwinding
  <2>33. CASE ReleaseConnection(i)
      BY <2>33, TopFacts DEF ReleaseConnection, Unwinding
  <2>34. CASE ReleaseLock(i) BY <2>34, TopFacts DEF ReleaseLock, Unwinding
  <2>35. CASE FailEnds(i) BY <2>35 DEF FailEnds
  <2>36. CASE CleanAfterFailure(i) BY <2>36 DEF CleanAfterFailure
  <2>37. CASE StopEnds(i) BY <2>37 DEF StopEnds
  <2>38. CASE StopBlocked(i) BY <2>38 DEF StopBlocked
  <2>39. CASE RetryStop(i) BY <2>39 DEF RetryStop
  <2>40. CASE Exit(i) BY <2>40 DEF Exit, Die
  <2>41. CASE Crash(i) BY <2>41 DEF Crash, Die
  <2>. QED
    BY <1>2, <2>1, <2>2, <2>3, <2>4, <2>5, <2>6, <2>7, <2>8, <2>9, <2>10,
       <2>11, <2>12, <2>13, <2>14, <2>15, <2>16, <2>17, <2>18, <2>19, <2>20,
       <2>21, <2>22, <2>23, <2>24, <2>25, <2>26, <2>27, <2>28, <2>29, <2>30,
       <2>31, <2>32, <2>33, <2>34, <2>35, <2>36, <2>37, <2>38, <2>39, <2>40,
       <2>41
       DEF InstanceStep, StartStep, UnwindStep, ServeStep
<1>. QED
    BY <1>1, <1>2 DEF Next

\* A step hands out no generation twice.
LEMMA GenerationStep == OwnershipInv /\ [Next]_vars => GenerationInv'
<1> SUFFICES ASSUME OwnershipInv, [Next]_vars PROVE GenerationInv'
    OBVIOUS
<1> USE NoneAssumption, BoundsAssumption DEF OwnershipInv, TypeOK, Push, Pop,
   Goto, Raise, osVars, GenerationInv, ownerVars
<1>1. CASE UNCHANGED vars
    BY <1>1 DEF vars
<1>2. ASSUME NEW i \in Instances, InstanceStep(i) PROVE GenerationInv'
  <2>1. CASE Start(i) BY <2>1 DEF Start
  <2>2. CASE StartFault(i) BY <2>2 DEF StartFault
  <2>3. CASE Refuse(i) BY <2>3 DEF Refuse
  <2>4. CASE AcquireStorageLock(i) BY <2>4 DEF AcquireStorageLock
  <2>5. CASE OpenDatabase(i) BY <2>5 DEF OpenDatabase
  <2>6. CASE AcquireLease(i) BY <2>6 DEF AcquireLease
  <2>7. CASE BeginMigration(i) BY <2>7 DEF BeginMigration
  <2>8. CASE ApplyMigration(i) BY <2>8 DEF ApplyMigration
  <2>9. CASE FailMigration(i) BY <2>9 DEF FailMigration
  <2>10. CASE SettleMigration(i) BY <2>10 DEF SettleMigration
  <2>11. CASE EnterRecovery(i) BY <2>11 DEF EnterRecovery
  <2>12. CASE OpenGuard(i) BY <2>12 DEF OpenGuard
  <2>13. CASE FindInterrupted(i) BY <2>13 DEF FindInterrupted
  <2>14. CASE Recover(i) BY <2>14 DEF Recover
  <2>15. CASE PublishReadiness(i) BY <2>15 DEF PublishReadiness
  <2>16. CASE RefuseReadiness(i) BY <2>16 DEF RefuseReadiness
  <2>17. CASE StartTransport(i) BY <2>17 DEF StartTransport
  <2>18. CASE ServeInProcess(i) BY <2>18 DEF ServeInProcess
  <2>19. CASE PushAdmission(i) BY <2>19 DEF PushAdmission
  <2>20. CASE Publish(i) BY <2>20 DEF Publish
  <2>21. CASE AcceptRequest(i) BY <2>21 DEF AcceptRequest
  <2>22. CASE BeginWrite(i) BY <2>22 DEF BeginWrite
  <2>23. CASE CommitWrite(i) BY <2>23 DEF CommitWrite
  <2>24. CASE AbortWrite(i) BY <2>24 DEF AbortWrite
  <2>25. CASE Drain(i) BY <2>25 DEF Drain
  <2>26. CASE Stop(i) BY <2>26 DEF Stop
  <2>27. CASE CompareDescriptor(i)
      BY <2>27, TopFacts DEF CompareDescriptor, Unwinding
  <2>28. CASE UnlinkDescriptor(i) BY <2>28 DEF UnlinkDescriptor
  <2>29. CASE ReleaseAdmission(i)
      BY <2>29, TopFacts DEF ReleaseAdmission, Unwinding
  <2>30. CASE ReleaseTransport(i)
      BY <2>30, TopFacts DEF ReleaseTransport, Unwinding
  <2>31. CASE ReleaseGuard(i) BY <2>31, TopFacts DEF ReleaseGuard, Unwinding
  <2>32. CASE ReleaseLease(i) BY <2>32, TopFacts DEF ReleaseLease, Unwinding
  <2>33. CASE ReleaseConnection(i)
      BY <2>33, TopFacts DEF ReleaseConnection, Unwinding
  <2>34. CASE ReleaseLock(i) BY <2>34, TopFacts DEF ReleaseLock, Unwinding
  <2>35. CASE FailEnds(i) BY <2>35 DEF FailEnds
  <2>36. CASE CleanAfterFailure(i) BY <2>36 DEF CleanAfterFailure
  <2>37. CASE StopEnds(i) BY <2>37 DEF StopEnds
  <2>38. CASE StopBlocked(i) BY <2>38 DEF StopBlocked
  <2>39. CASE RetryStop(i) BY <2>39 DEF RetryStop
  <2>40. CASE Exit(i) BY <2>40 DEF Exit, Die
  <2>41. CASE Crash(i) BY <2>41 DEF Crash, Die
  <2>. QED
    BY <1>2, <2>1, <2>2, <2>3, <2>4, <2>5, <2>6, <2>7, <2>8, <2>9, <2>10,
       <2>11, <2>12, <2>13, <2>14, <2>15, <2>16, <2>17, <2>18, <2>19, <2>20,
       <2>21, <2>22, <2>23, <2>24, <2>25, <2>26, <2>27, <2>28, <2>29, <2>30,
       <2>31, <2>32, <2>33, <2>34, <2>35, <2>36, <2>37, <2>38, <2>39, <2>40,
       <2>41
       DEF InstanceStep, StartStep, UnwindStep, ServeStep
<1>. QED
    BY <1>1, <1>2 DEF Next

\* A step keeps every migration applied under a guard, and none interrupted
\* under a listener.
LEMMA SchemaStep == OwnershipInv /\ [Next]_vars => SchemaInv'
<1> SUFFICES ASSUME OwnershipInv, [Next]_vars PROVE SchemaInv'
    OBVIOUS
<1> USE NoneAssumption, BoundsAssumption DEF OwnershipInv, TypeOK, Push, Pop,
   Goto, Raise, osVars, SchemaInv, NestedInv, HeldInv, PointsInv, schemaVars
<1>1. CASE UNCHANGED vars
    BY <1>1 DEF vars
<1>2. ASSUME NEW i \in Instances, InstanceStep(i) PROVE SchemaInv'
  <2>1. CASE Start(i) BY <2>1 DEF Start
  <2>2. CASE StartFault(i) BY <2>2 DEF StartFault, StartPoints
  <2>3. CASE Refuse(i) BY <2>3 DEF Refuse, Refused
  <2>4. CASE AcquireStorageLock(i) BY <2>4 DEF AcquireStorageLock
  <2>5. CASE OpenDatabase(i) BY <2>5 DEF OpenDatabase
  <2>6. CASE AcquireLease(i) BY <2>6 DEF AcquireLease
  <2>7. CASE BeginMigration(i) BY <2>7 DEF BeginMigration
  <2>8. CASE ApplyMigration(i) BY <2>8 DEF ApplyMigration
  <2>9. CASE FailMigration(i) BY <2>9 DEF FailMigration
  <2>10. CASE SettleMigration(i) BY <2>10 DEF SettleMigration
  <2>11. CASE EnterRecovery(i) BY <2>11 DEF EnterRecovery
  <2>12. CASE OpenGuard(i) BY <2>12 DEF OpenGuard
  <2>13. CASE FindInterrupted(i) BY <2>13 DEF FindInterrupted
  <2>14. CASE Recover(i) BY <2>14 DEF Recover
  <2>15. CASE PublishReadiness(i)
      BY <2>15 DEF PublishReadiness, ReadinessSatisfied
  <2>16. CASE RefuseReadiness(i) BY <2>16 DEF RefuseReadiness
  <2>17. CASE StartTransport(i) BY <2>17 DEF StartTransport
  <2>18. CASE ServeInProcess(i) BY <2>18 DEF ServeInProcess
  <2>19. CASE PushAdmission(i) BY <2>19 DEF PushAdmission
  <2>20. CASE Publish(i) BY <2>20 DEF Publish
  <2>21. CASE AcceptRequest(i) BY <2>21 DEF AcceptRequest
  <2>22. CASE BeginWrite(i) BY <2>22 DEF BeginWrite
  <2>23. CASE CommitWrite(i) BY <2>23 DEF CommitWrite
  <2>24. CASE AbortWrite(i) BY <2>24 DEF AbortWrite
  <2>25. CASE Drain(i) BY <2>25 DEF Drain
  <2>26. CASE Stop(i) BY <2>26 DEF Stop
  <2>27. CASE CompareDescriptor(i)
      BY <2>27, TopFacts DEF CompareDescriptor, Unwinding
  <2>28. CASE UnlinkDescriptor(i) BY <2>28 DEF UnlinkDescriptor
  <2>29. CASE ReleaseAdmission(i)
      BY <2>29, TopFacts DEF ReleaseAdmission, Unwinding
  <2>30. CASE ReleaseTransport(i)
      BY <2>30, TopFacts DEF ReleaseTransport, Unwinding
  <2>31. CASE ReleaseGuard(i) BY <2>31, TopFacts DEF ReleaseGuard, Unwinding
  <2>32. CASE ReleaseLease(i) BY <2>32, TopFacts DEF ReleaseLease, Unwinding
  <2>33. CASE ReleaseConnection(i)
      BY <2>33, TopFacts DEF ReleaseConnection, Unwinding
  <2>34. CASE ReleaseLock(i) BY <2>34, TopFacts DEF ReleaseLock, Unwinding
  <2>35. CASE FailEnds(i) BY <2>35 DEF FailEnds
  <2>36. CASE CleanAfterFailure(i) BY <2>36 DEF CleanAfterFailure
  <2>37. CASE StopEnds(i) BY <2>37 DEF StopEnds
  <2>38. CASE StopBlocked(i) BY <2>38 DEF StopBlocked
  <2>39. CASE RetryStop(i) BY <2>39 DEF RetryStop
  <2>40. CASE Exit(i) BY <2>40 DEF Exit, Die
  <2>41. CASE Crash(i) BY <2>41 DEF Crash, Die
  <2>. QED
    BY <1>2, <2>1, <2>2, <2>3, <2>4, <2>5, <2>6, <2>7, <2>8, <2>9, <2>10,
       <2>11, <2>12, <2>13, <2>14, <2>15, <2>16, <2>17, <2>18, <2>19, <2>20,
       <2>21, <2>22, <2>23, <2>24, <2>25, <2>26, <2>27, <2>28, <2>29, <2>30,
       <2>31, <2>32, <2>33, <2>34, <2>35, <2>36, <2>37, <2>38, <2>39, <2>40,
       <2>41
       DEF InstanceStep, StartStep, UnwindStep, ServeStep
<1>. QED
    BY <1>1, <1>2 DEF Next

\* A step keeps the lease and guard entries of every stack true to the rows
\* they stand for.
LEMMA AuthorityStep == OwnershipInv /\ [Next]_vars => AuthorityInv'
<1> SUFFICES ASSUME OwnershipInv, [Next]_vars PROVE AuthorityInv'
    OBVIOUS
<1> USE NoneAssumption, BoundsAssumption DEF OwnershipInv, TypeOK, Push, Pop,
   Goto, Raise, osVars, AuthorityInv, NestedInv, PointsInv, ownerVars
<1>1. CASE UNCHANGED vars
    BY <1>1 DEF vars
<1>2. ASSUME NEW i \in Instances, InstanceStep(i) PROVE AuthorityInv'
  <2>1. CASE Start(i) BY <2>1 DEF Start
  <2>2. CASE StartFault(i) BY <2>2 DEF StartFault
  <2>3. CASE Refuse(i) BY <2>3 DEF Refuse
  <2>4. CASE AcquireStorageLock(i) BY <2>4 DEF AcquireStorageLock
  <2>5. CASE OpenDatabase(i) BY <2>5 DEF OpenDatabase
  <2>6. CASE AcquireLease(i)
    <3>1. stack[i] # {}
        BY <2>6 DEF AcquireLease, Unwinding, Top
    <3>2. \A j \in Instances : j # i => stack'[j] = {}
        BY <2>6, <3>1, SoleHolder DEF AcquireLease
    <3>. QED
        BY <2>6, <3>2 DEF AcquireLease
  <2>7. CASE BeginMigration(i) BY <2>7 DEF BeginMigration
  <2>8. CASE ApplyMigration(i) BY <2>8 DEF ApplyMigration
  <2>9. CASE FailMigration(i) BY <2>9 DEF FailMigration
  <2>10. CASE SettleMigration(i) BY <2>10 DEF SettleMigration
  <2>11. CASE EnterRecovery(i) BY <2>11 DEF EnterRecovery
  <2>12. CASE OpenGuard(i)
    <3>1. stack[i] # {}
        BY <2>12 DEF OpenGuard, Unwinding, Top
    <3>2. \A j \in Instances : j # i => stack'[j] = {}
        BY <2>12, <3>1, SoleHolder DEF OpenGuard
    <3>. QED
        BY <2>12, <3>2 DEF OpenGuard
  <2>13. CASE FindInterrupted(i) BY <2>13 DEF FindInterrupted
  <2>14. CASE Recover(i) BY <2>14 DEF Recover
  <2>15. CASE PublishReadiness(i) BY <2>15 DEF PublishReadiness
  <2>16. CASE RefuseReadiness(i) BY <2>16 DEF RefuseReadiness
  <2>17. CASE StartTransport(i) BY <2>17 DEF StartTransport
  <2>18. CASE ServeInProcess(i) BY <2>18 DEF ServeInProcess
  <2>19. CASE PushAdmission(i) BY <2>19 DEF PushAdmission
  <2>20. CASE Publish(i) BY <2>20 DEF Publish
  <2>21. CASE AcceptRequest(i) BY <2>21 DEF AcceptRequest
  <2>22. CASE BeginWrite(i) BY <2>22 DEF BeginWrite
  <2>23. CASE CommitWrite(i) BY <2>23 DEF CommitWrite
  <2>24. CASE AbortWrite(i) BY <2>24 DEF AbortWrite
  <2>25. CASE Drain(i) BY <2>25 DEF Drain
  <2>26. CASE Stop(i) BY <2>26 DEF Stop
  <2>27. CASE CompareDescriptor(i)
      BY <2>27, TopFacts DEF CompareDescriptor, Unwinding
  <2>28. CASE UnlinkDescriptor(i) BY <2>28 DEF UnlinkDescriptor
  <2>29. CASE ReleaseAdmission(i)
      BY <2>29, TopFacts DEF ReleaseAdmission, Unwinding
  <2>30. CASE ReleaseTransport(i)
      BY <2>30, TopFacts DEF ReleaseTransport, Unwinding
  <2>31. CASE ReleaseGuard(i)
    <3>1. stack[i] # {}
        BY <2>31 DEF ReleaseGuard, Unwinding, Top
    <3>2. \A j \in Instances : j # i => stack'[j] = {}
        BY <2>31, <3>1, SoleHolder DEF ReleaseGuard
    <3>. QED
        BY <2>31, <3>2, TopFacts DEF ReleaseGuard, Unwinding
  <2>32. CASE ReleaseLease(i)
    <3>1. stack[i] # {}
        BY <2>32 DEF ReleaseLease, Unwinding, Top
    <3>2. \A j \in Instances : j # i => stack'[j] = {}
        BY <2>32, <3>1, SoleHolder DEF ReleaseLease
    <3>. QED
        BY <2>32, <3>2, TopFacts DEF ReleaseLease, Unwinding
  <2>33. CASE ReleaseConnection(i)
      BY <2>33, TopFacts DEF ReleaseConnection, Unwinding
  <2>34. CASE ReleaseLock(i) BY <2>34, TopFacts DEF ReleaseLock, Unwinding
  <2>35. CASE FailEnds(i) BY <2>35 DEF FailEnds
  <2>36. CASE CleanAfterFailure(i) BY <2>36 DEF CleanAfterFailure
  <2>37. CASE StopEnds(i) BY <2>37 DEF StopEnds
  <2>38. CASE StopBlocked(i) BY <2>38 DEF StopBlocked
  <2>39. CASE RetryStop(i) BY <2>39 DEF RetryStop
  <2>40. CASE Exit(i) BY <2>40 DEF Exit, Die
  <2>41. CASE Crash(i) BY <2>41 DEF Crash, Die
  <2>. QED
    BY <1>2, <2>1, <2>2, <2>3, <2>4, <2>5, <2>6, <2>7, <2>8, <2>9, <2>10,
       <2>11, <2>12, <2>13, <2>14, <2>15, <2>16, <2>17, <2>18, <2>19, <2>20,
       <2>21, <2>22, <2>23, <2>24, <2>25, <2>26, <2>27, <2>28, <2>29, <2>30,
       <2>31, <2>32, <2>33, <2>34, <2>35, <2>36, <2>37, <2>38, <2>39, <2>40,
       <2>41
       DEF InstanceStep, StartStep, UnwindStep, ServeStep
<1>. QED
    BY <1>1, <1>2 DEF Next

\* A step appends to the log only under the newest generation.
LEMMA LogStep == OwnershipInv /\ [Next]_vars => LogInv'
<1> SUFFICES ASSUME OwnershipInv, [Next]_vars PROVE LogInv'
    OBVIOUS
<1> USE NoneAssumption, BoundsAssumption DEF OwnershipInv, TypeOK, Push, Pop,
   Goto, Raise, osVars, LogInv, GenerationInv,
   PointsInv, ownerVars
<1>1. CASE UNCHANGED vars
    BY <1>1 DEF vars
<1>2. ASSUME NEW i \in Instances, InstanceStep(i) PROVE LogInv'
  <2>1. CASE Start(i) BY <2>1 DEF Start
  <2>2. CASE StartFault(i) BY <2>2 DEF StartFault
  <2>3. CASE Refuse(i) BY <2>3 DEF Refuse
  <2>4. CASE AcquireStorageLock(i) BY <2>4 DEF AcquireStorageLock
  <2>5. CASE OpenDatabase(i) BY <2>5 DEF OpenDatabase
  <2>6. CASE AcquireLease(i)
    <3>0. gen[i] = 0
        BY <2>6 DEF AcquireLease
    <3>1. \A n \in 1..Len(writes) : writes[n].by \in Instances /\ writes[n].by # i
      <4> SUFFICES ASSUME NEW n \in 1..Len(writes)
                   PROVE  writes[n].by \in Instances /\ writes[n].by # i
        OBVIOUS
      <4>1. writes[n] \in Write
        OBVIOUS
      <4>2. writes[n].gen >= 1 /\ writes[n].gen = gen[writes[n].by]
        OBVIOUS
      <4>. QED
        BY <3>0, <4>1, <4>2 DEF Write
    <3>2. writes' = writes /\ stateGen' = stateGen + 1
        BY <2>6 DEF AcquireLease
    <3>3. \A j \in Instances : j # i => gen'[j] = gen[j]
        BY <2>6 DEF AcquireLease
    <3>. QED
        BY <3>1, <3>2, <3>3
  <2>7. CASE BeginMigration(i) BY <2>7 DEF BeginMigration
  <2>8. CASE ApplyMigration(i) BY <2>8 DEF ApplyMigration
  <2>9. CASE FailMigration(i) BY <2>9 DEF FailMigration
  <2>10. CASE SettleMigration(i) BY <2>10 DEF SettleMigration
  <2>11. CASE EnterRecovery(i) BY <2>11 DEF EnterRecovery
  <2>12. CASE OpenGuard(i) BY <2>12 DEF OpenGuard
  <2>13. CASE FindInterrupted(i) BY <2>13 DEF FindInterrupted
  <2>14. CASE Recover(i)
    <3>1. stateGen' = stateGen /\ gen' = gen /\ gen[i] = stateGen
        BY <2>14 DEF Recover, Validate, CurrentAuthority
    <3>2. writes' = Append(writes, [by |-> i, gen |-> gen[i]])
        BY <2>14 DEF Recover
    <3>. QED
        BY <3>1, <3>2
  <2>15. CASE PublishReadiness(i) BY <2>15 DEF PublishReadiness
  <2>16. CASE RefuseReadiness(i) BY <2>16 DEF RefuseReadiness
  <2>17. CASE StartTransport(i) BY <2>17 DEF StartTransport
  <2>18. CASE ServeInProcess(i) BY <2>18 DEF ServeInProcess
  <2>19. CASE PushAdmission(i) BY <2>19 DEF PushAdmission
  <2>20. CASE Publish(i) BY <2>20 DEF Publish
  <2>21. CASE AcceptRequest(i) BY <2>21 DEF AcceptRequest
  <2>22. CASE BeginWrite(i) BY <2>22 DEF BeginWrite
  <2>23. CASE CommitWrite(i)
      BY <2>23 DEF CommitWrite, Validate, CurrentAuthority
  <2>24. CASE AbortWrite(i) BY <2>24 DEF AbortWrite
  <2>25. CASE Drain(i) BY <2>25 DEF Drain
  <2>26. CASE Stop(i) BY <2>26 DEF Stop
  <2>27. CASE CompareDescriptor(i)
      BY <2>27, TopFacts DEF CompareDescriptor, Unwinding
  <2>28. CASE UnlinkDescriptor(i) BY <2>28 DEF UnlinkDescriptor
  <2>29. CASE ReleaseAdmission(i)
      BY <2>29, TopFacts DEF ReleaseAdmission, Unwinding
  <2>30. CASE ReleaseTransport(i)
      BY <2>30, TopFacts DEF ReleaseTransport, Unwinding
  <2>31. CASE ReleaseGuard(i) BY <2>31, TopFacts DEF ReleaseGuard, Unwinding
  <2>32. CASE ReleaseLease(i) BY <2>32, TopFacts DEF ReleaseLease, Unwinding
  <2>33. CASE ReleaseConnection(i)
      BY <2>33, TopFacts DEF ReleaseConnection, Unwinding
  <2>34. CASE ReleaseLock(i) BY <2>34, TopFacts DEF ReleaseLock, Unwinding
  <2>35. CASE FailEnds(i) BY <2>35 DEF FailEnds
  <2>36. CASE CleanAfterFailure(i) BY <2>36 DEF CleanAfterFailure
  <2>37. CASE StopEnds(i) BY <2>37 DEF StopEnds
  <2>38. CASE StopBlocked(i) BY <2>38 DEF StopBlocked
  <2>39. CASE RetryStop(i) BY <2>39 DEF RetryStop
  <2>40. CASE Exit(i) BY <2>40 DEF Exit, Die
  <2>41. CASE Crash(i) BY <2>41 DEF Crash, Die
  <2>. QED
    BY <1>2, <2>1, <2>2, <2>3, <2>4, <2>5, <2>6, <2>7, <2>8, <2>9, <2>10,
       <2>11, <2>12, <2>13, <2>14, <2>15, <2>16, <2>17, <2>18, <2>19, <2>20,
       <2>21, <2>22, <2>23, <2>24, <2>25, <2>26, <2>27, <2>28, <2>29, <2>30,
       <2>31, <2>32, <2>33, <2>34, <2>35, <2>36, <2>37, <2>38, <2>39, <2>40,
       <2>41
       DEF InstanceStep, StartStep, UnwindStep, ServeStep
<1>. QED
    BY <1>1, <1>2 DEF Next

-----------------------------------------------------------------------------
(* The inductive invariant, and what follows from it *)

\* Nothing is held before the first start.
LEMMA OwnershipInit == Init => OwnershipInv
<1>1. Init => TypeOK
    BY NoneAssumption DEF Init, TypeOK, OptInstance, LeaseRecord, MutationGuard,
       Write, NoLease, NoGuard, Points, ServiceState, Resources
<1>2. Init => PointsInv /\ NestedInv /\ HeldInv /\ RequestInv /\ AuthorityInv
    BY DEF Init, PointsInv, NestedInv, HeldInv, RequestInv, AuthorityInv
<1>3. Init => SchemaInv /\ DescriptorInv /\ GenerationInv /\ LogInv
    BY NoneAssumption, BoundsAssumption DEF Init, SchemaInv, DescriptorInv,
       GenerationInv, LogInv
<1>. QED
    BY <1>1, <1>2, <1>3 DEF OwnershipInv

\* Each step lemma needs the other parts: the authority of the lease entry rests
\* on the sole holder of the lock, the schema on the authority of the migrator.
LEMMA OwnershipStep == OwnershipInv /\ [Next]_vars => OwnershipInv'
BY TypeStep, PointsStep, NestedStep, HeldStep, RequestStep, AuthorityStep,
   SchemaStep, DescriptorStep, GenerationStep, LogStep DEF OwnershipInv

\* The parts of the inductive invariant hold of every behaviour together.
THEOREM OwnershipInductive == Spec => []OwnershipInv
BY OwnershipInit, OwnershipStep, PTL DEF Spec

\* The stack of an instance that answers "ready" reaches down to the lock.
LEMMA OwnerIsReady == OwnershipInv => ReadyMeansOwner
<1> SUFFICES ASSUME OwnershipInv, NEW i \in Instances, AnswersReady(i)
             PROVE  /\ lock = i /\ conn = i
                    /\ Validate(i) /\ TriggerAdmits
                    /\ applied = Migrations /\ attempts = {}
    BY DEF ReadyMeansOwner
<1>1. {"transport", "guard", "lease", "connection", "lock"} \subseteq stack[i]
    BY DEF AnswersReady, OwnershipInv, NestedInv
<1>2. lock = i /\ conn = i
    BY <1>1 DEF OwnershipInv, HeldInv
<1>3. Validate(i) /\ TriggerAdmits
    BY <1>1, <1>2 DEF OwnershipInv, AuthorityInv, Validate, CurrentAuthority,
       TriggerAdmits
<1>4. applied = Migrations /\ attempts = {}
    BY <1>1 DEF OwnershipInv, SchemaInv
<1>. QED
    BY <1>2, <1>3, <1>4

\* READY is held only by the exact owner, for any number of instances.  This
\* needs the stack nesting, the authority of the rows and the schema parts.
THEOREM ReadyOwner == Spec => []ReadyMeansOwner
BY OwnerIsReady, OwnershipInductive, PTL

\* Fenced transactions commit in generation order, and those of one generation
\* have one author, whatever crashed.
THEOREM WritesOrdered == Spec => []WritesInGenerationOrder
<1>1. OwnershipInv => WritesInGenerationOrder
  <2> SUFFICES ASSUME OwnershipInv,
                      NEW m \in 1..Len(writes), NEW n \in 1..Len(writes), m < n
               PROVE  \/ writes[m].gen < writes[n].gen
                      \/ writes[m].gen = writes[n].gen /\ writes[m].by = writes[n].by
    BY DEF WritesInGenerationOrder
  <2>1. writes[m] \in Write /\ writes[n] \in Write
    BY DEF OwnershipInv, TypeOK
  <2>2. /\ writes[m].gen <= writes[n].gen /\ writes[m].gen >= 1
        /\ writes[m].gen = gen[writes[m].by] /\ writes[n].gen = gen[writes[n].by]
    BY DEF OwnershipInv, LogInv
  <2>3. ASSUME writes[m].gen = writes[n].gen PROVE writes[m].by = writes[n].by
    <3>1. writes[m].by \in Instances /\ writes[n].by \in Instances
      BY <2>1 DEF Write
    <3>2. gen[writes[m].by] = gen[writes[n].by] /\ gen[writes[m].by] # 0
      BY <2>1, <2>2, <2>3 DEF Write
    <3>3. \A i, j \in Instances : gen[i] = gen[j] /\ gen[i] # 0 => i = j
      BY DEF OwnershipInv, GenerationInv
    <3>. QED
      BY <3>1, <3>2, <3>3, Zenon
  <2>. QED
    BY <2>1, <2>2, <2>3 DEF Write
<1>. QED
    BY <1>1, OwnershipInductive, PTL

\* A fencing generation belongs to one instance for ever.
THEOREM GenerationOwned == Spec => []GenerationsUnique
<1>1. OwnershipInv => GenerationsUnique
    BY DEF OwnershipInv, GenerationInv, LogInv, GenerationsUnique
<1>. QED
    BY <1>1, OwnershipInductive, PTL

\* The generation moves only while no fenced transaction is open anywhere.
THEOREM TakeoverWaits == Spec => NoTakeoverUnderOpenTransaction
<1>1. OwnershipInv /\ [Next]_vars =>
         (stateGen' # stateGen => \A j \in Instances : txn[j] = "idle")
  <2> SUFFICES ASSUME OwnershipInv, [Next]_vars, stateGen' # stateGen,
                      NEW j \in Instances
               PROVE  txn[j] = "idle"
    OBVIOUS
  <2>1. PICK i \in Instances : AcquireLease(i)
    <3>1. PICK i \in Instances : InstanceStep(i)
      BY DEF Next, vars
    <3>2. StartStep(i) => AcquireLease(i)
      BY DEF StartStep, Refuse, AcquireStorageLock, OpenDatabase, BeginMigration,
         ApplyMigration, FailMigration, SettleMigration, EnterRecovery,
         OpenGuard, FindInterrupted, Recover, PublishReadiness, RefuseReadiness,
         StartTransport, ServeInProcess, PushAdmission, Publish, ownerVars
    <3>3. ~UnwindStep(i)
      BY DEF UnwindStep, CompareDescriptor, UnlinkDescriptor, ReleaseAdmission,
         ReleaseTransport, ReleaseGuard, ReleaseLease, ReleaseConnection,
         ReleaseLock, FailEnds, CleanAfterFailure, StopEnds, StopBlocked,
         ownerVars
    <3>4. ~ServeStep(i)
      BY DEF ServeStep, BeginWrite, CommitWrite, AbortWrite, ownerVars
    <3>. QED
      BY <3>1, <3>2, <3>3, <3>4 DEF InstanceStep, Start, StartFault,
         AcceptRequest, Drain, Stop, RetryStop, Exit, Crash, Die, ownerVars
  <2>2. pc[i] = "leasing" /\ stack[i] = {"lock", "connection"}
    BY <2>1 DEF AcquireLease, OwnershipInv, PointsInv
  <2>3. CASE j = i
    BY <2>2, <2>3 DEF OwnershipInv, RequestInv
  <2>4. CASE j # i
    <3>1. stack[j] = {}
      BY <2>2, <2>4, SoleHolder
    <3>2. pc[j] # "serving"
      BY <3>1 DEF OwnershipInv, PointsInv
    <3>. QED
      BY <3>1, <3>2 DEF OwnershipInv, RequestInv
  <2>. QED
    BY <2>3, <2>4
<1>2. OwnershipInv /\ [Next]_vars =>
         [stateGen' # stateGen => \A i \in Instances : txn[i] = "idle"]_vars
    BY <1>1
<1>. QED
    BY <1>2, OwnershipInductive, PTL DEF Spec, NoTakeoverUnderOpenTransaction

\* A descriptor disappears only through the unlink of the instance it names.
LEMMA WithdrawStep == OwnershipInv /\ [Next]_vars =>
         (\A j \in Instances : descriptor = j /\ descriptor' # j =>
            (matched[j] /\ ~matched'[j]) \/ descriptor' # None)
<1> SUFFICES ASSUME OwnershipInv, [Next]_vars PROVE
         (\A j \in Instances : descriptor = j /\ descriptor' # j =>
            (matched[j] /\ ~matched'[j]) \/ descriptor' # None)
    OBVIOUS
<1> USE NoneAssumption, BoundsAssumption DEF OwnershipInv, TypeOK,
   DescriptorInv, OptInstance
<1>1. CASE UNCHANGED vars
    BY <1>1 DEF vars
<1>2. ASSUME NEW i \in Instances, InstanceStep(i) PROVE
         (\A j \in Instances : descriptor = j /\ descriptor' # j =>
            (matched[j] /\ ~matched'[j]) \/ descriptor' # None)
  <2>1. CASE Start(i) BY <2>1 DEF Start
  <2>2. CASE StartFault(i) BY <2>2 DEF StartFault
  <2>3. CASE Refuse(i) BY <2>3 DEF Refuse
  <2>4. CASE AcquireStorageLock(i) BY <2>4 DEF AcquireStorageLock
  <2>5. CASE OpenDatabase(i) BY <2>5 DEF OpenDatabase
  <2>6. CASE AcquireLease(i) BY <2>6 DEF AcquireLease
  <2>7. CASE BeginMigration(i) BY <2>7 DEF BeginMigration
  <2>8. CASE ApplyMigration(i) BY <2>8 DEF ApplyMigration
  <2>9. CASE FailMigration(i) BY <2>9 DEF FailMigration
  <2>10. CASE SettleMigration(i) BY <2>10 DEF SettleMigration
  <2>11. CASE EnterRecovery(i) BY <2>11 DEF EnterRecovery
  <2>12. CASE OpenGuard(i) BY <2>12 DEF OpenGuard
  <2>13. CASE FindInterrupted(i) BY <2>13 DEF FindInterrupted
  <2>14. CASE Recover(i) BY <2>14 DEF Recover
  <2>15. CASE PublishReadiness(i) BY <2>15 DEF PublishReadiness
  <2>16. CASE RefuseReadiness(i) BY <2>16 DEF RefuseReadiness
  <2>17. CASE StartTransport(i) BY <2>17 DEF StartTransport
  <2>18. CASE ServeInProcess(i) BY <2>18 DEF ServeInProcess
  <2>19. CASE PushAdmission(i) BY <2>19 DEF PushAdmission
  <2>20. CASE Publish(i) BY <2>20 DEF Publish
  <2>21. CASE AcceptRequest(i) BY <2>21 DEF AcceptRequest
  <2>22. CASE BeginWrite(i) BY <2>22 DEF BeginWrite
  <2>23. CASE CommitWrite(i) BY <2>23 DEF CommitWrite
  <2>24. CASE AbortWrite(i) BY <2>24 DEF AbortWrite
  <2>25. CASE Drain(i) BY <2>25 DEF Drain
  <2>26. CASE Stop(i) BY <2>26 DEF Stop
  <2>27. CASE CompareDescriptor(i) BY <2>27 DEF CompareDescriptor
  <2>28. CASE UnlinkDescriptor(i) BY <2>28 DEF UnlinkDescriptor
  <2>29. CASE ReleaseAdmission(i) BY <2>29 DEF ReleaseAdmission
  <2>30. CASE ReleaseTransport(i) BY <2>30 DEF ReleaseTransport
  <2>31. CASE ReleaseGuard(i) BY <2>31 DEF ReleaseGuard
  <2>32. CASE ReleaseLease(i) BY <2>32 DEF ReleaseLease
  <2>33. CASE ReleaseConnection(i) BY <2>33 DEF ReleaseConnection
  <2>34. CASE ReleaseLock(i) BY <2>34 DEF ReleaseLock
  <2>35. CASE FailEnds(i) BY <2>35 DEF FailEnds
  <2>36. CASE CleanAfterFailure(i) BY <2>36 DEF CleanAfterFailure
  <2>37. CASE StopEnds(i) BY <2>37 DEF StopEnds
  <2>38. CASE StopBlocked(i) BY <2>38 DEF StopBlocked
  <2>39. CASE RetryStop(i) BY <2>39 DEF RetryStop
  <2>40. CASE Exit(i) BY <2>40 DEF Exit, Die
  <2>41. CASE Crash(i) BY <2>41 DEF Crash, Die
  <2>. QED
    BY <1>2, <2>1, <2>2, <2>3, <2>4, <2>5, <2>6, <2>7, <2>8, <2>9, <2>10,
       <2>11, <2>12, <2>13, <2>14, <2>15, <2>16, <2>17, <2>18, <2>19, <2>20,
       <2>21, <2>22, <2>23, <2>24, <2>25, <2>26, <2>27, <2>28, <2>29, <2>30,
       <2>31, <2>32, <2>33, <2>34, <2>35, <2>36, <2>37, <2>38, <2>39, <2>40,
       <2>41
       DEF InstanceStep, StartStep, UnwindStep, ServeStep
<1>. QED
    BY <1>1, <1>2 DEF Next

\* A failing or stopping instance never withdraws another one's descriptor.
THEOREM WithdrawsOwn == Spec => OnlyOwnDescriptorWithdrawn
<1>1. OwnershipInv /\ [Next]_vars =>
         [\A i \in Instances :
             descriptor = i /\ descriptor' # i =>
                \/ matched[i] /\ ~matched'[i]
                \/ descriptor' # None]_vars
    BY WithdrawStep
<1>. QED
    BY <1>1, OwnershipInductive, PTL DEF Spec, OnlyOwnDescriptorWithdrawn

\* Every step is a takeover, a write or a retirement of the fenced log, or
\* leaves it alone.
LEMMA FencedStep == OwnershipInv /\ [Next]_vars => [Fenced!Next]_(Fenced!vars)
<1> SUFFICES ASSUME OwnershipInv, [Next]_vars PROVE [Fenced!Next]_(Fenced!vars)
    OBVIOUS
<1> USE NoneAssumption, BoundsAssumption DEF OwnershipInv, TypeOK,
   Fenced!vars, LeaseOwner, ownerVars, Raise
<1>1. CASE UNCHANGED vars
    BY <1>1 DEF vars
<1>2. ASSUME NEW i \in Instances, InstanceStep(i) PROVE [Fenced!Next]_(Fenced!vars)
  <2>1. CASE Start(i) BY <2>1 DEF Start
  <2>2. CASE StartFault(i) BY <2>2 DEF StartFault
  <2>3. CASE Refuse(i) BY <2>3 DEF Refuse
  <2>4. CASE AcquireStorageLock(i) BY <2>4 DEF AcquireStorageLock
  <2>5. CASE OpenDatabase(i) BY <2>5 DEF OpenDatabase
  <2>6. CASE AcquireLease(i)
    <3>1. gen[i] = 0
        BY <2>6 DEF AcquireLease, PointsInv
    <3>2. Fenced!TakeOver(i)
        BY <2>6, <3>1 DEF AcquireLease, Fenced!TakeOver
    <3>. QED
        BY <3>2 DEF Fenced!Next
  <2>7. CASE BeginMigration(i) BY <2>7 DEF BeginMigration
  <2>8. CASE ApplyMigration(i) BY <2>8 DEF ApplyMigration
  <2>9. CASE FailMigration(i) BY <2>9 DEF FailMigration
  <2>10. CASE SettleMigration(i) BY <2>10 DEF SettleMigration
  <2>11. CASE EnterRecovery(i) BY <2>11 DEF EnterRecovery
  <2>12. CASE OpenGuard(i) BY <2>12 DEF OpenGuard
  <2>13. CASE FindInterrupted(i) BY <2>13 DEF FindInterrupted
  <2>14. CASE Recover(i)
    <3>1. Fenced!Write(i)
        BY <2>14 DEF Recover, Validate, CurrentAuthority, TriggerAdmits, Fenced!Write
    <3>. QED
        BY <3>1 DEF Fenced!Next
  <2>15. CASE PublishReadiness(i) BY <2>15 DEF PublishReadiness
  <2>16. CASE RefuseReadiness(i) BY <2>16 DEF RefuseReadiness
  <2>17. CASE StartTransport(i) BY <2>17 DEF StartTransport
  <2>18. CASE ServeInProcess(i) BY <2>18 DEF ServeInProcess
  <2>19. CASE PushAdmission(i) BY <2>19 DEF PushAdmission
  <2>20. CASE Publish(i) BY <2>20 DEF Publish
  <2>21. CASE AcceptRequest(i) BY <2>21 DEF AcceptRequest
  <2>22. CASE BeginWrite(i) BY <2>22 DEF BeginWrite
  <2>23. CASE CommitWrite(i)
    <3>1. Fenced!Write(i)
        BY <2>23 DEF CommitWrite, Validate, CurrentAuthority, TriggerAdmits,
           Fenced!Write
    <3>. QED
        BY <3>1 DEF Fenced!Next
  <2>24. CASE AbortWrite(i) BY <2>24 DEF AbortWrite
  <2>25. CASE Drain(i) BY <2>25 DEF Drain
  <2>26. CASE Stop(i) BY <2>26 DEF Stop
  <2>27. CASE CompareDescriptor(i) BY <2>27 DEF CompareDescriptor
  <2>28. CASE UnlinkDescriptor(i) BY <2>28 DEF UnlinkDescriptor
  <2>29. CASE ReleaseAdmission(i) BY <2>29 DEF ReleaseAdmission
  <2>30. CASE ReleaseTransport(i) BY <2>30 DEF ReleaseTransport
  <2>31. CASE ReleaseGuard(i) BY <2>31 DEF ReleaseGuard
  <2>32. CASE ReleaseLease(i)
    <3>1. lease.lifecycle = "held" /\ lease.owner = i
        BY <2>32 DEF ReleaseLease, Unwinding, Top, AuthorityInv
    <3>2. CASE UNCHANGED lease
        BY <2>32, <3>2 DEF ReleaseLease
    <3>3. CASE lease' = [owner |-> i, gen |-> lease.gen, lifecycle |-> "released"]
      <4>1. Fenced!Retire
        BY <2>32, <3>1, <3>3 DEF ReleaseLease, Fenced!Retire
      <4>. QED
        BY <4>1 DEF Fenced!Next
    <3>. QED
        BY <2>32, <3>2, <3>3 DEF ReleaseLease
  <2>33. CASE ReleaseConnection(i) BY <2>33 DEF ReleaseConnection
  <2>34. CASE ReleaseLock(i) BY <2>34 DEF ReleaseLock
  <2>35. CASE FailEnds(i) BY <2>35 DEF FailEnds
  <2>36. CASE CleanAfterFailure(i) BY <2>36 DEF CleanAfterFailure
  <2>37. CASE StopEnds(i) BY <2>37 DEF StopEnds
  <2>38. CASE StopBlocked(i) BY <2>38 DEF StopBlocked
  <2>39. CASE RetryStop(i) BY <2>39 DEF RetryStop
  <2>40. CASE Exit(i) BY <2>40 DEF Exit, Die
  <2>41. CASE Crash(i) BY <2>41 DEF Crash, Die
  <2>. QED
    BY <1>2, <2>1, <2>2, <2>3, <2>4, <2>5, <2>6, <2>7, <2>8, <2>9, <2>10,
       <2>11, <2>12, <2>13, <2>14, <2>15, <2>16, <2>17, <2>18, <2>19, <2>20,
       <2>21, <2>22, <2>23, <2>24, <2>25, <2>26, <2>27, <2>28, <2>29, <2>30,
       <2>31, <2>32, <2>33, <2>34, <2>35, <2>36, <2>37, <2>38, <2>39, <2>40,
       <2>41
       DEF InstanceStep, StartStep, UnwindStep, ServeStep
<1>. QED
    BY <1>1, <1>2 DEF Next

\* The runner with its lock, rows and crashes implements the fenced log.
THEOREM FencedRefinement == Spec => ImplementsFencedLog
<1>1. Init => Fenced!Init
    BY DEF Init, Fenced!Init, LeaseOwner, NoLease
<1>. QED
    BY <1>1, FencedStep, OwnershipInductive, PTL DEF Spec, ImplementsFencedLog,
       Fenced!Spec

-----------------------------------------------------------------------------
(* What a stop leaves behind *)

\* What speaks for an instance is on its resource stack, unless the instance
\* died: the converse of HeldInv and AuthorityInv, while no release fails.
ClaimedInv ==
    \A i \in Instances :
        /\ lock = i => "lock" \in stack[i]
        /\ conn = i => "connection" \in stack[i]
        /\ guard.owner = i => "guard" \in stack[i] \/ pc[i] = "dead"
        /\ lease.owner = i /\ lease.lifecycle # "released" =>
              "lease" \in stack[i] \/ pc[i] = "dead"
        /\ descriptor = i => "descriptor" \in stack[i] \/ pc[i] = "dead"

\* A release that succeeds withdraws what its entry stood for.
LEMMA ClaimedStep ==
    ASSUME "release" \notin Faults
    PROVE  OwnershipInv /\ ClaimedInv /\ [Next]_vars => ClaimedInv'
<1> SUFFICES ASSUME OwnershipInv, ClaimedInv, [Next]_vars PROVE ClaimedInv'
    OBVIOUS
<1> USE NoneAssumption DEF OwnershipInv, TypeOK, ClaimedInv, Push, Pop, Goto, Raise,
   osVars, ownerVars, OptInstance, LeaseRecord, MutationGuard
<1>1. CASE UNCHANGED vars
    BY <1>1 DEF vars
<1>2. ASSUME NEW i \in Instances, InstanceStep(i) PROVE ClaimedInv'
  <2>1. CASE Start(i) BY <2>1 DEF Start, PointsInv
  <2>2. CASE StartFault(i) BY <2>2 DEF StartFault, StartPoints, PointsInv
  <2>3. CASE Refuse(i) BY <2>3 DEF Refuse, Refused
  <2>4. CASE AcquireStorageLock(i) BY <2>4 DEF AcquireStorageLock
  <2>5. CASE OpenDatabase(i) BY <2>5 DEF OpenDatabase
  <2>6. CASE AcquireLease(i) BY <2>6 DEF AcquireLease
  <2>7. CASE BeginMigration(i) BY <2>7 DEF BeginMigration
  <2>8. CASE ApplyMigration(i) BY <2>8 DEF ApplyMigration
  <2>9. CASE FailMigration(i) BY <2>9 DEF FailMigration
  <2>10. CASE SettleMigration(i) BY <2>10 DEF SettleMigration
  <2>11. CASE EnterRecovery(i) BY <2>11 DEF EnterRecovery
  <2>12. CASE OpenGuard(i) BY <2>12 DEF OpenGuard
  <2>13. CASE FindInterrupted(i) BY <2>13 DEF FindInterrupted
  <2>14. CASE Recover(i) BY <2>14 DEF Recover
  <2>15. CASE PublishReadiness(i)
      BY <2>15 DEF PublishReadiness, ReadinessSatisfied
  <2>16. CASE RefuseReadiness(i) BY <2>16 DEF RefuseReadiness
  <2>17. CASE StartTransport(i) BY <2>17 DEF StartTransport
  <2>18. CASE ServeInProcess(i) BY <2>18 DEF ServeInProcess
  <2>19. CASE PushAdmission(i) BY <2>19 DEF PushAdmission
  <2>20. CASE Publish(i) BY <2>20 DEF Publish
  <2>21. CASE AcceptRequest(i) BY <2>21 DEF AcceptRequest
  <2>22. CASE BeginWrite(i) BY <2>22 DEF BeginWrite
  <2>23. CASE CommitWrite(i) BY <2>23 DEF CommitWrite
  <2>24. CASE AbortWrite(i) BY <2>24 DEF AbortWrite
  <2>25. CASE Drain(i) BY <2>25 DEF Drain
  <2>26. CASE Stop(i) BY <2>26 DEF Stop
  <2>27. CASE CompareDescriptor(i)
      BY <2>27, TopFacts DEF CompareDescriptor, Unwinding, Top
  <2>28. CASE UnlinkDescriptor(i) BY <2>28 DEF UnlinkDescriptor, DescriptorInv
  <2>29. CASE ReleaseAdmission(i)
      BY <2>29, TopFacts DEF ReleaseAdmission, Unwinding
  <2>30. CASE ReleaseTransport(i)
      BY <2>30, TopFacts DEF ReleaseTransport, Unwinding
  <2>31. CASE ReleaseGuard(i)
      BY <2>31, TopFacts DEF ReleaseGuard, Unwinding, NestedInv, HeldInv,
         AuthorityInv, NoGuard, Top
  <2>32. CASE ReleaseLease(i)
      BY <2>32, TopFacts DEF ReleaseLease, Unwinding, NestedInv, HeldInv,
         AuthorityInv, Top
  <2>33. CASE ReleaseConnection(i)
      BY <2>33, TopFacts DEF ReleaseConnection, Unwinding
  <2>34. CASE ReleaseLock(i) BY <2>34, TopFacts DEF ReleaseLock, Unwinding
  <2>35. CASE FailEnds(i) BY <2>35 DEF FailEnds
  <2>36. CASE CleanAfterFailure(i) BY <2>36 DEF CleanAfterFailure
  <2>37. CASE StopEnds(i) BY <2>37 DEF StopEnds
  <2>38. CASE StopBlocked(i) BY <2>38 DEF StopBlocked
  <2>39. CASE RetryStop(i) BY <2>39 DEF RetryStop
  <2>40. CASE Exit(i) BY <2>40 DEF Exit, Die
  <2>41. CASE Crash(i) BY <2>41 DEF Crash, Die
  <2>. QED
    BY <1>2, <2>1, <2>2, <2>3, <2>4, <2>5, <2>6, <2>7, <2>8, <2>9, <2>10,
       <2>11, <2>12, <2>13, <2>14, <2>15, <2>16, <2>17, <2>18, <2>19, <2>20,
       <2>21, <2>22, <2>23, <2>24, <2>25, <2>26, <2>27, <2>28, <2>29, <2>30,
       <2>31, <2>32, <2>33, <2>34, <2>35, <2>36, <2>37, <2>38, <2>39, <2>40,
       <2>41
       DEF InstanceStep, StartStep, UnwindStep, ServeStep
<1>. QED
    BY <1>1, <1>2 DEF Next

\* The stack of an ended process is empty, so nothing speaks for it.
LEMMA ClaimedIsEnough == OwnershipInv /\ ClaimedInv => StopLeavesNoClaim
    BY DEF OwnershipInv, TypeOK, LeaseRecord, PointsInv, ClaimedInv, StopLeavesNoClaim

\* Nothing is claimed before the first start.
LEMMA ClaimedInit == Init => ClaimedInv
    BY NoneAssumption DEF Init, ClaimedInv, NoGuard, NoLease

\* While no release fails, a process that ended its stop leaves no lock, no
\* connection, no descriptor, no guard row and no lease that is not released
\* (ResourceStack.unwind, close_guard, release_lease, compare_and_clean).
THEOREM StopLeavesNothing ==
    ASSUME "release" \notin Faults
    PROVE  Spec => []StopLeavesNoClaim
    BY OwnershipInductive, ClaimedInit, ClaimedStep, ClaimedIsEnough, PTL DEF Spec
=============================================================================
