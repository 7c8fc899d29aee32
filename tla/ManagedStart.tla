----------------------------- MODULE ManagedStart -----------------------------
(***************************************************************************)
(* Managed start: launchers (service/managed_start.py) converge on one     *)
(* service for a workspace through discovery, the bootstrap mutex and      *)
(* live readiness (service/bootstrap.py, ownership/discovery.py).  The     *)
(* services they spawn are the instances of Ownership; a launcher only     *)
(* reads their descriptor, dials the workspace's endpoint and signals its  *)
(* own child.  The endpoint is one address for every service of the        *)
(* workspace: what a launcher dials is whoever is bound there.             *)
(***************************************************************************)
EXTENDS Ownership

CONSTANTS
    Launchers,     \* managed_start invocations
    Child,         \* the instance each launcher would spawn
    Predecessors,  \* services that may have died before the first launcher
    Interrupted,   \* launchers that may be killed
    Expiring,      \* launchers whose deadline may pass
    Incompatible,  \* instances of another build
    Overloaded     \* instances whose listen queue may be full

ASSUME ChildAssumption ==
    /\ Child \in [Launchers -> Instances]
    /\ \A k, l \in Launchers : Child[k] = Child[l] => k = l
    /\ Predecessors \subseteq Instances
    /\ \A i \in Instances : i \notin Predecessors <=> \E l \in Launchers : Child[l] = i
ASSUME LauncherAssumption ==
    /\ Interrupted \subseteq Launchers /\ Expiring \subseteq Launchers
    /\ Incompatible \subseteq Instances /\ Overloaded \subseteq Instances
    /\ None \notin Launchers

VARIABLES
    mutex,    \* holder of bootstrap.lock
    at,       \* where each launcher is
    seen,     \* instance named by the descriptor the launcher read last
    status    \* what managed_start returns, "" until it is known

launchVars == <<mutex, at, seen, status>>
allVars == <<vars, launchVars>>

LaunchPoints == {"first", "probe", "mutex", "second", "reprobe", "attach",
                 "retry", "spawn", "poll", "dial", "terminate", "wait",
                 "compare", "unlink", "returned", "killed"}
Statuses == {"", "attached", "started", "incompatible_service", "timeout",
             "spawn_failure", "readiness_failure"}

\* A predecessor has served and died before it could clean up: its rows, its
\* write and its descriptor are what is left of it.
CrashedBefore(p) ==
    /\ lock = None /\ conn = None
    /\ stateGen = 2 /\ guard = [owner |-> p, gen |-> 2]
    /\ lease = [owner |-> p, gen |-> 2, lifecycle |-> "held"]
    /\ applied = Migrations /\ attempts = {} /\ writes = <<[by |-> p, gen |-> 2]>>
    /\ descriptor = p
    /\ pc = [i \in Instances |-> IF i = p THEN "dead" ELSE "idle"]
    /\ state = [i \in Instances |-> IF i = p THEN "gone" ELSE "stopped"]
    /\ gen = [i \in Instances |-> IF i = p THEN 2 ELSE 0]
    /\ stack = [i \in Instances |-> {}]
    /\ txn = [i \in Instances |-> "idle"]
    /\ matched = [i \in Instances |-> FALSE]
    /\ crashes = 1

LaunchInit ==
    /\ Init \/ \E p \in Predecessors : CrashedBefore(p)
    /\ mutex = None
    /\ at = [l \in Launchers |-> "first"]
    /\ seen = [l \in Launchers |-> None]
    /\ status = [l \in Launchers |-> ""]

Move(l, p) == at' = [at EXCEPT ![l] = p]

\* The with block of coordinated_startup is left, and managed_start returns.
Return(l, s) ==
    /\ Move(l, "returned")
    /\ status' = [status EXCEPT ![l] = s]
    /\ mutex' = IF mutex = l THEN None ELSE mutex

-----------------------------------------------------------------------------
(* Discovery *)

\* Who listens at the workspace's endpoint, under whatever descriptor.
Bound == {j \in Instances : "transport" \in stack[j]}

\* _live keeps a descriptor while its pid exists and its endpoint accepts a
\* connection.  The pid of a dead service may exist again, or not be reaped yet.
SeemsLive(i) == i # None /\ Bound # {}

\* _live drops it when the pid is gone or the connect fails: nobody is bound,
\* or the queue of the one that is bound is full (UNKNOWN is not ANSWERING).
SeemsGone(i) ==
    i \notin {j \in Instances : pc[j] # "dead"} \/ Bound \subseteq Overloaded

\* _dial_readiness: whoever is bound admits the request and answers "ready".
\* The answer says nothing of the instance or the pid the descriptor names.
DialedReady(i) == i # None /\ \E j \in Bound : AnswersReady(j) /\ Admits(j)

\* discover(): the descriptor as it is now, before and after the mutex.
Discover(l) ==
    /\ at[l] \in {"first", "second"}
    /\ seen' = [seen EXCEPT ![l] = descriptor]
    /\ Move(l, IF at[l] = "first" THEN "probe" ELSE "reprobe")
    /\ UNCHANGED <<mutex, status, vars>>

\* A live service is used, or refused as incompatible; otherwise the mutex.
ProbeFirst(l) ==
    /\ at[l] = "probe"
    /\ \/ SeemsGone(seen[l]) /\ Move(l, "mutex") /\ UNCHANGED <<mutex, status>>
       \/ /\ SeemsLive(seen[l])
          /\ IF seen[l] \in Incompatible
               THEN Return(l, "incompatible_service")
               ELSE Move(l, "attach") /\ UNCHANGED <<mutex, status>>
    /\ UNCHANGED <<seen, vars>>

\* A launcher that finds the mutex held waits and asks again.
TakeMutex(l) ==
    /\ at[l] = "mutex"
    /\ mutex' = IF mutex = None THEN l ELSE mutex
    /\ Move(l, IF mutex = None THEN "second" ELSE "retry")
    /\ UNCHANGED <<seen, status, vars>>

\* Mutation of ProbeAgain: the second discovery is skipped.
ProbeAgainNever(l) ==
    /\ at[l] = "reprobe"
    /\ Move(l, "spawn")
    /\ UNCHANGED <<mutex, status, seen, vars>>

\* Rediscovery under the mutex: only without a live service is the mutex kept.
ProbeAgain(l) ==
    /\ at[l] = "reprobe"
    /\ \/ SeemsGone(seen[l]) /\ Move(l, "spawn") /\ UNCHANGED <<mutex, status>>
       \/ /\ SeemsLive(seen[l])
          /\ IF seen[l] \in Incompatible
               THEN Return(l, "incompatible_service")
               ELSE Move(l, "attach") /\ mutex' = None /\ UNCHANGED status
    /\ UNCHANGED <<seen, vars>>

\* A service that is coming up or going down, or does not answer in time, is
\* asked again.
Attach(l) ==
    /\ at[l] = "attach"
    /\ \/ DialedReady(seen[l]) /\ Return(l, "attached")
       \/ Move(l, "retry") /\ UNCHANGED <<mutex, status>>
    /\ UNCHANGED <<seen, vars>>

\* Another round ...
Retry(l) ==
    /\ at[l] = "retry"
    /\ Move(l, "first")
    /\ UNCHANGED <<mutex, seen, status, vars>>

\* Mutation of TimeOut: the deadline is not looked at between rounds.
TimeOutIgnored(l) ==
    /\ at[l] = "retry" /\ l \in Expiring
    /\ Move(l, "first")
    /\ UNCHANGED <<mutex, seen, status, vars>>

\* ... unless the budget is spent.
TimeOut(l) ==
    /\ at[l] = "retry" /\ l \in Expiring
    /\ Return(l, "timeout")
    /\ UNCHANGED <<seen, vars>>

-----------------------------------------------------------------------------
(* The child, under the mutex *)

Spawn(l) ==
    /\ at[l] = "spawn"
    /\ Start(Child[l])
    /\ Move(l, "poll")
    /\ UNCHANGED <<mutex, seen, status>>

\* No executable, or Popen raises.
SpawnFails(l) ==
    /\ at[l] = "spawn" /\ "start" \in Faults
    /\ Return(l, "spawn_failure")
    /\ UNCHANGED <<seen, vars>>

\* One round of the wait: an exited child, or the descriptor of the moment.
Poll(l) ==
    /\ at[l] = "poll"
    /\ IF pc[Child[l]] = "dead"
         THEN /\ status' = [status EXCEPT ![l] = "spawn_failure"]
              /\ Move(l, "compare") /\ UNCHANGED seen
         ELSE /\ seen' = [seen EXCEPT ![l] = descriptor]
              /\ Move(l, "dial") /\ UNCHANGED status
    /\ UNCHANGED <<mutex, vars>>

\* Any descriptor, and a ready answer from whoever is bound, end the wait.
DialAdvertised(l) ==
    /\ at[l] = "dial"
    /\ \/ DialedReady(seen[l]) /\ Return(l, "started")
       \/ Move(l, "poll") /\ UNCHANGED <<mutex, status>>
    /\ UNCHANGED <<seen, vars>>

\* The deadline passes between two rounds.
Expire(l) ==
    /\ at[l] = "poll" /\ l \in Expiring
    /\ status' = [status EXCEPT ![l] = "readiness_failure"]
    /\ Move(l, "terminate")
    /\ UNCHANGED <<mutex, seen, vars>>

\* _stop_child's SIGTERM.  A service that has installed its handlers stops; one
\* that has not dies; one that is already unwinding after serving goes on.
Terminate(l) ==
    LET c == Child[l] IN
    /\ at[l] = "terminate"
    /\ Move(l, "wait")
    /\ \/ pc[c] = "serving" /\ Stop(c)
       \/ pc[c] \in StartPoints \cup {"serving", "refusing", "failing", "cleaning"}
             /\ Die(c) /\ UNCHANGED crashes
       \/ pc[c] \in {"stopping", "blocked", "ended", "dead"} /\ UNCHANGED vars
    /\ UNCHANGED <<mutex, seen, status>>

\* The child has exited within the bound ...
Reap(l) ==
    /\ at[l] = "wait" /\ pc[Child[l]] = "dead"
    /\ Move(l, "compare")
    /\ UNCHANGED <<mutex, seen, status, vars>>

\* Mutation of Kill: nothing is cleaned after a kill.
KillAndReturn(l) ==
    /\ at[l] = "wait" /\ pc[Child[l]] # "dead"
    /\ Die(Child[l]) /\ UNCHANGED crashes
    /\ Return(l, status[l])
    /\ UNCHANGED seen

\* ... or is killed at its end.
Kill(l) ==
    /\ at[l] = "wait" /\ pc[Child[l]] # "dead"
    /\ Die(Child[l]) /\ UNCHANGED crashes
    /\ Move(l, "compare")
    /\ UNCHANGED <<mutex, seen, status>>

\* _clean_child_descriptor compares the pid the descriptor names ...
CompareChild(l) ==
    /\ at[l] = "compare"
    /\ IF descriptor = Child[l]
         THEN Move(l, "unlink") /\ UNCHANGED <<mutex, status>>
         ELSE Return(l, status[l])
    /\ UNCHANGED <<seen, vars>>

\* ... and unlinks whatever is there by then.
UnlinkChild(l) ==
    /\ at[l] = "unlink"
    /\ descriptor' = None
    /\ Return(l, status[l])
    /\ UNCHANGED <<seen, osVars, ownerVars, schemaVars, writes, procVars, crashes>>

\* The launcher dies; the kernel drops the mutex, the detached child lives on.
Interrupt(l) ==
    /\ l \in Interrupted /\ at[l] \notin {"returned", "killed"}
    /\ Move(l, "killed")
    /\ mutex' = IF mutex = l THEN None ELSE mutex
    /\ UNCHANGED <<seen, status, vars>>

-----------------------------------------------------------------------------

\* A child starts when it is spawned, and always serves an endpoint.
ServiceStep(i) ==
    /\ pc[i] # "idle"
    /\ InstanceStep(i)
    /\ pc[i] # "transport" \/ pc'[i] # "serving"
    /\ UNCHANGED launchVars

LauncherStep(l) ==
    \/ Discover(l) \/ ProbeFirst(l) \/ TakeMutex(l) \/ ProbeAgain(l)
    \/ Attach(l) \/ Retry(l) \/ Spawn(l) \/ SpawnFails(l) \/ Poll(l)
    \/ DialAdvertised(l) \/ Terminate(l) \/ Reap(l) \/ Kill(l)
    \/ CompareChild(l) \/ UnlinkChild(l)

\* Every launcher has returned or died: nothing more happens by itself.
Settled ==
    /\ \A l \in Launchers : at[l] \in {"returned", "killed"}
    /\ UNCHANGED allVars

LaunchNext ==
    \/ \E l \in Launchers :
          LauncherStep(l) \/ TimeOut(l) \/ Expire(l) \/ Interrupt(l)
    \/ \E i \in Instances : ServiceStep(i)
    \/ Settled

LaunchSpec == LaunchInit /\ [][LaunchNext]_allVars

\* Launchers keep running, and deadlines pass: a launcher that comes back to the
\* check for ever finds its budget spent at last.  Of the services nothing is
\* assumed: a child may hang anywhere.
LaunchFairness ==
    \A l \in Launchers :
        /\ WF_allVars(LauncherStep(l))
        /\ SF_allVars(TimeOut(l)) /\ SF_allVars(Expire(l))

FairLaunchSpec == LaunchSpec /\ LaunchFairness

-----------------------------------------------------------------------------
(* Properties *)

\* Launchers, the mutex and the services keep the shapes the code gives them; a
\* result is one of managed_start's statuses.
LaunchTypeOK ==
    /\ TypeOK
    /\ mutex \in Launchers \cup {None}
    /\ at \in [Launchers -> LaunchPoints]
    /\ seen \in [Launchers -> OptInstance]
    /\ status \in [Launchers -> Statuses]

\* Nothing has happened that leaves a stale descriptor, an orphan or a silent
\* listener: no service died without its cleanup, no release and no launcher's
\* life was cut short, no overloaded service was started.
Undisturbed ==
    /\ crashes = 0 /\ "release" \notin Faults
    /\ \A l \in Launchers : at[l] # "killed"
    /\ \A i \in Overloaded : pc[i] = "idle"

\* Concurrent launchers start one service: when a launcher spawns, no service
\* another launcher spawned is starting or serving (mutex held through readiness,
\* second discovery), whatever crashed, timed out or was stopped before, unless
\* it cannot be seen: its launcher was killed and its mutex dropped; its listen
\* queue is full; or, after a disturbance only, its launcher freed the mutex on
\* another descriptor than its own, which _dial_readiness lets the child answer
\* for before it has published one.
SpawnsAlone ==
    [][\A l \in Launchers : at[l] = "spawn" /\ at'[l] = "poll" =>
          \A k \in Launchers \ {l} :
              pc[Child[k]] \in StartPoints \cup {"serving"} =>
                  \/ at[k] = "killed"
                  \/ Child[k] \in Overloaded
                  \/ status[k] = "started" /\ seen[k] # Child[k] /\ ~Undisturbed]_allVars

\* A failed start leaves nothing: the child of a launcher that reported a
\* failure is dead, holds no lock and is not advertised (_stop_child,
\* _clean_child_descriptor).
FailedStartLeavesNothing ==
    \A l \in Launchers :
        /\ at[l] = "returned"
        /\ status[l] \in {"spawn_failure", "readiness_failure"}
        => LET c == Child[l] IN
           /\ pc[c] \in {"idle", "dead"} /\ lock # c /\ descriptor # c

\* managed_start returns, with a service or with a failure, within its budget.
LaunchersReturn ==
    \A l \in Launchers : <>(at[l] \in {"returned", "killed"})
=============================================================================
