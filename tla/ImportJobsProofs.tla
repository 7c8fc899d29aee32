--------------------------- MODULE ImportJobsProofs ---------------------------
(* The history of every import job agrees with its scheduler row, the schema's *)
(* triggers refuse nothing the service writes by itself, and a success is      *)
(* reported as it was, for any jobs and sources, any attempt budget and any    *)
(* number of requests, crashes and faults.                                     *)
EXTENDS ImportJobs, TLAPS

-----------------------------------------------------------------------------
(* The inductive invariant *)

Rows == [state : JobStates, fence : Nat, clock : Nat, attempts : Seq(Attempts),
         events : Seq(Events), observations : Seq(Observations),
         controls : SUBSET Controls]

\* What HistoryAgrees says of one row, and that a queued job's last attempt failed.
RowAgrees(r) ==
    LET n == Len(r.attempts) IN
    /\ n > 0
    /\ r.state = "claimed" <=> r.attempts[n].state = "running"
    /\ \A i \in 1 .. n - 1 : r.attempts[i].state = "failed"
    /\ Len(r.observations) = IF r.state = "claimed" THEN n - 1 ELSE n
    /\ \A i \in DOMAIN r.observations :
          /\ r.observations[i].attempt = i
          /\ r.observations[i].state = r.attempts[i].state
          /\ r.observations[i].at = r.attempts[i].finished
    /\ Last(r.events).state = r.state
    /\ r.state = "queued" => /\ r.attempts[n].state = "failed"
                             /\ r.attempts[n].error = "retryable"
                             /\ n < MaxAttempts
    /\ r.state \in Terminal => r.attempts[n].state = r.state

\* Nothing in r is later than t; no row is from the future.
Before(r, t) ==
    /\ \A i \in DOMAIN r.attempts : r.attempts[i].started <= t /\ r.attempts[i].finished <= t
    /\ \A i \in DOMAIN r.events : r.events[i].at <= t
    /\ \A i \in DOMAIN r.observations : r.observations[i].at <= t
    /\ \A c \in r.controls : c.at <= t

Clocked(r) == Before(r, r.clock)

\* Control c is the one the triggers look for behind the next attempt of r.
Leads(r, c) ==
    /\ \A d \in Lineage(r) : d.at <= c.at
    /\ QueuedAt(r, c.at) /\ c.at >= Settled(r)
    /\ \/ c.disposition = "retry_scheduled" /\ c.source = Len(r.observations)
       \/ c.disposition = "recovery_requeued" /\ c.at = Settled(r)

\* A job that is active again after a settlement has its lineage.
Lineaged(r) ==
    r.state \in {"queued", "claimed"} /\ r.observations # <<>> =>
        \E c \in Lineage(r) : Leads(r, c)

RowInv(r) == r.state # "none" => RowAgrees(r) /\ Clocked(r) /\ Lineaged(r)

PassTyped ==
    /\ pass \in [at : {"idle", "import", "barrier", "settle"}, job : Jobs \cup {None},
                 error : Errors, created : BOOLEAN]
    /\ pass.at # "idle" => pass.job \in Jobs

\* The pass reports what it found, and found what it reports.
PassReports ==
    LET s == Source[pass.job] IN
    /\ pass.at = "import" => pass.error = "none"
    /\ pass.at = "barrier" => pass.error = "none" /\ evidence[s] # None
    /\ pass.at = "settle" /\ pass.error = "none" => evidence[s] # None /\ s \in findable
    /\ pass.at \in {"barrier", "settle"} /\ pass.error = "none" =>
          (pass.created <=> evidence[s] = pass.job)

ImportInv ==
    /\ jobs \in [Jobs -> Rows] /\ generation \in Nat /\ order \in Seq(Jobs)
    /\ evidence \in [Sources -> Jobs \cup {None}]
    /\ PassTyped
    /\ \A j \in Jobs : RowInv(jobs[j])
    /\ ServiceWritesAdmitted
    /\ findable \subseteq {s \in Sources : evidence[s] # None}
    /\ PassReports
    /\ CreationReported

-----------------------------------------------------------------------------
(* The statements: what each writes and what it leaves alone *)

\* The update of the scheduler row.
LEMMA ScheduleRow ==
    ASSUME NEW r \in Rows, NEW state \in JobStates, NEW g \in Nat, NEW t \in Nat
    PROVE  LET q == Schedule(r, state, g, t) IN
           /\ q \in Rows
           /\ q.state = state /\ q.fence = g /\ q.clock = t
           /\ q.attempts = r.attempts /\ q.events = r.events
           /\ q.observations = r.observations /\ q.controls = r.controls
    BY DEF Schedule, Rows

\* A new attempt, running.
LEMMA InsertAttemptRow ==
    ASSUME NEW r \in Rows, NEW t \in Nat
    PROVE  LET q == InsertAttempt(r, t)  n == Len(r.attempts) IN
           /\ q \in Rows
           /\ q.state = r.state /\ q.fence = r.fence /\ q.clock = r.clock
           /\ n \in Nat /\ Len(q.attempts) = n + 1
           /\ \A i \in 1 .. n : q.attempts[i] = r.attempts[i]
           /\ q.attempts[n + 1] = [state |-> "running", started |-> t, finished |-> 0,
                                   error |-> "none"]
           /\ q.events = r.events /\ q.observations = r.observations
           /\ q.controls = r.controls
<1> DEFINE a == [state |-> "running", started |-> t, finished |-> 0, error |-> "none"]
           q == InsertAttempt(r, t)
<1>1. a \in Attempts
    BY DEF Attempts, Errors
<1>2. r.attempts \in Seq(Attempts)
    BY DEF Rows
<1>3. /\ Append(r.attempts, a) \in Seq(Attempts)
      /\ Len(r.attempts) \in Nat /\ Len(Append(r.attempts, a)) = Len(r.attempts) + 1
      /\ \A i \in 1 .. Len(r.attempts) : Append(r.attempts, a)[i] = r.attempts[i]
      /\ Append(r.attempts, a)[Len(r.attempts) + 1] = a
    BY <1>1, <1>2
<1> HIDE DEF a
<1>4. /\ q \in Rows /\ q.attempts = Append(r.attempts, a)
      /\ q.state = r.state /\ q.fence = r.fence /\ q.clock = r.clock
      /\ q.events = r.events /\ q.observations = r.observations /\ q.controls = r.controls
    BY <1>3 DEF InsertAttempt, Rows, a
<1>5. QED
    BY <1>3, <1>4 DEF a

\* The last attempt is closed.
LEMMA CloseAttemptRow ==
    ASSUME NEW r \in Rows, NEW state \in Terminal, NEW error \in Errors, NEW t \in Nat,
           Len(r.attempts) > 0
    PROVE  LET q == CloseAttempt(r, state, error, t)  n == Len(r.attempts) IN
           /\ q \in Rows
           /\ q.state = r.state /\ q.fence = r.fence /\ q.clock = r.clock
           /\ n \in Nat /\ Len(q.attempts) = n
           /\ \A i \in 1 .. n - 1 : q.attempts[i] = r.attempts[i]
           /\ q.attempts[n].state = state /\ q.attempts[n].finished = t
           /\ q.attempts[n].error = error /\ q.attempts[n].started = r.attempts[n].started
           /\ q.events = r.events /\ q.observations = r.observations
           /\ q.controls = r.controls
<1> DEFINE n == Len(r.attempts)
           a == [r.attempts[n] EXCEPT !.state = state, !.finished = t, !.error = error]
           q == CloseAttempt(r, state, error, t)
<1>1. r.attempts \in Seq(Attempts) /\ n \in Nat /\ n \in 1 .. n
    BY DEF Rows
<1>2. r.attempts[n] \in Attempts
    BY <1>1
<1>3. /\ a \in Attempts /\ a.state = state /\ a.finished = t /\ a.error = error
      /\ a.started = r.attempts[n].started
    BY <1>2 DEF Attempts, Terminal
<1> DEFINE s == [r.attempts EXCEPT ![n] = a]
<1> HIDE DEF a
<1>4. /\ s \in Seq(Attempts) /\ Len(s) = n /\ s[n] = a
      /\ \A i \in 1 .. n - 1 : s[i] = r.attempts[i]
    BY <1>1, <1>3
<1>5. q = [r EXCEPT !.attempts = s]
    BY DEF CloseAttempt, Rows, a
<1> HIDE DEF s
<1>6. /\ q \in Rows /\ q.attempts = s
      /\ q.state = r.state /\ q.fence = r.fence /\ q.clock = r.clock
      /\ q.events = r.events /\ q.observations = r.observations /\ q.controls = r.controls
    BY <1>4, <1>5 DEF Rows
<1>7. QED
    BY <1>1, <1>3, <1>4, <1>6

\* One more event.
LEMMA InsertEventRow ==
    ASSUME NEW r \in Rows, NEW state \in JobStates, NEW t \in Nat
    PROVE  LET q == InsertEvent(r, state, t)  n == Len(r.events) IN
           /\ q \in Rows
           /\ q.state = r.state /\ q.fence = r.fence /\ q.clock = r.clock
           /\ n \in Nat /\ Len(q.events) = n + 1
           /\ \A i \in 1 .. n : q.events[i] = r.events[i]
           /\ q.events[n + 1] = [state |-> state, at |-> t]
           /\ Last(q.events) = [state |-> state, at |-> t]
           /\ q.attempts = r.attempts /\ q.observations = r.observations
           /\ q.controls = r.controls
<1> DEFINE e == [state |-> state, at |-> t]
           q == InsertEvent(r, state, t)
<1>1. e \in Events
    BY DEF Events
<1>2. r.events \in Seq(Events)
    BY DEF Rows
<1>3. /\ Append(r.events, e) \in Seq(Events)
      /\ Len(r.events) \in Nat /\ Len(Append(r.events, e)) = Len(r.events) + 1
      /\ \A i \in 1 .. Len(r.events) : Append(r.events, e)[i] = r.events[i]
      /\ Append(r.events, e)[Len(r.events) + 1] = e
    BY <1>1, <1>2
<1> HIDE DEF e
<1>4. /\ q \in Rows /\ q.events = Append(r.events, e)
      /\ q.state = r.state /\ q.fence = r.fence /\ q.clock = r.clock
      /\ q.attempts = r.attempts /\ q.observations = r.observations
      /\ q.controls = r.controls
    BY <1>3 DEF InsertEvent, Rows, e
<1>5. QED
    BY <1>3, <1>4 DEF e, Last

\* q is r with observation o.
Observed(r, o, q) ==
    LET n == Len(r.observations) IN
    /\ q \in Rows
    /\ q.state = r.state /\ q.fence = r.fence /\ q.clock = r.clock
    /\ n \in Nat /\ Len(q.observations) = n + 1
    /\ \A i \in 1 .. n : q.observations[i] = r.observations[i]
    /\ q.observations[n + 1] = o /\ Last(q.observations) = o
    /\ q.attempts = r.attempts /\ q.events = r.events
    /\ q.controls = r.controls

Observation(r, state, created, t) ==
    [attempt |-> Len(r.attempts), state |-> state, at |-> t, created |-> created]

\* One more observation.
LEMMA InsertObservationRow ==
    ASSUME NEW r \in Rows, NEW state \in Terminal, NEW created \in BOOLEAN, NEW t \in Nat
    PROVE  Observed(r, Observation(r, state, created, t),
                    InsertObservation(r, state, created, t))
<1> DEFINE o == [attempt |-> Len(r.attempts), state |-> state, at |-> t,
                 created |-> created]
           q == InsertObservation(r, state, created, t)
<1>1. o \in Observations
  <2>1. Len(r.attempts) \in Nat
    BY DEF Rows
  <2>2. QED
    BY <2>1 DEF Observations
<1>2. r.observations \in Seq(Observations)
    BY DEF Rows
<1>3. /\ Append(r.observations, o) \in Seq(Observations)
      /\ Len(r.observations) \in Nat
      /\ Len(Append(r.observations, o)) = Len(r.observations) + 1
      /\ \A i \in 1 .. Len(r.observations) :
            Append(r.observations, o)[i] = r.observations[i]
      /\ Append(r.observations, o)[Len(r.observations) + 1] = o
    BY <1>1, <1>2
<1> HIDE DEF o
<1>4. /\ q \in Rows /\ q.observations = Append(r.observations, o)
      /\ q.state = r.state /\ q.fence = r.fence /\ q.clock = r.clock
      /\ q.attempts = r.attempts /\ q.events = r.events /\ q.controls = r.controls
    BY <1>3 DEF InsertObservation, Rows, o
<1>5. QED
    BY <1>3, <1>4 DEF o, Last, Observed, Observation

\* One more control, which moves the clock.
LEMMA InsertControlRow ==
    ASSUME NEW r \in Rows, NEW c \in Controls
    PROVE  LET q == InsertControl(r, c) IN
           /\ q \in Rows
           /\ q.state = r.state /\ q.fence = r.fence /\ q.clock = c.at
           /\ q.attempts = r.attempts /\ q.events = r.events
           /\ q.observations = r.observations /\ q.controls = r.controls \cup {c}
<1>1. c.at \in Nat
    BY DEF Controls
<1>2. QED
    BY <1>1 DEF InsertControl, Rows

-----------------------------------------------------------------------------
(* Reading rows *)

\* A row's columns have their domains.
LEMMA RowColumns ==
    ASSUME NEW r \in Rows
    PROVE  /\ r.state \in JobStates /\ r.fence \in Nat /\ r.clock \in Nat
           /\ Len(r.attempts) \in Nat /\ DOMAIN r.attempts = 1 .. Len(r.attempts)
           /\ Len(r.events) \in Nat /\ DOMAIN r.events = 1 .. Len(r.events)
           /\ Len(r.observations) \in Nat
           /\ DOMAIN r.observations = 1 .. Len(r.observations)
           /\ r.events = <<>> <=> Len(r.events) = 0
           /\ r.observations = <<>> <=> Len(r.observations) = 0
           /\ r.controls \subseteq Controls
    BY DEF Rows

\* An attempt's columns.
LEMMA AttemptColumns ==
    ASSUME NEW r \in Rows, NEW i \in 1 .. Len(r.attempts)
    PROVE  /\ r.attempts[i].state \in {"running", "succeeded", "failed"}
           /\ r.attempts[i].started \in Nat /\ r.attempts[i].finished \in Nat
<1>1. r.attempts[i] \in Attempts
  <2>1. r.attempts \in Seq(Attempts)
    BY DEF Rows
  <2>2. QED
    BY <2>1
<1>2. QED
    BY <1>1 DEF Attempts, Terminal

\* An event's instant.
LEMMA EventColumns ==
    ASSUME NEW r \in Rows, NEW i \in 1 .. Len(r.events)
    PROVE  r.events[i].at \in Nat
<1>1. r.events[i] \in Events
  <2>1. r.events \in Seq(Events)
    BY DEF Rows
  <2>2. QED
    BY <2>1
<1>2. QED
    BY <1>1 DEF Events

\* An observation's instant.
LEMMA ObservationColumns ==
    ASSUME NEW r \in Rows, NEW i \in 1 .. Len(r.observations)
    PROVE  r.observations[i].at \in Nat
<1>1. r.observations[i] \in Observations
  <2>1. r.observations \in Seq(Observations)
    BY DEF Rows
  <2>2. QED
    BY <2>1
<1>2. QED
    BY <1>1 DEF Observations

\* A control's instant.
LEMMA ControlColumns ==
    ASSUME NEW r \in Rows, NEW c \in r.controls
    PROVE  c.at \in Nat
    BY DEF Rows, Controls

\* The newest settlement is that of the last observation.
LEMMA SettledInstant ==
    ASSUME NEW r \in Rows
    PROVE  /\ Settled(r) \in Nat
           /\ Len(r.observations) > 0 => Settled(r) = r.observations[Len(r.observations)].at
           /\ Clocked(r) => Settled(r) <= r.clock
<1>1. CASE r.observations = <<>>
    BY <1>1, RowColumns DEF Settled
<1>2. CASE r.observations # <<>>
  <2>1. Len(r.observations) \in 1 .. Len(r.observations)
    BY <1>2, RowColumns
  <2>2. Settled(r) = r.observations[Len(r.observations)].at
    BY <1>2 DEF Settled, Last
  <2>3. Settled(r) \in Nat
    BY <2>1, <2>2, ObservationColumns
  <2>4. QED
    BY <2>1, <2>2, <2>3, RowColumns DEF Clocked, Before
<1>3. QED
    BY <1>1, <1>2

\* Lineage depends on the controls alone.
LEMMA SameLineage ==
    ASSUME NEW r, NEW q, q.controls = r.controls
    PROVE  Lineage(q) = Lineage(r)
    BY DEF Lineage

\* The newest settlement depends on the observations alone.
LEMMA SameSettled ==
    ASSUME NEW r, NEW q, q.observations = r.observations
    PROVE  Settled(q) = Settled(r)
    BY DEF Settled

\* A queued event stays in a history that only grows.
LEMMA QueuedKept ==
    ASSUME NEW r \in Rows, NEW q \in Rows, NEW t, QueuedAt(r, t),
           Len(q.events) >= Len(r.events),
           \A i \in 1 .. Len(r.events) : q.events[i] = r.events[i]
    PROVE  QueuedAt(q, t)
<1>1. PICK i \in 1 .. Len(r.events) : r.events[i] = [state |-> "queued", at |-> t]
    BY RowColumns DEF QueuedAt
<1>2. i \in DOMAIN q.events /\ q.events[i] = [state |-> "queued", at |-> t]
    BY <1>1, RowColumns
<1>3. QED
    BY <1>2 DEF QueuedAt

\* A queued event just written is there.
LEMMA QueuedLast ==
    ASSUME NEW r \in Rows, NEW n \in Nat, Len(r.events) = n + 1, NEW t,
           r.events[n + 1] = [state |-> "queued", at |-> t]
    PROVE  QueuedAt(r, t)
<1>1. n + 1 \in DOMAIN r.events
    BY RowColumns
<1>2. QED
    BY <1>1 DEF QueuedAt

\* The last event is not later than the clock.
LEMMA LastEvent ==
    ASSUME NEW r \in Rows, NEW t \in Nat, Clocked(r), r.clock <= t
    PROVE  r.events # <<>> => t >= Last(r.events).at
<1> SUFFICES ASSUME r.events # <<>> PROVE t >= r.events[Len(r.events)].at
    BY DEF Last
<1>1. Len(r.events) \in DOMAIN r.events /\ Len(r.events) \in 1 .. Len(r.events)
    BY RowColumns
<1>2. r.events[Len(r.events)].at <= r.clock
    BY <1>1 DEF Clocked, Before
<1>3. r.events[Len(r.events)].at \in Nat /\ r.clock \in Nat
    BY <1>1, EventColumns, RowColumns
<1>4. QED
    BY <1>2, <1>3

\* What was not later than the clock is not later than any later instant.
LEMMA BeforeLater ==
    ASSUME NEW r \in Rows, Clocked(r), NEW t \in Nat, r.clock <= t
    PROVE  Before(r, t)
<1>1. r.clock \in Nat /\ \A x \in Nat : x <= r.clock => x <= t
    BY RowColumns
<1>2. \A i \in DOMAIN r.attempts : r.attempts[i].started <= t /\ r.attempts[i].finished <= t
    BY <1>1, RowColumns, AttemptColumns DEF Clocked, Before
<1>3. \A i \in DOMAIN r.events : r.events[i].at <= t
    BY <1>1, RowColumns, EventColumns DEF Clocked, Before
<1>4. \A i \in DOMAIN r.observations : r.observations[i].at <= t
    BY <1>1, RowColumns, ObservationColumns DEF Clocked, Before
<1>5. \A c \in r.controls : c.at <= t
    BY <1>1, ControlColumns DEF Clocked, Before
<1>6. QED
    BY <1>2, <1>3, <1>4, <1>5 DEF Before

\* An attempt started at t.
LEMMA BeforeAttempt ==
    ASSUME NEW r \in Rows, NEW t \in Nat, Before(r, t)
    PROVE  Before(InsertAttempt(r, t), t)
<1> DEFINE q == InsertAttempt(r, t)
           n == Len(r.attempts)
<1>1. /\ q \in Rows /\ Len(q.attempts) = n + 1
      /\ \A i \in 1 .. n : q.attempts[i] = r.attempts[i]
      /\ q.attempts[n + 1].started = t /\ q.attempts[n + 1].finished = 0
      /\ q.events = r.events /\ q.observations = r.observations /\ q.controls = r.controls
  <2>1. q.attempts[n + 1] = [state |-> "running", started |-> t, finished |-> 0,
                             error |-> "none"]
    BY InsertAttemptRow
  <2>2. QED
    BY <2>1, InsertAttemptRow
<1> HIDE DEF q
<1>2. DOMAIN q.attempts = 1 .. n + 1 /\ DOMAIN r.attempts = 1 .. n /\ n \in Nat
    BY <1>1, RowColumns
<1>3. ASSUME NEW i \in 1 .. n + 1
      PROVE  q.attempts[i].started <= t /\ q.attempts[i].finished <= t
  <2>1. CASE i \in 1 .. n
    BY <1>1, <1>2, <2>1 DEF Before
  <2>2. CASE i = n + 1
    BY <1>1, <2>2
  <2>3. QED
    BY <1>2, <2>1, <2>2
<1>4. Before(q, t)
    BY <1>1, <1>2, <1>3 DEF Before
<1>5. QED
    BY <1>4 DEF q

\* An attempt closed at t.
LEMMA BeforeClose ==
    ASSUME NEW r \in Rows, NEW state \in Terminal, NEW error \in Errors, NEW t \in Nat,
           Len(r.attempts) > 0, Before(r, t)
    PROVE  Before(CloseAttempt(r, state, error, t), t)
<1> DEFINE q == CloseAttempt(r, state, error, t)
           n == Len(r.attempts)
<1>1. /\ q \in Rows /\ Len(q.attempts) = n
      /\ \A i \in 1 .. n - 1 : q.attempts[i] = r.attempts[i]
      /\ q.attempts[n].started = r.attempts[n].started /\ q.attempts[n].finished = t
      /\ q.events = r.events /\ q.observations = r.observations /\ q.controls = r.controls
    BY CloseAttemptRow
<1> HIDE DEF q
<1>2. DOMAIN q.attempts = 1 .. n /\ DOMAIN r.attempts = 1 .. n /\ n \in Nat
    BY <1>1, RowColumns
<1>3. ASSUME NEW i \in 1 .. n
      PROVE  q.attempts[i].started <= t /\ q.attempts[i].finished <= t
  <2>1. CASE i \in 1 .. n - 1
    BY <1>1, <1>2, <2>1 DEF Before
  <2>2. CASE i = n
    BY <1>1, <1>2, <2>2 DEF Before
  <2>3. QED
    BY <1>2, <2>1, <2>2
<1>4. Before(q, t)
    BY <1>1, <1>2, <1>3 DEF Before
<1>5. QED
    BY <1>4 DEF q

\* An event of t.
LEMMA BeforeEvent ==
    ASSUME NEW r \in Rows, NEW state \in JobStates, NEW t \in Nat, Before(r, t)
    PROVE  Before(InsertEvent(r, state, t), t)
<1> DEFINE q == InsertEvent(r, state, t)
           n == Len(r.events)
<1>1. /\ q \in Rows /\ Len(q.events) = n + 1
      /\ \A i \in 1 .. n : q.events[i] = r.events[i]
      /\ q.events[n + 1].at = t
      /\ q.attempts = r.attempts /\ q.observations = r.observations
      /\ q.controls = r.controls
  <2>1. q.events[n + 1] = [state |-> state, at |-> t]
    BY InsertEventRow
  <2>2. QED
    BY <2>1, InsertEventRow
<1> HIDE DEF q
<1>2. DOMAIN q.events = 1 .. n + 1 /\ DOMAIN r.events = 1 .. n /\ n \in Nat
    BY <1>1, RowColumns
<1>3. ASSUME NEW i \in 1 .. n + 1 PROVE q.events[i].at <= t
  <2>1. CASE i \in 1 .. n
    BY <1>1, <1>2, <2>1 DEF Before
  <2>2. CASE i = n + 1
    BY <1>1, <2>2
  <2>3. QED
    BY <1>2, <2>1, <2>2
<1>4. Before(q, t)
    BY <1>1, <1>2, <1>3 DEF Before
<1>5. QED
    BY <1>4 DEF q

\* An observation of t.
LEMMA BeforeObservation ==
    ASSUME NEW r \in Rows, NEW state \in Terminal, NEW created \in BOOLEAN, NEW t \in Nat,
           Before(r, t)
    PROVE  Before(InsertObservation(r, state, created, t), t)
<1> DEFINE q == InsertObservation(r, state, created, t)
           n == Len(r.observations)
<1>1. /\ q \in Rows /\ Len(q.observations) = n + 1
      /\ \A i \in 1 .. n : q.observations[i] = r.observations[i]
      /\ q.observations[n + 1].at = t
      /\ q.attempts = r.attempts /\ q.events = r.events /\ q.controls = r.controls
  <2>1. Observed(r, Observation(r, state, created, t), q)
    BY InsertObservationRow
  <2>2. QED
    BY <2>1 DEF Observed, Observation
<1> HIDE DEF q
<1>2. DOMAIN q.observations = 1 .. n + 1 /\ DOMAIN r.observations = 1 .. n /\ n \in Nat
    BY <1>1, RowColumns
<1>3. ASSUME NEW i \in 1 .. n + 1 PROVE q.observations[i].at <= t
  <2>1. CASE i \in 1 .. n
    BY <1>1, <1>2, <2>1 DEF Before
  <2>2. CASE i = n + 1
    BY <1>1, <2>2
  <2>3. QED
    BY <1>2, <2>1, <2>2
<1>4. Before(q, t)
    BY <1>1, <1>2, <1>3 DEF Before
<1>5. QED
    BY <1>4 DEF q

\* A control at its own instant.
LEMMA BeforeControl ==
    ASSUME NEW r \in Rows, NEW c \in Controls, Before(r, c.at)
    PROVE  Before(InsertControl(r, c), c.at)
<1>1. c.at \in Nat
    BY DEF Controls
<1>2. QED
    BY <1>1, InsertControlRow DEF Before

\* The update of the scheduler row writes no instant of the history.
LEMMA BeforeSchedule ==
    ASSUME NEW r \in Rows, NEW state \in JobStates, NEW g \in Nat, NEW t \in Nat,
           Before(r, t)
    PROVE  Before(Schedule(r, state, g, t), t)
    BY ScheduleRow DEF Before

-----------------------------------------------------------------------------
(* The transactions keep a row's invariant, and the triggers admit them *)

\* Claiming a queued job.
LEMMA ClaimRow ==
    ASSUME NEW r \in Rows, RowInv(r), r.state = "queued", NEW g \in Nat
    PROVE  LET w == Claimed(r, g, Now(r)) IN
           /\ w.ok /\ w.row \in Rows /\ RowInv(w.row) /\ w.row.state = "claimed"
<1> DEFINE t == Now(r)
           n == Len(r.attempts)
           a == Schedule(r, "claimed", g, t)
           b == InsertAttempt(a, t)
           q == InsertEvent(b, "claimed", t)
<1>1. RowAgrees(r) /\ Clocked(r) /\ Lineaged(r)
    BY DEF RowInv
<1>2. t \in Nat /\ t = r.clock + 1 /\ r.clock \in Nat /\ n \in Nat /\ n > 0
    BY <1>1, RowColumns DEF Now, RowAgrees
<1>3. t \in Nat /\ "claimed" \in JobStates
    BY <1>2 DEF JobStates
<1> HIDE DEF t
<1>4. /\ a \in Rows
      /\ a.state = "claimed" /\ a.clock = t
      /\ a.attempts = r.attempts /\ a.events = r.events
      /\ a.observations = r.observations /\ a.controls = r.controls
    BY <1>3, ScheduleRow
<1> HIDE DEF a
<1>5. /\ b \in Rows
      /\ b.state = "claimed" /\ b.clock = t
      /\ Len(b.attempts) = n + 1
      /\ \A i \in 1 .. n : b.attempts[i] = r.attempts[i]
      /\ b.attempts[n + 1] = [state |-> "running", started |-> t, finished |-> 0,
                              error |-> "none"]
      /\ b.events = r.events /\ b.observations = r.observations
      /\ b.controls = r.controls
    BY <1>3, <1>4, InsertAttemptRow
<1> HIDE DEF b
<1>6. /\ q \in Rows
      /\ q.state = "claimed" /\ q.clock = t
      /\ q.attempts = b.attempts /\ q.observations = r.observations
      /\ q.controls = r.controls
      /\ Len(r.events) \in Nat /\ Len(q.events) = Len(r.events) + 1
      /\ \A i \in 1 .. Len(r.events) : q.events[i] = r.events[i]
      /\ q.events[Len(r.events) + 1] = [state |-> "claimed", at |-> t]
      /\ Last(q.events) = [state |-> "claimed", at |-> t]
    BY <1>3, <1>5, InsertEventRow
<1> HIDE DEF q
<1>7. /\ Len(r.observations) = n /\ r.observations # <<>>
      /\ r.attempts[n].state = "failed" /\ n < MaxAttempts
    BY <1>1, <1>2, RowColumns DEF RowAgrees
<1>8. PICK c \in Lineage(r) : Leads(r, c)
    BY <1>1, <1>7 DEF Lineaged
<1>9. Settled(r) \in Nat /\ Settled(r) <= r.clock /\ Settled(r) = r.attempts[n].finished
  <2>1. r.observations[n].at = r.attempts[n].finished
    BY <1>1, <1>2, <1>7, RowColumns DEF RowAgrees
  <2>2. QED
    BY <1>1, <1>2, <1>7, <2>1, SettledInstant
<1>10. c \in r.controls /\ c.at \in Nat /\ c.at <= r.clock
    BY <1>1, <1>8, ControlColumns DEF Lineage, Clocked, Before
<1>11. AttemptAdmitted(a, t)
  <2>1. Lineage(a) = Lineage(r)
    BY <1>4, SameLineage
  <2>2. QueuedAt(a, c.at)
    BY <1>4, <1>8 DEF QueuedAt, Leads
  <2>3. n + 1 <= MaxAttempts /\ t >= r.attempts[n].finished
    BY <1>2, <1>7, <1>9, AttemptAssumption
  <2>4. QED
    BY <1>4, <1>7, <1>8, <1>9, <2>1, <2>2, <2>3 DEF AttemptAdmitted, Leads
<1>12. EventAdmitted(b, "claimed", t)
  <2>1. r.events # <<>> => t >= Last(r.events).at
    BY <1>1, <1>2, LastEvent
  <2>2. Lineage(b) = Lineage(r) /\ Settled(b) = Settled(r)
    BY <1>5, SameLineage, SameSettled
  <2>3. QueuedAt(b, c.at) /\ c.at >= Settled(b)
    BY <1>5, <1>8, <2>2 DEF QueuedAt, Leads
  <2>4. Last(b.attempts).state = "running"
    BY <1>5 DEF Last
  <2>5. QED
    BY <1>5, <1>8, <2>1, <2>2, <2>3, <2>4 DEF EventAdmitted
<1>13. RowAgrees(q)
  <2>1. Len(q.attempts) = n + 1 /\ q.attempts[n + 1].state = "running"
    BY <1>5, <1>6
  <2>2. ASSUME NEW i \in 1 .. n PROVE q.attempts[i].state = "failed"
    <3>1. r.attempts[i].state = "failed"
      BY <1>1, <1>2, <1>7 DEF RowAgrees
    <3>2. QED
      BY <1>5, <1>6, <3>1
  <2>3. Len(q.observations) = (n + 1) - 1
    BY <1>2, <1>6, <1>7
  <2>4. ASSUME NEW i \in DOMAIN q.observations
        PROVE  /\ q.observations[i].attempt = i
               /\ q.observations[i].state = q.attempts[i].state
               /\ q.observations[i].at = q.attempts[i].finished
    <3>1. i \in 1 .. n /\ i \in DOMAIN r.observations
      BY <1>6, <1>7, RowColumns
    <3>2. q.attempts[i] = r.attempts[i]
      BY <1>5, <1>6, <3>1
    <3>3. QED
      BY <1>1, <1>6, <3>1, <3>2 DEF RowAgrees
  <2>5. Last(q.events).state = "claimed"
    BY <1>6
  <2>6. QED
    BY <1>2, <1>6, <2>1, <2>2, <2>3, <2>4, <2>5 DEF RowAgrees, Terminal
<1>14. Clocked(q)
  <2>1. Before(r, t)
    BY <1>1, <1>2, BeforeLater
  <2>2. Before(a, t)
    BY <1>3, <2>1, BeforeSchedule DEF a
  <2>3. Before(b, t)
    BY <1>3, <1>4, <2>2, BeforeAttempt DEF b
  <2>4. Before(q, t)
    BY <1>3, <1>5, <2>3, BeforeEvent DEF q
  <2>5. QED
    BY <1>6, <2>4 DEF Clocked
<1>15. Lineaged(q)
  <2>1. Lineage(q) = Lineage(r) /\ Settled(q) = Settled(r)
    BY <1>6, SameLineage, SameSettled
  <2>2. QueuedAt(q, c.at)
    BY <1>6, <1>8, QueuedKept DEF Leads
  <2>3. QED
    BY <1>6, <1>8, <2>1, <2>2 DEF Lineaged, Leads
<1>16. Claimed(r, g, Now(r)).ok /\ Claimed(r, g, Now(r)).row = q
    BY <1>11, <1>12 DEF Claimed, a, b, q, t
<1>17. QED
    BY <1>6, <1>13, <1>14, <1>15, <1>16 DEF RowInv

\* Transaction w, at t, settles the job of row r.
Settlement(r, state, error, created, t, w) ==
    LET n == Len(r.attempts) IN
    /\ w.ok /\ w.row \in Rows /\ w.row.state = state /\ w.row.clock = t
    /\ RowAgrees(w.row) /\ Clocked(w.row)
    /\ Len(w.row.attempts) = n /\ w.row.attempts[n].state = state
    /\ w.row.attempts[n].finished = t /\ w.row.attempts[n].error = error
    /\ Last(w.row.events).at = t /\ Last(w.row.observations).created = created
    /\ Settled(w.row) = t /\ w.row.controls = r.controls

\* Settling a claimed job.
LEMMA SettleRow ==
    ASSUME NEW r \in Rows, RowInv(r), r.state = "claimed", NEW g \in Nat,
           NEW state \in Terminal, NEW error \in Errors, NEW created \in BOOLEAN
    PROVE  Settlement(r, state, error, created, Now(r),
                      Terminalized(r, g, state, error, created, Now(r)))
<1> DEFINE t == Now(r)
           n == Len(r.attempts)
           a == Schedule(r, state, g, t)
           b == CloseAttempt(a, state, error, t)
           c == InsertEvent(b, state, t)
           q == InsertObservation(c, state, created, t)
<1>1. RowAgrees(r) /\ Clocked(r) /\ Lineaged(r)
    BY DEF RowInv
<1>2. t \in Nat /\ t = r.clock + 1 /\ r.clock \in Nat /\ n \in Nat /\ n > 0
    BY <1>1, RowColumns DEF Now, RowAgrees
<1>3. t \in Nat /\ state \in JobStates
    BY <1>2 DEF JobStates
<1>4. n > 0
    BY <1>2
<1> HIDE DEF t
<1>5. /\ a \in Rows
      /\ a.state = state /\ a.clock = t
      /\ a.attempts = r.attempts /\ a.events = r.events
      /\ a.observations = r.observations /\ a.controls = r.controls
    BY <1>3, ScheduleRow
<1> HIDE DEF a
<1>6. /\ b \in Rows
      /\ b.state = state /\ b.clock = t
      /\ Len(b.attempts) = n
      /\ \A i \in 1 .. n - 1 : b.attempts[i] = r.attempts[i]
      /\ b.attempts[n].state = state /\ b.attempts[n].finished = t
      /\ b.attempts[n].error = error
      /\ b.events = r.events /\ b.observations = r.observations
      /\ b.controls = r.controls
    BY <1>3, <1>4, <1>5, CloseAttemptRow
<1> HIDE DEF b
<1>7. /\ c \in Rows
      /\ c.state = state /\ c.clock = t
      /\ c.attempts = b.attempts /\ c.observations = r.observations
      /\ c.controls = r.controls
      /\ Len(r.events) \in Nat /\ Len(c.events) = Len(r.events) + 1
      /\ \A i \in 1 .. Len(r.events) : c.events[i] = r.events[i]
      /\ Last(c.events) = [state |-> state, at |-> t]
    BY <1>3, <1>6, InsertEventRow
<1> HIDE DEF c
<1> DEFINE o == [attempt |-> n, state |-> state, at |-> t, created |-> created]
<1>8. /\ q \in Rows
      /\ q.state = state /\ q.clock = t
      /\ q.attempts = b.attempts /\ q.events = c.events
      /\ q.controls = r.controls
      /\ Len(q.observations) = Len(r.observations) + 1
      /\ \A i \in 1 .. Len(r.observations) : q.observations[i] = r.observations[i]
      /\ q.observations[Len(r.observations) + 1] = o
      /\ Last(q.observations) = o
  <2>1. c \in Rows /\ t \in Nat /\ Len(c.attempts) = n
    BY <1>3, <1>6, <1>7
  <2>2. Observed(c, Observation(c, state, created, t), q)
    BY <2>1, InsertObservationRow
  <2>3. Observation(c, state, created, t) = o
    BY <2>1 DEF Observation
  <2> HIDE DEF q, o
  <2>4. QED
    BY <1>7, <2>2, <2>3 DEF Observed
<1> HIDE DEF q, o
<1>9. Len(r.observations) = n - 1 /\ r.attempts[n].state = "running"
    BY <1>1 DEF RowAgrees
<1>10. Settled(r) \in Nat /\ Settled(r) <= r.clock
    BY <1>1, SettledInstant
<1>11. Before(r, t)
    BY <1>1, <1>2, BeforeLater
<1>12. ASSUME r.observations # <<>>
       PROVE  \E d \in Lineage(r) : Leads(r, d)
    BY <1>1, <1>12 DEF Lineaged
<1>13. ClosingAdmitted(a, state, t)
  <2>1. r.attempts[n].started <= t
    BY <1>2, <1>11, RowColumns DEF Before
  <2>2. r.attempts[n].started \in Nat
    BY <1>2, AttemptColumns
  <2>3. QED
    BY <1>3, <1>5, <1>9, <2>1, <2>2 DEF ClosingAdmitted, Last
<1>14. EventAdmitted(b, state, t)
  <2>1. b.events # <<>> => t >= Last(b.events).at
    BY <1>1, <1>2, <1>6, LastEvent
  <2>2. Lineage(b) = Lineage(r) /\ Settled(b) = Settled(r)
    BY <1>6, SameLineage, SameSettled
  <2>3. b.observations # <<>> =>
           \E d \in Lineage(b) : QueuedAt(b, d.at) /\ d.at >= Settled(b)
    BY <1>6, <1>12, <2>2 DEF QueuedAt, Leads
  <2>4. Last(b.attempts).state = state /\ Last(b.attempts).finished = t
    BY <1>6 DEF Last
  <2>5. state # "claimed"
    BY DEF Terminal
  <2>6. QED
    BY <1>6, <2>1, <2>3, <2>4, <2>5 DEF EventAdmitted
<1>15. ObservationAdmitted(c, state, t)
  <2>1. t >= Settled(c)
    BY <1>2, <1>7, <1>10, SameSettled
  <2>2. Last(c.attempts).state = state /\ Last(c.attempts).finished = t
    BY <1>6, <1>7 DEF Last
  <2>3. Len(c.attempts) = n
    BY <1>6, <1>7
  <2>4. ASSUME NEW i \in DOMAIN c.observations PROVE c.observations[i].attempt # Len(c.attempts)
    <3>1. i \in 1 .. n - 1 /\ i \in DOMAIN r.observations
      BY <1>7, <1>9, RowColumns
    <3>2. r.observations[i].attempt = i
      BY <1>1, <3>1 DEF RowAgrees
    <3>3. QED
      BY <1>2, <1>7, <2>3, <3>1, <3>2
  <2>5. ASSUME Len(c.observations) + 1 > 1
        PROVE  \E d \in c.controls :
                  /\ QueuedAt(c, d.at)
                  /\ \/ /\ d.disposition = "retry_scheduled"
                        /\ d.source = Len(c.observations)
                     \/ d.disposition = "recovery_requeued"
    <3>1. r.observations # <<>>
      BY <1>7, <2>5, RowColumns
    <3>2. PICK d \in Lineage(r) : Leads(r, d)
      BY <1>12, <3>1
    <3>3. d \in c.controls
      BY <1>7, <3>2 DEF Lineage
    <3>4. QueuedAt(c, d.at)
      BY <1>7, <3>2, QueuedKept DEF Leads
    <3>5. QED
      BY <1>7, <3>2, <3>3, <3>4 DEF Leads
  <2>6. (Len(c.observations) + 1) - 1 = Len(c.observations)
    BY <1>7, RowColumns
  <2>7. QED
    BY <1>7, <2>1, <2>2, <2>4, <2>5, <2>6 DEF ObservationAdmitted
<1>16. RowAgrees(q)
  <2>1. Len(q.attempts) = n /\ q.attempts[n].state = state /\ n > 0
    BY <1>4, <1>6, <1>8
  <2>2. ASSUME NEW i \in 1 .. n - 1
        PROVE  q.attempts[i] = r.attempts[i] /\ q.attempts[i].state = "failed"
    BY <1>1, <1>6, <1>8 DEF RowAgrees
  <2>3. Len(q.observations) = n
    BY <1>2, <1>8, <1>9
  <2>4. ASSUME NEW i \in DOMAIN q.observations
        PROVE  /\ q.observations[i].attempt = i
               /\ q.observations[i].state = q.attempts[i].state
               /\ q.observations[i].at = q.attempts[i].finished
    <3>1. i \in 1 .. n
      BY <1>8, <2>3, RowColumns
    <3>2. CASE i = n
      <4>1. q.observations[n] = o
        BY <1>2, <1>8, <1>9
      <4>2. o.attempt = n /\ o.state = state /\ o.at = t
        BY DEF o
      <4>3. QED
        BY <1>6, <1>8, <3>2, <4>1, <4>2
    <3>3. CASE i # n
      <4>1. i \in 1 .. n - 1 /\ i \in DOMAIN r.observations
        BY <1>2, <1>9, <3>1, <3>3, RowColumns
      <4>2. q.observations[i] = r.observations[i]
        BY <1>8, <1>9, <4>1
      <4>3. QED
        BY <1>1, <2>2, <4>1, <4>2 DEF RowAgrees
    <3>4. QED
      BY <3>2, <3>3
  <2>5. Last(q.events).state = state
    BY <1>7, <1>8
  <2>6. state \notin {"claimed", "queued", "running"}
    BY DEF Terminal
  <2>7. QED
    BY <1>8, <2>1, <2>2, <2>3, <2>4, <2>5, <2>6 DEF RowAgrees
<1>17. Clocked(q)
  <2>1. Before(a, t)
    BY <1>3, <1>11, BeforeSchedule DEF a
  <2>2. Before(b, t)
    BY <1>3, <1>4, <1>5, <2>1, BeforeClose DEF b
  <2>3. Before(c, t)
    BY <1>3, <1>6, <2>2, BeforeEvent DEF c
  <2>4. Before(q, t)
    BY <1>3, <1>7, <2>3, BeforeObservation DEF q
  <2>5. QED
    BY <1>8, <2>4 DEF Clocked
<1>18. Settled(q) = t
  <2>1. q.observations # <<>>
    BY <1>2, <1>8, <1>9, RowColumns
  <2>2. QED
    BY <1>8, <2>1 DEF Settled, o
<1>19. /\ Terminalized(r, g, state, error, created, Now(r)).ok
       /\ Terminalized(r, g, state, error, created, Now(r)).row = q
    BY <1>13, <1>14, <1>15 DEF Terminalized, a, b, c, q, t
<1>20. Last(q.events).at = t /\ Last(q.observations).created = created
    BY <1>7, <1>8 DEF o
<1>21. QED
    BY <1>6, <1>8, <1>16, <1>17, <1>18, <1>19, <1>20 DEF t, Settlement

\* Queueing a failed job again, with the control c that says why.
LEMMA RequeueRow ==
    ASSUME NEW r \in Rows, RowAgrees(r), Clocked(r), r.state = "failed", NEW g \in Nat,
           NEW c \in Controls, r.clock <= c.at,
           Len(r.attempts) < MaxAttempts, r.attempts[Len(r.attempts)].error = "retryable",
           c \in Lineage([controls |-> {c}]),
           \/ c.disposition = "retry_scheduled" /\ c.source = Len(r.observations)
           \/ c.disposition = "recovery_requeued" /\ c.at = Settled(r)
    PROVE  LET e == Schedule(r, "queued", g, c.at)
               f == InsertControl(e, c)
               q == InsertEvent(f, "queued", c.at)
           IN
           /\ q \in Rows /\ RowInv(q) /\ q.state = "queued"
           /\ q.observations = r.observations
           /\ EventAdmitted(f, "queued", c.at)
<1> DEFINE t == c.at
           n == Len(r.attempts)
           e == Schedule(r, "queued", g, t)
           f == InsertControl(e, c)
           q == InsertEvent(f, "queued", t)
<1>1. t \in Nat /\ "queued" \in JobStates
    BY DEF Controls, JobStates
<1>2. /\ e \in Rows /\ e.state = "queued"
      /\ e.attempts = r.attempts /\ e.events = r.events
      /\ e.observations = r.observations /\ e.controls = r.controls
    BY <1>1 DEF Schedule, Rows
<1> HIDE DEF e
<1>3. /\ f \in Rows /\ f.state = "queued" /\ f.clock = t
      /\ f.attempts = r.attempts /\ f.events = r.events
      /\ f.observations = r.observations /\ f.controls = r.controls \cup {c}
    BY <1>2, InsertControlRow
<1> HIDE DEF f
<1>4. /\ q \in Rows /\ q.state = "queued" /\ q.clock = t
      /\ q.attempts = r.attempts /\ q.observations = r.observations
      /\ q.controls = r.controls \cup {c}
      /\ Len(r.events) \in Nat /\ Len(q.events) = Len(r.events) + 1
      /\ q.events[Len(r.events) + 1] = [state |-> "queued", at |-> t]
      /\ Last(q.events) = [state |-> "queued", at |-> t]
    BY <1>1, <1>3, InsertEventRow
<1> HIDE DEF q
<1>5. c.resulting = "queued" /\ Requeues(c)
    BY DEF Lineage, Requeues
<1>6. EventAdmitted(f, "queued", t)
  <2>1. f.events # <<>> => t >= Last(f.events).at
    BY <1>1, <1>3, LastEvent
  <2>2. QED
    BY <1>3, <1>5, <2>1 DEF EventAdmitted
<1>7. RowAgrees(q)
  <2>1. Last(q.events).state = "queued"
    BY <1>4
  <2>2. r.attempts[n].state = "failed" /\ Len(r.observations) = n
    BY DEF RowAgrees, Terminal
  <2>3. QED
    BY <1>4, <2>1, <2>2 DEF RowAgrees, Terminal
<1>8. Clocked(q)
  <2>1. Before(r, t)
    BY <1>1, BeforeLater
  <2>2. Before(e, t)
    BY <1>1, <2>1, BeforeSchedule DEF e
  <2>3. Before(f, t)
    BY <1>2, <2>2, BeforeControl DEF f
  <2>4. Before(q, t)
    BY <1>1, <1>3, <2>3, BeforeEvent DEF q
  <2>5. QED
    BY <1>4, <2>4 DEF Clocked
<1>9. Lineaged(q)
  <2>1. c \in Lineage(q)
    BY <1>4 DEF Lineage
  <2>2. \A d \in Lineage(q) : d.at <= t
    BY <1>4, <1>8 DEF Lineage, Clocked, Before
  <2>3. QueuedAt(q, t)
    BY <1>4, QueuedLast
  <2>4. Settled(q) = Settled(r)
    BY <1>4, SameSettled
  <2>5. t >= Settled(r)
    <3>1. Settled(r) \in Nat /\ Settled(r) <= r.clock /\ r.clock \in Nat
      BY SettledInstant, RowColumns
    <3>2. QED
      BY <1>1, <3>1
  <2>6. Leads(q, c)
    BY <1>4, <2>2, <2>3, <2>4, <2>5 DEF Leads
  <2>7. QED
    BY <2>1, <2>6 DEF Lineaged
<1>10. q \in Rows /\ RowInv(q) /\ q.state = "queued" /\ q.observations = r.observations
    BY <1>4, <1>7, <1>8, <1>9 DEF RowInv
<1>11. QED
    BY <1>6, <1>10 DEF e, f, q

\* Recovering a stranded job.
LEMMA RecoverRow ==
    ASSUME NEW r \in Rows, RowInv(r), r.state = "claimed", NEW g \in Nat
    PROVE  LET w == Recovered(r, g, Now(r)) IN
           /\ w.ok /\ w.row \in Rows /\ RowInv(w.row) /\ w.row.state \in {"queued", "failed"}
<1> DEFINE t == Now(r)
           n == Len(r.attempts)
           d == Terminalized(r, g, "failed", "retryable", FALSE, t)
           q == d.row
           e == Schedule(q, "queued", g, t)
           c == Control("system.recovery", "recovery_requeued", "queued", 0, t)
           f == InsertControl(e, c)
           h == InsertEvent(f, "queued", t)
<1>1. Clocked(r) /\ t \in Nat /\ t = r.clock + 1 /\ r.clock \in Nat
    BY RowColumns DEF RowInv, Now
<1>2. "failed" \in Terminal /\ "retryable" \in Errors /\ "queued" \in JobStates
    BY DEF Terminal, Errors, JobStates
<1>3. /\ d.ok /\ q \in Rows /\ q.state = "failed" /\ q.clock = t
      /\ RowAgrees(q) /\ Clocked(q)
      /\ Len(q.attempts) = n /\ q.attempts[n].state = "failed"
      /\ q.attempts[n].finished = t /\ q.attempts[n].error = "retryable"
      /\ Settled(q) = t /\ q.controls = r.controls
  <2>1. Settlement(r, "failed", "retryable", FALSE, t, d)
    BY <1>2, SettleRow
  <2>2. QED
    BY <2>1 DEF Settlement
<1> HIDE DEF t, q
<1>4. c \in Controls
    BY <1>1, <1>2 DEF Control, Controls
<1>5. /\ c.at = t /\ c.disposition = "recovery_requeued" /\ c.resulting = "queued"
      /\ c.operation = "system.recovery"
    BY DEF Control
<1> HIDE DEF c, d
<1>6. CASE n < MaxAttempts
  <2>1. /\ h \in Rows /\ RowInv(h) /\ h.state = "queued"
        /\ EventAdmitted(f, "queued", t)
    <3>1. c \in Lineage([controls |-> {c}])
      BY <1>5 DEF Lineage
    <3>2. q.clock <= c.at
      BY <1>1, <1>3, <1>5
    <3>3. QED
      BY <1>3, <1>4, <1>5, <1>6, <3>1, <3>2, RequeueRow
  <2>2. ControlAdmitted(e, c)
    <3>0. q \in Rows /\ t \in Nat
      BY <1>1, <1>3
    <3>1. /\ e.state = "queued" /\ e.attempts = q.attempts /\ e.controls = q.controls
      BY <1>2, <3>0, ScheduleRow
    <3> HIDE DEF e
    <3>2. Last(e.attempts) = q.attempts[n]
      BY <1>3, <3>1 DEF Last
    <3>3. ASSUME NEW k \in e.controls PROVE k.at # c.at
      <4>1. k \in r.controls
        BY <1>3, <3>1
      <4>2. k.at \in Nat /\ k.at <= r.clock
        BY <1>1, <4>1, ControlColumns DEF Clocked, Before
      <4>3. QED
        BY <1>1, <1>5, <4>2
    <3>4. QED
      BY <1>3, <1>5, <3>1, <3>2, <3>3 DEF ControlAdmitted
  <2>3. Recovered(r, g, Now(r)).ok /\ Recovered(r, g, Now(r)).row = h
    BY <1>3, <1>6, <2>1, <2>2 DEF Recovered, t, q, d, c
  <2>4. QED
    BY <2>1, <2>3
<1>7. CASE ~(n < MaxAttempts)
  <2>1. Recovered(r, g, Now(r)) = d
    BY <1>7 DEF Recovered, d, t
  <2>2. RowInv(q)
    BY <1>3 DEF RowInv, Lineaged
  <2>3. QED
    BY <1>3, <2>1, <2>2 DEF q
<1>8. QED
    BY <1>6, <1>7

\* A control that requeues nothing, alone or with an event of the state the job is in.
LEMMA NoteRow ==
    ASSUME NEW r \in Rows, RowInv(r), r.state # "none", NEW c \in Controls, c.at = Now(r),
           ~(c.resulting = "queued" /\ c.operation \in {"job.retry", "system.recovery"})
    PROVE  LET b == InsertControl(r, c)  q == InsertEvent(b, r.state, c.at) IN
           /\ b \in Rows /\ RowInv(b) /\ b.state = r.state
           /\ b.observations = r.observations /\ Lineage(b) = Lineage(r)
           /\ q \in Rows /\ RowInv(q) /\ q.state = r.state
           /\ q.observations = r.observations
<1> DEFINE t == c.at
           b == InsertControl(r, c)
           q == InsertEvent(b, r.state, t)
<1>1. RowAgrees(r) /\ Clocked(r) /\ Lineaged(r)
    BY DEF RowInv
<1>2. t \in Nat /\ r.clock <= t
    BY RowColumns DEF Controls, Now
<1>3. t \in Nat /\ r.state \in JobStates
    BY <1>2, RowColumns
<1>4. /\ b \in Rows /\ b.state = r.state /\ b.clock = t
      /\ b.attempts = r.attempts /\ b.events = r.events
      /\ b.observations = r.observations /\ b.controls = r.controls \cup {c}
    BY InsertControlRow
<1> HIDE DEF b
<1>5. Lineage(b) = Lineage(r)
    BY <1>4 DEF Lineage
<1>6. Before(b, t)
  <2>1. Before(r, t)
    BY <1>1, <1>2, BeforeLater
  <2>2. QED
    BY <2>1, BeforeControl DEF b
<1>7. RowInv(b)
  <2>1. RowAgrees(b)
    BY <1>1, <1>4 DEF RowAgrees
  <2>2. Settled(b) = Settled(r)
    BY <1>4, SameSettled
  <2>3. Lineaged(b)
    BY <1>1, <1>4, <1>5, <2>2 DEF Lineaged, Leads, QueuedAt
  <2>4. QED
    BY <1>4, <1>6, <2>1, <2>3 DEF RowInv, Clocked
<1>8. /\ q \in Rows /\ q.state = r.state /\ q.clock = t
      /\ q.attempts = r.attempts /\ q.observations = r.observations
      /\ q.controls = b.controls
      /\ Len(b.events) \in Nat /\ Len(q.events) = Len(b.events) + 1
      /\ \A i \in 1 .. Len(b.events) : q.events[i] = b.events[i]
      /\ Last(q.events) = [state |-> r.state, at |-> t]
  <2>1. b \in Rows
    BY <1>4
  <2>2. /\ q \in Rows /\ q.state = b.state /\ q.clock = b.clock
        /\ q.attempts = b.attempts /\ q.observations = b.observations
        /\ q.controls = b.controls
        /\ Len(b.events) \in Nat /\ Len(q.events) = Len(b.events) + 1
        /\ \A i \in 1 .. Len(b.events) : q.events[i] = b.events[i]
        /\ Last(q.events) = [state |-> r.state, at |-> t]
    BY <1>3, <2>1, InsertEventRow
  <2> HIDE DEF q
  <2>3. QED
    BY <1>4, <2>2
<1>9. Before(q, t)
    BY <1>3, <1>4, <1>6, BeforeEvent
<1> HIDE DEF q
<1>10. RowInv(q)
  <2>1. RowAgrees(q)
    <3>1. Last(q.events).state = r.state
      BY <1>8
    <3>2. QED
      BY <1>1, <1>8, <3>1 DEF RowAgrees
  <2>2. Settled(q) = Settled(b) /\ Lineage(q) = Lineage(b)
    BY <1>4, <1>8, SameSettled, SameLineage
  <2>3. \A x : QueuedAt(b, x) => QueuedAt(q, x)
    BY <1>4, <1>8, QueuedKept
  <2>4. Lineaged(b)
    BY <1>4, <1>7 DEF RowInv
  <2>5. Lineaged(q)
    BY <1>4, <1>8, <2>2, <2>3, <2>4 DEF Lineaged, Leads
  <2>6. QED
    BY <1>8, <1>9, <2>1, <2>5 DEF RowInv, Clocked
<1>11. QED
    BY <1>4, <1>5, <1>7, <1>8, <1>10 DEF b, q

\* job.cancel is recorded whatever the answer.
LEMMA CancelRow ==
    ASSUME NEW r \in Rows, RowInv(r), r.state # "none"
    PROVE  LET w == Cancelled(r, Now(r)) IN
           /\ w.ok /\ w.row \in Rows /\ RowInv(w.row)
           /\ w.row.state = r.state /\ w.row.observations = r.observations
<1> DEFINE t == Now(r)
           disposition == IF Cancellable(r) THEN "cancellation_requested"
                                            ELSE "not_cancellable"
           c == Control("job.cancel", disposition, r.state, 0, t)
           b == InsertControl(r, c)
           q == InsertEvent(b, r.state, t)
<1>1. t \in Nat /\ r.state \in JobStates /\ r.clock <= t
    BY RowColumns DEF Now
<1>2. /\ c.at = t /\ c.resulting = r.state /\ c.operation = "job.cancel"
      /\ c.disposition = disposition
    BY DEF Control
<1>3. c \in Controls
    BY <1>1 DEF Control, Controls
<1> HIDE DEF c
<1>4. /\ b \in Rows /\ RowInv(b) /\ b.state = r.state
      /\ b.observations = r.observations /\ Lineage(b) = Lineage(r)
      /\ q \in Rows /\ RowInv(q) /\ q.state = r.state
      /\ q.observations = r.observations
    BY <1>2, <1>3, NoteRow
<1>5. ControlAdmitted(r, c)
    BY <1>2 DEF ControlAdmitted
<1>6. ASSUME Cancellable(r) PROVE EventAdmitted(b, r.state, t)
  <2>1. /\ b.attempts = r.attempts /\ b.events = r.events /\ b.controls = r.controls \cup {c}
    BY <1>3, InsertControlRow
  <2> HIDE DEF b
  <2>2. b.events # <<>> => t >= Last(b.events).at
    BY <1>1, <2>1, LastEvent DEF RowInv
  <2>3. c \in b.controls /\ c.disposition = "cancellation_requested"
    BY <1>2, <1>6, <2>1
  <2>4. ASSUME b.observations # <<>>
        PROVE  \E d \in Lineage(b) : QueuedAt(b, d.at) /\ d.at >= Settled(b)
    <3>1. r.state \in {"queued", "claimed"}
      BY <1>6 DEF Cancellable
    <3>2. PICK d \in Lineage(b) : Leads(b, d)
      BY <1>4, <2>4, <3>1 DEF RowInv, Lineaged
    <3>3. QED
      BY <3>2 DEF Leads
  <2>5. QED
    BY <1>2, <1>4, <2>2, <2>3, <2>4 DEF EventAdmitted
<1>7. CASE Cancellable(r)
  <2>1. Cancelled(r, t).ok /\ Cancelled(r, t).row = q
    BY <1>5, <1>6, <1>7 DEF Cancelled, c
  <2>2. QED
    BY <1>4, <2>1
<1>8. CASE ~Cancellable(r)
  <2>1. Cancelled(r, t).ok /\ Cancelled(r, t).row = b
    BY <1>5, <1>8 DEF Cancelled, c
  <2>2. QED
    BY <1>4, <2>1
<1>9. QED
    BY <1>7, <1>8

\* job.retry queues a failed job, is noted, or is refused.
LEMMA RetryRow ==
    ASSUME NEW r \in Rows, RowInv(r), r.state # "none", NEW g \in Nat,
           Retried(r, g, Now(r)).ok
    PROVE  LET w == Retried(r, g, Now(r)) IN
           /\ w.row \in Rows /\ RowInv(w.row) /\ w.row.observations = r.observations
           /\ w.row.state = r.state \/ w.row.state = "queued"
<1> DEFINE t == Now(r)
           w == Retried(r, g, t)
<1>1. t \in Nat /\ r.state \in JobStates /\ r.clock <= t /\ Len(r.observations) \in Nat
    BY RowColumns DEF Now
<1>2. RowAgrees(r) /\ Clocked(r)
    BY DEF RowInv
<1>3. CASE Retryable(r)
  <2> DEFINE c == Control("job.retry", "retry_scheduled", "queued", Len(r.observations), t)
             q == InsertEvent(InsertControl(Schedule(r, "queued", g, t), c), "queued", t)
  <2>1. /\ c.at = t /\ c.resulting = "queued" /\ c.operation = "job.retry"
        /\ c.disposition = "retry_scheduled" /\ c.source = Len(r.observations)
    BY DEF Control
  <2>2. c \in Controls
    BY <1>1 DEF Control, Controls, JobStates
  <2>3. w.row = q
    <3>1. "queued" \in JobStates
      BY DEF JobStates
    <3>2. Schedule(r, "queued", g, t).state = "queued"
      BY <1>1, <3>1 DEF Schedule, Rows
    <3>3. QED
      BY <1>3, <3>2 DEF Retried
  <2> HIDE DEF c
  <2>4. c \in Lineage([controls |-> {c}])
    BY <2>1 DEF Lineage
  <2>5. /\ r.state = "failed" /\ Len(r.attempts) < MaxAttempts
        /\ r.attempts[Len(r.attempts)].error = "retryable"
    BY <1>3 DEF Retryable, Last
  <2>6. q \in Rows /\ RowInv(q) /\ q.state = "queued" /\ q.observations = r.observations
    BY <1>1, <1>2, <2>1, <2>2, <2>4, <2>5, RequeueRow
  <2>7. QED
    BY <2>3, <2>6
<1>4. CASE ~Retryable(r)
  <2> DEFINE c == Control("job.retry", "not_retryable", r.state, 0, t)
             b == InsertControl(r, c)
  <2>1. /\ c.at = t /\ c.resulting = r.state /\ c.operation = "job.retry"
        /\ c.disposition = "not_retryable"
    BY DEF Control
  <2>2. c \in Controls
    BY <1>1 DEF Control, Controls
  <2>3. CASE r.state = "queued"
    <3>1. EventAdmitted(b, "queued", t)
      BY <1>4, <2>3 DEF Retried
    <3> HIDE DEF c
    <3>2. /\ b.state = "queued" /\ b.attempts = r.attempts
          /\ b.observations = r.observations /\ b.controls = r.controls \cup {c}
      BY <2>2, <2>3, InsertControlRow
    <3> HIDE DEF b
    <3>3. Len(r.attempts) \in 1 .. Len(r.attempts) /\ r.observations # <<>>
      BY <1>2, <2>3, RowColumns DEF RowAgrees
    <3>4. t >= Settled(b)
      <4>1. Settled(b) = Settled(r)
        BY <3>2, SameSettled
      <4>2. Settled(r) \in Nat /\ Settled(r) <= r.clock /\ r.clock \in Nat
        BY <1>2, SettledInstant, RowColumns
      <4>3. QED
        BY <1>1, <4>1, <4>2
    <3>5. \A d \in b.controls : d.at = t => d = c
      <4>1. \A d \in r.controls : d.at \in Nat /\ d.at <= r.clock
        BY <1>2, ControlColumns DEF Clocked, Before
      <4>2. r.clock \in Nat /\ t = r.clock + 1
        BY RowColumns DEF Now
      <4>3. QED
        BY <3>2, <4>1, <4>2
    <3>6. Last(b.attempts).state # "queued"
      <4>1. r.attempts[Len(r.attempts)].state \in {"running", "succeeded", "failed"}
        BY <3>3, AttemptColumns
      <4>2. QED
        BY <3>2, <4>1 DEF Last
    <3>7. FALSE
      BY <2>1, <3>1, <3>2, <3>3, <3>4, <3>5, <3>6 DEF EventAdmitted, Requeues
    <3>8. QED
      BY <3>7
  <2>4. CASE r.state # "queued"
    <3>1. w.row = b
      BY <1>4, <2>4 DEF Retried
    <3> HIDE DEF c
    <3>2. b \in Rows /\ RowInv(b) /\ b.state = r.state /\ b.observations = r.observations
      BY <2>1, <2>2, <2>4, NoteRow
    <3>3. QED
      BY <3>1, <3>2
  <2>5. QED
    BY <2>3, <2>4
<1>5. QED
    BY <1>3, <1>4

\* import.start: the first attempt of a new job.
LEMMA StartRow ==
    ASSUME NEW g \in Nat
    PROVE  LET w == Claimed(NoJob, g, 1) IN
           /\ w.ok /\ w.row \in Rows /\ RowInv(w.row) /\ w.row.state = "claimed"
<1> DEFINE r == NoJob
           a == Schedule(r, "claimed", g, 1)
           b == InsertAttempt(a, 1)
           q == InsertEvent(b, "claimed", 1)
<1>1. "claimed" \in JobStates /\ "none" \in JobStates /\ 1 \in Nat
    BY DEF JobStates
<1>2. /\ r \in Rows /\ r.state = "none" /\ r.attempts = <<>> /\ r.events = <<>>
      /\ r.observations = <<>> /\ r.controls = {}
    BY <1>1 DEF NoJob, Rows
<1> HIDE DEF r
<1>3. /\ a \in Rows /\ a.state = "claimed" /\ a.clock = 1
      /\ a.attempts = <<>> /\ a.events = <<>> /\ a.observations = <<>> /\ a.controls = {}
    BY <1>1, <1>2, ScheduleRow
<1> HIDE DEF a
<1>4. /\ b \in Rows /\ b.state = "claimed" /\ b.clock = 1
      /\ Len(b.attempts) = 1
      /\ b.attempts[1].state = "running"
      /\ b.events = <<>> /\ b.observations = <<>> /\ b.controls = {}
  <2>1. Len(a.attempts) = 0
    BY <1>3
  <2>2. /\ b \in Rows /\ b.state = "claimed" /\ b.clock = 1
        /\ Len(b.attempts) = Len(a.attempts) + 1
        /\ b.attempts[Len(a.attempts) + 1] =
              [state |-> "running", started |-> 1, finished |-> 0, error |-> "none"]
        /\ b.events = <<>> /\ b.observations = <<>> /\ b.controls = {}
    BY <1>1, <1>3, InsertAttemptRow
  <2> HIDE DEF b
  <2>3. QED
    BY <2>1, <2>2
<1>5. Before(b, 1)
  <2>1. Before(a, 1)
    BY <1>3 DEF Before
  <2>2. QED
    BY <1>1, <1>3, <2>1, BeforeAttempt
<1> HIDE DEF b
<1>6. /\ q \in Rows /\ q.state = "claimed" /\ q.clock = 1
      /\ q.attempts = b.attempts /\ q.observations = <<>> /\ q.controls = {}
      /\ Last(q.events) = [state |-> "claimed", at |-> 1]
    BY <1>1, <1>4, InsertEventRow
<1>7. Before(q, 1)
    BY <1>1, <1>4, <1>5, BeforeEvent
<1> HIDE DEF q
<1>8. AttemptAdmitted(a, 1)
    BY <1>3, AttemptAssumption DEF AttemptAdmitted
<1>9. EventAdmitted(b, "claimed", 1)
    BY <1>4 DEF EventAdmitted
<1>10. RowAgrees(q)
  <2>1. Last(q.events).state = "claimed"
    BY <1>6
  <2>2. Len(q.attempts) = 1 /\ q.attempts[1].state = "running" /\ Len(q.observations) = 0
        /\ DOMAIN q.observations = {}
    BY <1>4, <1>6
  <2>3. QED
    BY <1>6, <2>1, <2>2 DEF RowAgrees, Terminal
<1>11. RowInv(q)
    BY <1>6, <1>7, <1>10 DEF RowInv, Clocked, Lineaged
<1>12. Claimed(NoJob, g, 1).ok /\ Claimed(NoJob, g, 1).row = q
    BY <1>8, <1>9 DEF Claimed, q, b, a, r
<1>13. QED
    BY <1>6, <1>11, <1>12

-----------------------------------------------------------------------------
(* The service *)

\* A transaction on job j that is admitted.
LEMMA CommitRow ==
    ASSUME jobs \in [Jobs -> Rows], \A k \in Jobs : RowInv(jobs[k]),
           NEW j \in Jobs, NEW w, NEW name, Commit(j, name, w),
           w.ok => w.row \in Rows /\ RowInv(w.row)
    PROVE  /\ jobs' \in [Jobs -> Rows]
           /\ \A k \in Jobs : RowInv(jobs'[k])
           /\ \A k \in Jobs : k # j => jobs'[k] = jobs[k]
           /\ jobs'[j] = IF w.ok THEN w.row ELSE jobs[j]
           /\ w.ok => refused' = refused
           /\ refused' \subseteq refused \cup {name}
    BY DEF Commit

\* What an action does to the rows.
RowsKept ==
    /\ jobs' \in [Jobs -> Rows]
    /\ \A k \in Jobs : RowInv(jobs'[k])
    /\ ServiceWritesAdmitted'

\* What it does to what succeeded: nothing, unless it settles.
SuccessesKept ==
    \A k \in Jobs : jobs'[k].state = "succeeded" =>
        jobs[k].state = "succeeded" /\ jobs'[k].observations = jobs[k].observations

\* import.start.
LEMMA StartStep ==
    ASSUME ImportInv, NEW j \in Jobs, ImportStart(j)
    PROVE  RowsKept /\ SuccessesKept
<1> DEFINE w == Claimed(NoJob, generation, 1)
<1>1. w.ok /\ w.row \in Rows /\ RowInv(w.row) /\ w.row.state = "claimed"
    BY StartRow DEF ImportInv
<1>2. Commit(j, "start", w)
    BY DEF ImportStart
<1> HIDE DEF w
<1>3. QED
    BY <1>1, <1>2, CommitRow DEF ImportInv, RowsKept, SuccessesKept, ServiceWritesAdmitted

\* job.cancel.
LEMMA CancelStep ==
    ASSUME ImportInv, NEW j \in Jobs, JobCancel(j)
    PROVE  RowsKept /\ SuccessesKept
<1> DEFINE w == Cancelled(jobs[j], Now(jobs[j]))
<1>1. /\ w.ok /\ w.row \in Rows /\ RowInv(w.row)
      /\ w.row.state = jobs[j].state /\ w.row.observations = jobs[j].observations
    BY CancelRow DEF ImportInv, JobCancel
<1>2. Commit(j, "cancel", w)
    BY DEF JobCancel
<1> HIDE DEF w
<1>3. jobs \in [Jobs -> Rows] /\ \A k \in Jobs : RowInv(jobs[k])
    BY DEF ImportInv
<1>4. /\ jobs' \in [Jobs -> Rows] /\ \A k \in Jobs : RowInv(jobs'[k])
      /\ \A k \in Jobs : k # j => jobs'[k] = jobs[k]
      /\ jobs'[j] = w.row /\ refused' = refused
    BY <1>1, <1>2, <1>3, CommitRow
<1>5. QED
    BY <1>1, <1>4 DEF ImportInv, RowsKept, SuccessesKept, ServiceWritesAdmitted

\* job.retry, the one request a trigger may refuse.
LEMMA RetryStep ==
    ASSUME ImportInv, NEW j \in Jobs, JobRetry(j)
    PROVE  RowsKept /\ SuccessesKept
<1> DEFINE w == Retried(jobs[j], generation, Now(jobs[j]))
<1>1. w.ok => /\ w.row \in Rows /\ RowInv(w.row)
              /\ w.row.observations = jobs[j].observations
              /\ w.row.state = jobs[j].state \/ w.row.state = "queued"
    BY RetryRow DEF ImportInv, JobRetry
<1>2. Commit(j, "retry", w)
    BY DEF JobRetry
<1> HIDE DEF w
<1>3. QED
    BY <1>1, <1>2, CommitRow DEF ImportInv, RowsKept, SuccessesKept, ServiceWritesAdmitted

\* The executor takes a job.
LEMMA NextPendingStep ==
    ASSUME ImportInv, NextPending
    PROVE  /\ RowsKept /\ SuccessesKept
           /\ pass' = Idle \/ \E j \in Jobs : pass' = Working(j)
<1>1. PICK i \in DOMAIN order :
         LET j == order[i]  w == Claimed(jobs[j], generation, Now(jobs[j])) IN
         /\ Serving /\ Chosen(i)
         /\ IF jobs[j].state = "claimed"
              THEN pass' = Working(j) /\ UNCHANGED <<jobs, refused>>
              ELSE Commit(j, "claim", w) /\ pass' = (IF w.ok THEN Working(j) ELSE Idle)
    BY DEF NextPending
<1> DEFINE j == order[i]
           w == Claimed(jobs[j], generation, Now(jobs[j]))
<1>2. j \in Jobs
    BY DEF ImportInv
<1> HIDE DEF j
<1>3. CASE jobs[j].state = "claimed"
  <2>1. pass' = Working(j) /\ UNCHANGED <<jobs, refused>>
    BY <1>1, <1>3 DEF j
  <2>2. QED
    BY <1>2, <2>1 DEF ImportInv, RowsKept, SuccessesKept, ServiceWritesAdmitted
<1>4. CASE jobs[j].state # "claimed"
  <2>1. Commit(j, "claim", w) /\ pass' = (IF w.ok THEN Working(j) ELSE Idle)
    BY <1>1, <1>4 DEF j
  <2>2. jobs[j].state = "queued"
    BY <1>1, <1>4 DEF Chosen, Pending, j
  <2>3. w.ok /\ w.row \in Rows /\ RowInv(w.row) /\ w.row.state = "claimed"
    BY <1>2, <2>2, ClaimRow DEF ImportInv
  <2> HIDE DEF w
  <2>4. QED
    BY <1>2, <2>1, <2>3, CommitRow
       DEF ImportInv, RowsKept, SuccessesKept, ServiceWritesAdmitted
<1>5. QED
    BY <1>3, <1>4

\* The executor settles its job.
LEMMA SettleStep ==
    ASSUME ImportInv, Settle
    PROVE  /\ RowsKept
           /\ \A k \in Jobs : jobs'[k].state = "succeeded" =>
                 \/ /\ jobs[k].state = "succeeded"
                    /\ jobs'[k].observations = jobs[k].observations
                 \/ /\ k = pass.job /\ pass.error = "none"
                    /\ Last(jobs'[k].observations).created = pass.created
<1> DEFINE j == pass.job
           r == jobs[j]
           state == IF pass.error = "none" THEN "succeeded" ELSE "failed"
           created == IF pass.error = "none" THEN pass.created ELSE FALSE
           w == Terminalized(r, generation, state, pass.error, created, Now(r))
<1>1. j \in Jobs /\ pass.error \in Errors /\ pass.created \in BOOLEAN
    BY DEF ImportInv, PassTyped, Settle
<1>2. created \in BOOLEAN
    BY <1>1
<1>3. state \in Terminal /\ r \in Rows /\ RowInv(r) /\ r.state = "claimed" /\ generation \in Nat
    BY <1>1 DEF ImportInv, Settle, Terminal
<1>4. Commit(j, "settle", w)
  <2>1. CASE pass.error = "none"
    BY <2>1 DEF Settle
  <2>2. CASE pass.error # "none"
    BY <2>2 DEF Settle
  <2>3. QED
    BY <2>1, <2>2
<1>5. state = "succeeded" => pass.error = "none" /\ created = pass.created
    BY <1>1
<1> HIDE DEF state, created
<1>6. Settlement(r, state, pass.error, created, Now(r), w)
    BY <1>1, <1>2, <1>3, SettleRow
<1>7. /\ w.ok /\ w.row \in Rows /\ RowInv(w.row) /\ w.row.state = state
      /\ Last(w.row.observations).created = created
  <2>1. /\ w.ok /\ w.row \in Rows /\ w.row.state = state
        /\ RowAgrees(w.row) /\ Clocked(w.row)
        /\ Last(w.row.observations).created = created
    BY <1>6 DEF Settlement
  <2>2. Lineaged(w.row)
    BY <1>3, <2>1 DEF Lineaged, Terminal
  <2>3. QED
    BY <2>1, <2>2 DEF RowInv
<1> HIDE DEF w, r
<1>8. jobs \in [Jobs -> Rows] /\ \A k \in Jobs : RowInv(jobs[k])
    BY DEF ImportInv
<1>9. /\ jobs' \in [Jobs -> Rows] /\ \A k \in Jobs : RowInv(jobs'[k])
      /\ \A k \in Jobs : k # j => jobs'[k] = jobs[k]
      /\ jobs'[j] = w.row /\ refused' = refused
  <2>1. w.ok /\ w.row \in Rows /\ RowInv(w.row)
    BY <1>7
  <2>2. j \in Jobs
    BY <1>1
  <2> HIDE DEF j
  <2>3. QED
    BY <1>4, <1>8, <2>1, <2>2, CommitRow
<1>10. RowsKept
    BY <1>9 DEF ImportInv, RowsKept, ServiceWritesAdmitted
<1>11. ASSUME NEW k \in Jobs, jobs'[k].state = "succeeded", k = j
       PROVE  pass.error = "none" /\ Last(jobs'[k].observations).created = pass.created
    BY <1>5, <1>7, <1>9, <1>11
<1>12. ASSUME NEW k \in Jobs, jobs'[k].state = "succeeded", k # j
       PROVE  jobs[k].state = "succeeded" /\ jobs'[k].observations = jobs[k].observations
    BY <1>9, <1>12
<1>13. QED
    BY <1>10, <1>11, <1>12

\* The next owner recovers what was stranded.
LEMMA RecoverStep ==
    ASSUME ImportInv, Recover
    PROVE  RowsKept /\ SuccessesKept
<1> DEFINE S == {k \in Jobs : Stranded(k)}
           w == [j \in S |-> Recovered(jobs[j], generation + 1, Now(jobs[j]))]
<1>1. generation + 1 \in Nat
    BY DEF ImportInv
<1>2. ASSUME NEW j \in S
      PROVE  w[j].ok /\ w[j].row \in Rows /\ RowInv(w[j].row)
             /\ w[j].row.state \in {"queued", "failed"}
  <2>1. jobs[j] \in Rows /\ RowInv(jobs[j]) /\ jobs[j].state = "claimed"
    BY DEF ImportInv, Stranded
  <2>2. QED
    BY <1>1, <2>1, RecoverRow
<1>3. /\ jobs' = [j \in Jobs |-> IF (\A k \in DOMAIN w : w[k].ok) /\ Stranded(j)
                                  THEN w[j].row ELSE jobs[j]]
      /\ (\A k \in DOMAIN w : w[k].ok) => refused' = refused
    BY DEF Recover
<1>4. DOMAIN w = S
    OBVIOUS
<1> HIDE DEF w
<1>5. jobs' = [j \in Jobs |-> IF j \in S THEN w[j].row ELSE jobs[j]] /\ refused' = refused
    BY <1>2, <1>3, <1>4
<1> HIDE DEF S
<1>6. QED
    BY <1>2, <1>5 DEF ImportInv, RowsKept, SuccessesKept, ServiceWritesAdmitted

\* Every step keeps the rows, and makes a success only by settling.
LEMMA RowsStep ==
    ASSUME ImportInv, [Next]_vars
    PROVE  RowsKept /\ (Settle \/ SuccessesKept)
<1>1. CASE UNCHANGED <<jobs, refused>>
    BY <1>1 DEF ImportInv, RowsKept, SuccessesKept, ServiceWritesAdmitted
<1>2. QED
    BY <1>1, StartStep, CancelStep, RetryStep, NextPendingStep, SettleStep, RecoverStep
       DEF Next, PassStep, Request, PublishEvidence, RequireFindable, ImportFails,
           NotFindable, PassEnds, Crash, Quiescent, vars

\* The pass keeps its word, and evidence stays.
EvidenceKept ==
    /\ \A s \in Sources : evidence[s] # None => evidence'[s] = evidence[s]
    /\ findable \subseteq findable'

PassKept ==
    /\ order' \in Seq(Jobs) /\ generation' \in Nat
    /\ evidence' \in [Sources -> Jobs \cup {None}]
    /\ findable' \subseteq {s \in Sources : evidence'[s] # None}
    /\ PassTyped' /\ PassReports'

\* Every step keeps what the pass knows, and no evidence is lost.
LEMMA PassKeptStep ==
    ASSUME ImportInv, [Next]_vars
    PROVE  PassKept /\ EvidenceKept
<1> DEFINE s == Source[pass.job]
<1>0. pass.at # "idle" => pass.job \in Jobs /\ s \in Sources
    BY DEF ImportInv, PassTyped, Sources
<1>1. Idle.at = "idle" /\ Idle \in [at : {"idle", "import", "barrier", "settle"},
                                   job : Jobs \cup {None}, error : Errors,
                                   created : BOOLEAN]
    BY DEF Idle, Errors
<1>2. pass' = Idle => PassTyped' /\ PassReports'
    BY <1>1 DEF PassTyped, PassReports
<1>3. CASE UNCHANGED <<evidence, findable>> /\ order' \in Seq(Jobs) /\ generation' \in Nat
           /\ pass' \in {pass, Idle}
  <2>1. pass' = pass => PassTyped' /\ PassReports'
    BY <1>3 DEF ImportInv, PassTyped, PassReports
  <2>2. QED
    BY <1>2, <1>3, <2>1 DEF ImportInv, PassKept, EvidenceKept
<1>4. CASE UNCHANGED <<evidence, findable, order, generation>> /\ pass' \in {pass, Idle}
    BY <1>3, <1>4 DEF ImportInv
<1>5. CASE NextPending
  <2>1. UNCHANGED <<evidence, findable, order, generation>>
    BY <1>5 DEF NextPending
  <2>2. CASE pass' = Idle
    BY <1>4, <2>1, <2>2
  <2>3. ASSUME NEW j \in Jobs, pass' = Working(j) PROVE PassTyped' /\ PassReports'
    <3>1. pass' = [at |-> "import", job |-> j, error |-> "none", created |-> FALSE]
      BY <2>3 DEF Working, Idle
    <3>2. PassTyped'
      BY <3>1 DEF PassTyped, Errors
    <3>3. PassReports'
      BY <3>1 DEF PassReports
    <3>4. QED
      BY <3>2, <3>3
  <2>4. QED
    BY <1>5, <2>1, <2>2, <2>3, NextPendingStep DEF ImportInv, PassKept, EvidenceKept
<1>6. CASE PublishEvidence
  <2>1. /\ pass.at = "import" /\ UNCHANGED <<order, findable, generation>>
        /\ evidence' = IF evidence[s] = None
                         THEN [evidence EXCEPT ![s] = pass.job] ELSE evidence
        /\ pass' = [pass EXCEPT !.at = "barrier", !.created = evidence'[s] = pass.job]
    BY <1>6 DEF PublishEvidence
  <2>2. pass.job \in Jobs /\ s \in Sources /\ pass.job # None /\ pass.error = "none"
    BY <1>0, <2>1, NoneAssumption DEF ImportInv, PassReports
  <2>3. /\ evidence' \in [Sources -> Jobs \cup {None}] /\ evidence'[s] # None
        /\ \A u \in Sources : evidence[u] # None => evidence'[u] = evidence[u]
    BY <2>1, <2>2 DEF ImportInv
  <2>4. findable' \subseteq {u \in Sources : evidence'[u] # None} /\ EvidenceKept
    BY <2>1, <2>3 DEF ImportInv, EvidenceKept
  <2>5. /\ pass'.at = "barrier" /\ pass'.job = pass.job /\ pass'.error = "none"
        /\ pass'.created = (evidence'[s] = pass.job)
    BY <2>1, <2>2, Zenon DEF ImportInv, PassTyped
  <2>6. PassReports'
    BY <2>3, <2>5 DEF PassReports
  <2>7. PassTyped'
    <3>1. (evidence'[s] = pass.job) \in BOOLEAN
      OBVIOUS
    <3>2. pass' \in [at : {"idle", "import", "barrier", "settle"}, job : Jobs \cup {None},
                     error : Errors, created : BOOLEAN]
      BY <2>1, <3>1 DEF ImportInv, PassTyped
    <3>3. QED
      BY <2>2, <2>5, <3>2 DEF PassTyped
  <2>8. QED
    BY <2>1, <2>3, <2>4, <2>6, <2>7 DEF ImportInv, PassKept
<1>7. CASE RequireFindable
  <2>1. /\ pass.at = "barrier" /\ UNCHANGED <<order, evidence, generation>>
        /\ findable' = {u \in Sources : evidence[u] # None}
        /\ pass' = [pass EXCEPT !.at = "settle"]
    BY <1>7 DEF RequireFindable
  <2>2. /\ pass'.at = "settle" /\ pass'.job = pass.job /\ pass'.error = pass.error
        /\ pass'.created = pass.created
    BY <2>1 DEF ImportInv, PassTyped
  <2>3. PassTyped'
    BY <1>0, <2>1, <2>2 DEF ImportInv, PassTyped
  <2>4. PassReports'
    BY <1>0, <2>1, <2>2 DEF ImportInv, PassReports
  <2>5. QED
    BY <2>1, <2>3, <2>4 DEF ImportInv, PassKept, EvidenceKept
<1>8. ASSUME pass.at # "idle", UNCHANGED <<order, evidence, findable, generation>>,
             NEW error \in {"retryable", "final"},
             pass' = [pass EXCEPT !.at = "settle", !.error = error]
      PROVE  PassKept /\ EvidenceKept
  <2>1. /\ pass'.at = "settle" /\ pass'.job = pass.job /\ pass'.error = error
    BY <1>8 DEF ImportInv, PassTyped
  <2>2. PassTyped'
    BY <1>0, <1>8, <2>1 DEF ImportInv, PassTyped, Errors
  <2>3. PassReports'
    BY <1>8, <2>1 DEF PassReports
  <2>4. QED
    BY <1>8, <2>2, <2>3 DEF ImportInv, PassKept, EvidenceKept
<1>9. CASE ImportFails
    BY <1>8, <1>9 DEF ImportFails
<1>10. CASE NotFindable
    BY <1>8, <1>10 DEF NotFindable
<1>11. ASSUME NEW j \in Jobs, ImportStart(j) PROVE PassKept /\ EvidenceKept
    BY <1>3, <1>11 DEF ImportStart, ImportInv
<1>12. CASE Recover
    BY <1>3, <1>12 DEF Recover, ImportInv
<1>13. CASE Settle \/ PassEnds \/ Crash \/ Quiescent \/ UNCHANGED vars
    BY <1>4, <1>13 DEF Settle, PassEnds, Crash, Quiescent, vars
<1>14. ASSUME NEW j \in Jobs, JobCancel(j) \/ JobRetry(j) PROVE PassKept /\ EvidenceKept
    BY <1>4, <1>14 DEF JobCancel, JobRetry
<1>15. QED
    BY <1>5, <1>6, <1>7, <1>9, <1>10, <1>11, <1>12, <1>13, <1>14 DEF Next, PassStep, Request

\* A reported success stays true, and a new one is.
LEMMA CreationStep ==
    ASSUME ImportInv, [Next]_vars
    PROVE  CreationReported'
<1> SUFFICES ASSUME NEW j \in Jobs, jobs'[j].state = "succeeded"
             PROVE  /\ evidence'[Source[j]] # None /\ Source[j] \in findable'
                    /\ Last(jobs'[j].observations).created <=> evidence'[Source[j]] = j
    BY DEF CreationReported
<1>1. EvidenceKept /\ Source[j] \in Sources
    BY PassKeptStep DEF Sources
<1>2. CASE jobs[j].state = "succeeded" /\ jobs'[j].observations = jobs[j].observations
  <2>1. /\ evidence[Source[j]] # None /\ Source[j] \in findable
        /\ Last(jobs[j].observations).created <=> evidence[Source[j]] = j
    BY <1>2 DEF ImportInv, CreationReported
  <2>2. evidence'[Source[j]] = evidence[Source[j]] /\ Source[j] \in findable'
    BY <1>1, <2>1 DEF EvidenceKept
  <2>3. QED
    BY <1>2, <2>1, <2>2
<1>3. CASE Settle /\ j = pass.job /\ pass.error = "none"
           /\ Last(jobs'[j].observations).created = pass.created
  <2>1. pass.at = "settle" /\ UNCHANGED <<evidence, findable>>
    BY <1>3 DEF Settle
  <2>2. /\ evidence[Source[j]] # None /\ Source[j] \in findable
        /\ pass.created <=> evidence[Source[j]] = j
    BY <1>3, <2>1 DEF ImportInv, PassReports
  <2>3. QED
    BY <1>3, <2>1, <2>2
<1>4. QED
    BY <1>2, <1>3, RowsStep, SettleStep DEF SuccessesKept

-----------------------------------------------------------------------------
(* The theorems *)

\* The whole invariant holds in every reachable state.
LEMMA ImportInductive == Spec => []ImportInv
<1>1. Init => ImportInv
  <2> SUFFICES ASSUME Init PROVE ImportInv
    OBVIOUS
  <2>1. NoJob \in Rows /\ NoJob.state = "none"
    BY DEF NoJob, Rows, JobStates
  <2>2. jobs \in [Jobs -> Rows] /\ \A j \in Jobs : jobs[j].state = "none"
    BY <2>1 DEF Init
  <2>3. PassTyped /\ PassReports
    BY DEF Init, Idle, PassTyped, PassReports, Errors
  <2>4. /\ \A j \in Jobs : RowInv(jobs[j])
        /\ CreationReported
    BY <2>2 DEF RowInv, CreationReported
  <2>5. /\ generation \in Nat /\ order \in Seq(Jobs)
        /\ evidence \in [Sources -> Jobs \cup {None}]
        /\ findable \subseteq {s \in Sources : evidence[s] # None}
        /\ ServiceWritesAdmitted
    BY DEF Init, ServiceWritesAdmitted
  <2>6. QED
    BY <2>2, <2>3, <2>4, <2>5 DEF ImportInv
<1>2. ImportInv /\ [Next]_vars => ImportInv'
    BY RowsStep, PassKeptStep, CreationStep DEF ImportInv, RowsKept, PassKept
<1>3. QED
    BY <1>1, <1>2, PTL DEF Spec

\* The scheduler row of every job agrees with its history after any crash, recovery,
\* retry or failed pass (_terminalize_application_job and the recovery at startup).
THEOREM HistoryTrue == Spec => []HistoryAgrees
<1>1. ImportInv => HistoryAgrees
    BY DEF ImportInv, RowInv, RowAgrees, HistoryAgrees
<1>2. QED
    BY <1>1, ImportInductive, PTL

\* No start, claim, settlement, cancellation or recovery is ever refused by a trigger
\* or an index (migrations 0010, 0015 and 0036).
THEOREM WritesAdmitted == Spec => []ServiceWritesAdmitted
<1>1. ImportInv => ServiceWritesAdmitted
    BY DEF ImportInv
<1>2. QED
    BY <1>1, ImportInductive, PTL

\* A success is findable, and says it created the artifact exactly when it did
\* (_publish_evidence, _require_findable).
THEOREM SuccessReported == Spec => []CreationReported
<1>1. ImportInv => CreationReported
    BY DEF ImportInv
<1>2. QED
    BY <1>1, ImportInductive, PTL
=============================================================================
