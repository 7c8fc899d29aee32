----------------------- MODULE DocumentCaptureProofs -----------------------
(* What an unresolved capture holds stays, for any captures, identities,   *)
(* selections, capacity, budget and number of failures.                    *)
EXTENDS DocumentCapture, TLAPS

-----------------------------------------------------------------------------
(* Type correctness *)

\* Every operation of the handlers, the worker and the cache keeps each
\* variable in its domain.
LEMMA TypeStep == TypeOK /\ [Next]_vars => TypeOK'
<1> SUFFICES ASSUME TypeOK, [Next]_vars PROVE TypeOK'
    OBVIOUS
<1> USE DEF TypeOK, Steps, Holders, Requests, cache, database, worker, counters,
            Fault, NextObligation
<1>1. CASE UNCHANGED vars
    BY <1>1 DEF vars
<1>2. ASSUME NEW c \in Captures, NEW s \in Selections, BeginCapture(c, s) PROVE TypeOK'
  <2>1. s \in SUBSET Resources
    BY SelectionsAssumption
  <2>2. pins' \in [Captures -> SUBSET Resources]
    BY <1>2, <2>1 DEF BeginCapture
  <2>3. \A t \in SUBSET Resources :
           [kind |-> "capture", capture |-> c, selection |-> t] \in Requests
    OBVIOUS
  <2>4. \E t \in SUBSET Resources :
           request' = {[kind |-> "capture", capture |-> c, selection |-> t]}
    BY <1>2, <2>1 DEF BeginCapture
  <2>5. request' \in SUBSET Requests
    BY <2>3, <2>4
  <2>6. QED
    BY <1>2, <2>2, <2>5 DEF BeginCapture
<1>3. ASSUME NEW c \in Captures, CommitCapture(c) PROVE TypeOK'
    BY <1>3 DEF CommitCapture
<1>4. ASSUME NEW c \in Captures, NEW s \in Selections, BeginReprocess(c, s) PROVE TypeOK'
    BY <1>4, SelectionsAssumption DEF BeginReprocess
<1>5. ASSUME NEW c \in Captures, NEW base \in 0..Len(revisions), NEW o \in Outcomes,
             CommitReprocess(c, base, o)
      PROVE  TypeOK'
    BY <1>5 DEF CommitReprocess, Publish, Disposition, Publishable, Revisions
<1>6. CASE RollbackRequest
    BY <1>6 DEF RollbackRequest
<1>7. CASE Sweep
    BY <1>7 DEF Sweep
<1>8. CASE ReadPage
    BY <1>8 DEF ReadPage, Pending
<1>9. ASSUME NEW c \in Captures, AssertPinned(c) PROVE TypeOK'
    BY <1>9 DEF AssertPinned
<1>10. ASSUME NEW c \in Captures, TakeLease(c) PROVE TypeOK'
    BY <1>10 DEF TakeLease
<1>11. ASSUME NEW c \in Captures, AdmitRevision(c) PROVE TypeOK'
  <2>1. [obligation |-> {c}, with |-> served, result |-> "none"] \in Revisions
    BY DEF Revisions
  <2>2. \/ revisions' = revisions
        \/ revisions' = Append(revisions,
                               [obligation |-> {c}, with |-> served, result |-> "none"])
    BY <1>11, Zenon DEF AdmitRevision
  <2>3. \A r \in Revisions : Append(revisions, r) \in Seq(Revisions)
    OBVIOUS
  <2>4. revisions' \in Seq(Revisions)
    BY <2>1, <2>2, <2>3, Zenon
  <2>5. at' \in {"derive", "extract"}
    BY <1>11, Zenon DEF AdmitRevision
  <2>6. QED
    BY <1>11, <2>4, <2>5 DEF AdmitRevision
<1>12. ASSUME NEW c \in Captures, NEW o \in Outcomes, Complete(c, o) PROVE TypeOK'
  <2>1. PICK i \in DOMAIN revisions :
              /\ revisions' = [revisions EXCEPT ![i].result = Disposition(i, TRUE, o)]
              /\ Publish(i, Disposition(i, TRUE, o))
    BY <1>12 DEF Complete
  <2>2. /\ Disposition(i, TRUE, o) \in {"none", "succeeded", "partial", "withheld"}
        /\ i \in Nat /\ revisions[i] \in Revisions
    BY DEF Disposition, Publishable
  <2>3. [revisions[i] EXCEPT !.result = Disposition(i, TRUE, o)] \in Revisions
    BY <2>2 DEF Revisions
  <2>4. revisions' \in Seq(Revisions)
    BY <2>1, <2>3
  <2>5. head' \in Nat
    BY <2>1, <2>2 DEF Publish
  <2>6. QED
    BY <1>12, <2>4, <2>5 DEF Complete
<1>13. ASSUME NEW c \in Captures, Derive(c) PROVE TypeOK'
    BY <1>13 DEF Derive
<1>14. ASSUME NEW c \in Captures, Settle(c) PROVE TypeOK'
    BY <1>14 DEF Settle
<1>15. ASSUME NEW c \in Captures, NEW dropped \in BOOLEAN, Release(c, dropped) PROVE TypeOK'
    BY <1>15 DEF Release
<1>16. CASE AbortPass
    BY <1>16 DEF AbortPass
<1>17. ASSUME NEW c \in Captures, SkipObligation(c) PROVE TypeOK'
    BY <1>17 DEF SkipObligation
<1>18. CASE Crash
  <2>1. up' \in BOOLEAN
    BY <1>18, Zenon DEF Crash
  <2>2. QED
    BY <1>18, <2>1 DEF Crash
<1>19. CASE Start
    BY <1>19 DEF Start
<1>20. ASSUME NEW e \in Resources, Install(e) PROVE TypeOK'
    BY <1>20 DEF Install
<1>21. ASSUME NEW e \in Resources, Remove(e) PROVE TypeOK'
    BY <1>21 DEF Remove
<1>22. CASE Reconcile
    BY <1>22 DEF Reconcile
<1>23. ASSUME NEW e \in Resources, LoseBytes(e) PROVE TypeOK'
    BY <1>23 DEF LoseBytes
<1>. QED
    BY <1>1, <1>2, <1>3, <1>4, <1>5, <1>6, <1>7, <1>8, <1>9, <1>10, <1>11, <1>12,
       <1>13, <1>14, <1>15, <1>16, <1>17, <1>18, <1>19, <1>20, <1>21, <1>22, <1>23
       DEF Next, Ask, FinishRequest, Work, Fail, Administer

\* An empty cache and an empty outbox are well typed.
LEMMA InitType == Init => TypeOK
<1>1. Init => up \in BOOLEAN /\ swept \in BOOLEAN
    BY Zenon DEF Init
<1>2. QED
    BY <1>1 DEF Init, TypeOK, Steps, Requests, Revisions, Holders

\* The type invariant of the captures and the cache holds of every behaviour.
THEOREM CaptureTypeCorrect == Spec => []TypeOK
    BY InitType, TypeStep, PTL DEF Spec

-----------------------------------------------------------------------------
(* The inductive invariant *)

\* Outbox sequences are given in order, each to one capture.
SequencesOrdered ==
    /\ \A c \in Captures : seq[c] <= last
    /\ \A c, d \in Captures : Admitted(c) /\ seq[c] = seq[d] => c = d

\* The worker works on admitted captures only.
PageAdmitted == \A c \in page : Admitted(c)

\* A request that will freeze a selection has pinned exactly that selection,
\* for a capture that is not admitted yet.
DraftPinned ==
    \A r \in request : r.kind = "capture" =>
        /\ ~Admitted(r.capture)
        /\ r.selection # {} => pins[r.capture] = r.selection

\* The pin about to be released is of a settled capture.
ReleaseIsSettled == at = "release" => \E c \in settled : Working(c)

\* HeldResourcesStay needs the others at a commit, where the pin must be the
\* draft's, and at a release, where the capture must be settled.
HeldInv ==
    /\ TypeOK
    /\ HeldResourcesStay
    /\ SequencesOrdered
    /\ PageAdmitted
    /\ DraftPinned
    /\ ReleaseIsSettled

\* Only a committed capture is given a sequence (insert_capture_outbox).
LEMMA SequenceFrame ==
    [Next]_vars => (seq' = seq /\ last' = last) \/ \E c \in Captures : CommitCapture(c)
    BY DEF Next, Ask, FinishRequest, Work, Fail, Administer, BeginCapture, BeginReprocess,
           CommitReprocess, Sweep, ReadPage, AssertPinned, TakeLease, AdmitRevision,
           Complete, Derive, Settle, Release, RollbackRequest, AbortPass, SkipObligation,
           LoseBytes, Crash, Start, Install, Remove, Reconcile, vars, database

\* last_capture_sequence + 1 is new.
LEMMA SequencesStep == TypeOK /\ SequencesOrdered /\ [Next]_vars => SequencesOrdered'
<1> SUFFICES ASSUME TypeOK, SequencesOrdered, [Next]_vars PROVE SequencesOrdered'
    OBVIOUS
<1>1. CASE seq' = seq /\ last' = last
    BY <1>1 DEF SequencesOrdered, Admitted
<1>2. ASSUME NEW c \in Captures, CommitCapture(c) PROVE SequencesOrdered'
    BY <1>2 DEF CommitCapture, SequencesOrdered, Admitted, TypeOK
<1>3. QED
    BY <1>1, <1>2, SequenceFrame

\* An admitted capture stays admitted.
LEMMA AdmittedStays ==
    ASSUME TypeOK, [Next]_vars, NEW c \in Captures, Admitted(c)
    PROVE  Admitted(c)'
    BY SequenceFrame DEF CommitCapture, Admitted, TypeOK

\* A page is read from the pending rows and only shrinks.
LEMMA PageStep == TypeOK /\ PageAdmitted /\ [Next]_vars => PageAdmitted'
<1> SUFFICES ASSUME TypeOK, PageAdmitted, [Next]_vars, NEW c \in page' PROVE Admitted(c)'
    BY DEF PageAdmitted
<1>1. page' \subseteq page \/ page' \subseteq Pending
    BY DEF Next, Ask, FinishRequest, Work, Fail, Administer, BeginCapture, BeginReprocess,
           CommitReprocess, Sweep, ReadPage, AssertPinned, TakeLease, AdmitRevision,
           Complete, Derive, Settle, Release, RollbackRequest, AbortPass, SkipObligation,
           LoseBytes, Crash, Start, Install, Remove, Reconcile, CommitCapture,
           NextObligation, vars, database, worker
<1>2. c \in Captures /\ Admitted(c)
    BY <1>1 DEF PageAdmitted, Pending, TypeOK
<1>3. QED
    BY <1>2, AdmittedStays

\* What becomes of the request under way: it ends, it begins, or it goes on
\* while the worker may release one of its own pins (the gate keeps out the
\* sweep).
LEMMA RequestFrame ==
    [Next]_vars =>
        \/ request' = {}
        \/ \E c \in Captures, s \in Selections : BeginCapture(c, s) \/ BeginReprocess(c, s)
        \/ /\ request' = request /\ seq' = seq
           /\ pins' = pins \/ \E c \in page : pins' = [pins EXCEPT ![c] = {}]
    BY DEF Next, Ask, FinishRequest, Work, Fail, Administer, BeginCapture, BeginReprocess,
           CommitReprocess, Sweep, ReadPage, AssertPinned, TakeLease, AdmitRevision,
           Complete, Derive, Settle, Release, RollbackRequest, AbortPass, SkipObligation,
           LoseBytes, Crash, Start, Install, Remove, Reconcile, CommitCapture,
           NextObligation, vars, database, worker, cache, GateFree, Working

\* admitted_resources pins what the request will freeze; a release is of an
\* admitted capture and cannot touch it.
LEMMA DraftStep == TypeOK /\ PageAdmitted /\ DraftPinned /\ [Next]_vars => DraftPinned'
<1> SUFFICES ASSUME TypeOK, PageAdmitted, DraftPinned, [Next]_vars PROVE DraftPinned'
    OBVIOUS
<1>1. CASE request' = {}
    BY <1>1 DEF DraftPinned
<1>2. ASSUME NEW c \in Captures, NEW s \in Selections, BeginCapture(c, s) PROVE DraftPinned'
    BY <1>2 DEF BeginCapture, DraftPinned, TypeOK, Admitted, database
<1>3. ASSUME NEW c \in Captures, NEW s \in Selections, BeginReprocess(c, s) PROVE DraftPinned'
    BY <1>3 DEF BeginReprocess, DraftPinned
<1>4. CASE request' = request /\ seq' = seq /\ pins' = pins
    BY <1>4 DEF DraftPinned, Admitted
<1>5. ASSUME request' = request, seq' = seq, NEW c \in page,
             pins' = [pins EXCEPT ![c] = {}]
      PROVE  DraftPinned'
  <2> SUFFICES ASSUME NEW r \in request, r.kind = "capture"
               PROVE  /\ ~Admitted(r.capture)'
                      /\ r.selection # {} => pins'[r.capture] = r.selection
    BY <1>5 DEF DraftPinned
  <2>1. ~Admitted(r.capture) /\ r.capture # c
    BY DEF DraftPinned, PageAdmitted
  <2>2. QED
    BY <1>5, <2>1 DEF DraftPinned, Admitted, TypeOK, Requests
<1>6. QED
    BY <1>1, <1>2, <1>3, <1>4, <1>5, RequestFrame

\* What becomes of the worker's last step: it is reached by settling, and left
\* or kept with the page as it was.
LEMMA ReleaseFrame ==
    [Next]_vars =>
        \/ at' # "release"
        \/ \E c \in Captures : Settle(c)
        \/ at' = at /\ page' = page /\ settled' = settled
    BY DEF Next, Ask, FinishRequest, Work, Fail, Administer, BeginCapture, BeginReprocess,
           CommitReprocess, Sweep, ReadPage, AssertPinned, TakeLease, AdmitRevision,
           Complete, Derive, Settle, Release, RollbackRequest, AbortPass, SkipObligation,
           LoseBytes, Crash, Start, Install, Remove, Reconcile, CommitCapture,
           NextObligation, vars, database, worker, cache

\* The sequences of a page do not change: only an unadmitted capture gets one.
LEMMA PageSequences ==
    ASSUME TypeOK, PageAdmitted, DraftPinned, [Next]_vars, NEW c \in page
    PROVE  seq'[c] = seq[c]
<1>1. CASE seq' = seq
    BY <1>1
<1>2. ASSUME NEW d \in Captures, CommitCapture(d) PROVE seq'[c] = seq[c]
  <2>1. ~Admitted(d)
    BY <1>2 DEF CommitCapture, DraftPinned
  <2>2. QED
    BY <1>2, <2>1 DEF CommitCapture, PageAdmitted, TypeOK
<1>3. QED
    BY <1>1, <1>2, SequenceFrame

\* _release runs after _settle, on the same capture.
LEMMA ReleaseStep ==
    TypeOK /\ PageAdmitted /\ DraftPinned /\ ReleaseIsSettled /\ [Next]_vars
        => ReleaseIsSettled'
<1> SUFFICES ASSUME TypeOK, PageAdmitted, DraftPinned, ReleaseIsSettled, [Next]_vars,
                    at' = "release"
             PROVE  \E c \in settled' : Working(c)'
    BY DEF ReleaseIsSettled
<1>1. ASSUME NEW c \in Captures, Settle(c) PROVE \E d \in settled' : Working(d)'
    BY <1>1 DEF Settle, Working
<1>2. CASE at' = at /\ page' = page /\ settled' = settled
  <2>1. PICK c \in settled : Working(c)
    BY <1>2 DEF ReleaseIsSettled
  <2>2. Working(c)'
    BY <1>2, <2>1, PageSequences DEF Working
  <2>3. QED
    BY <1>2, <2>1, <2>2
<1>3. QED
    BY <1>1, <1>2, ReleaseFrame

\* Who writes a pin or a fact its standing depends on.
LEMMA PinFrame ==
    [Next]_vars =>
        \/ pins' = pins /\ seq' = seq /\ frozen' = frozen /\ settled \subseteq settled'
        \/ \E c \in Captures, s \in Selections : BeginCapture(c, s)
        \/ \E c \in Captures : CommitCapture(c)
        \/ Sweep
        \/ \E c \in Captures, dropped \in BOOLEAN : Release(c, dropped)
    BY DEF Next, Ask, FinishRequest, Work, Fail, Administer, BeginCapture, BeginReprocess,
           CommitReprocess, Sweep, ReadPage, AssertPinned, TakeLease, AdmitRevision,
           Complete, Derive, Settle, Release, RollbackRequest, AbortPass, SkipObligation,
           LoseBytes, Crash, Start, Install, Remove, Reconcile, CommitCapture,
           NextObligation, vars, database, worker, cache

\* The exact pin of an unresolved capture stands (pin, release, reclaim).
LEMMA PinsStandStep ==
    HeldInv /\ [Next]_vars => (\A c \in Pending : frozen[c] # {} => pins[c] = frozen[c])'
<1> SUFFICES ASSUME HeldInv, [Next]_vars, NEW c \in Captures, (c \in Pending)',
                    frozen'[c] # {}
             PROVE  pins'[c] = frozen'[c]
    BY DEF Pending
<1> USE DEF HeldInv
<1>1. CASE pins' = pins /\ seq' = seq /\ frozen' = frozen /\ settled \subseteq settled'
    BY <1>1 DEF HeldResourcesStay, Pending, Admitted
<1>2. ASSUME NEW d \in Captures, NEW s \in Selections, BeginCapture(d, s)
      PROVE  pins'[c] = frozen'[c]
    BY <1>2 DEF BeginCapture, HeldResourcesStay, Pending, Admitted, database, TypeOK
<1>3. ASSUME NEW d \in Captures, CommitCapture(d) PROVE pins'[c] = frozen'[c]
  <2>1. CASE c = d
    BY <1>3, <2>1 DEF CommitCapture, DraftPinned, cache, TypeOK
  <2>2. CASE c # d
    BY <1>3, <2>2 DEF CommitCapture, HeldResourcesStay, Pending, Admitted, cache, TypeOK
  <2>3. QED
    BY <2>1, <2>2
<1>4. CASE Sweep
    BY <1>4 DEF Sweep, HeldResourcesStay, Pending, Admitted, database, TypeOK
<1>5. ASSUME NEW d \in Captures, NEW dropped \in BOOLEAN, Release(d, dropped)
      PROVE  pins'[c] = frozen'[c]
  <2>1. PICK b \in settled : Working(b)
    BY <1>5 DEF Release, ReleaseIsSettled
  <2>2. b = d
    BY <1>5, <2>1 DEF Release, Working, PageAdmitted, SequencesOrdered, TypeOK
  <2>3. c # d
    BY <1>5, <2>1, <2>2 DEF Release, Pending, database
  <2>4. QED
    BY <1>5, <2>3 DEF Release, HeldResourcesStay, Pending, Admitted, database, TypeOK
<1>6. QED
    BY <1>1, <1>2, <1>3, <1>4, <1>5, PinFrame

\* Who adds to a pin or takes from the entries.
LEMMA EntryFrame ==
    [Next]_vars =>
        \/ /\ entries' = entries
           /\ \/ pins' = pins
              \/ \E c \in Captures, s \in Selections : BeginCapture(c, s)
              \/ Sweep
              \/ \E c \in Captures, dropped \in BOOLEAN : Release(c, dropped)
        \/ /\ pins' = pins
           /\ \/ \E e \in Resources : Install(e) \/ Remove(e)
              \/ Reconcile
    BY DEF Next, Ask, FinishRequest, Work, Fail, Administer, BeginCapture, BeginReprocess,
           CommitReprocess, Sweep, ReadPage, AssertPinned, TakeLease, AdmitRevision,
           Complete, Derive, Settle, Release, RollbackRequest, AbortPass, SkipObligation,
           LoseBytes, Crash, Start, Install, Remove, Reconcile, CommitCapture,
           NextObligation, vars, database, worker, cache

\* No pinned identity leaves the state document (_reclaimable, _remove, _reconcile).
LEMMA PinnedStep == HeldInv /\ [Next]_vars => (Pinned \subseteq entries)'
<1> SUFFICES ASSUME HeldInv, [Next]_vars, NEW c \in Captures, NEW e \in pins'[c]
             PROVE  e \in entries'
    BY DEF Pinned
<1>0. \A d \in Captures : pins[d] \subseteq entries /\ pins[d] \subseteq Pinned
    BY DEF HeldInv, HeldResourcesStay, Pinned
<1> USE DEF HeldInv, TypeOK
<1>1. CASE entries' = entries /\ pins' = pins
    BY <1>0, <1>1
<1>2. ASSUME entries' = entries, NEW d \in Captures, NEW s \in Selections, BeginCapture(d, s)
      PROVE  e \in entries'
    BY <1>0, <1>2 DEF BeginCapture, Present
<1>3. CASE entries' = entries /\ Sweep
    BY <1>0, <1>3 DEF Sweep
<1>4. ASSUME entries' = entries, NEW d \in Captures, NEW dropped \in BOOLEAN,
             Release(d, dropped)
      PROVE  e \in entries'
    BY <1>0, <1>4 DEF Release
<1>5. ASSUME pins' = pins, NEW x \in Resources, Install(x) PROVE e \in entries'
    BY <1>0, <1>5 DEF Install, Reclaimable
<1>6. ASSUME pins' = pins, NEW x \in Resources, Remove(x) PROVE e \in entries'
    BY <1>0, <1>6 DEF Remove
<1>7. CASE pins' = pins /\ Reconcile
    BY <1>0, <1>7 DEF Reconcile
<1>8. QED
    BY <1>1, <1>2, <1>3, <1>4, <1>5, <1>6, <1>7, EntryFrame

\* Who adds to a lease or takes from the entries that have their bytes.
LEMMA LeaseFrame ==
    TypeOK /\ [Next]_vars =>
        \/ /\ entries' = entries /\ damaged' = damaged
           /\ \/ \A h \in Holders : leases'[h] \subseteq leases[h]
              \/ \E c \in Captures, s \in Selections : BeginReprocess(c, s)
              \/ \E c \in Captures : TakeLease(c)
        \/ /\ leases' = leases
           /\ \/ \E e \in Resources : Install(e) \/ Remove(e)
              \/ Reconcile
        \/ \E e \in Resources : LoseBytes(e)
    BY DEF Next, Ask, FinishRequest, Work, Fail, Administer, BeginCapture, BeginReprocess,
           CommitReprocess, Sweep, ReadPage, AssertPinned, TakeLease, AdmitRevision,
           Complete, Derive, Settle, Release, RollbackRequest, AbortPass, SkipObligation,
           LoseBytes, Crash, Start, Install, Remove, Reconcile, CommitCapture,
           NextObligation, vars, database, worker, cache, TypeOK

\* No leased identity leaves the state document while its bytes are in place.
LEMMA LeasedStep == HeldInv /\ [Next]_vars => (Leased \subseteq Present)'
<1> SUFFICES ASSUME HeldInv, [Next]_vars, NEW h \in Holders, NEW e \in leases'[h]
             PROVE  e \in entries' /\ e \notin damaged'
    BY DEF Leased, Present
<1>0. \A g \in Holders : leases[g] \subseteq entries \ damaged /\ leases[g] \subseteq Leased
    BY DEF HeldInv, HeldResourcesStay, Leased, Present
<1> USE DEF HeldInv, TypeOK
<1>1. CASE /\ entries' = entries /\ damaged' = damaged
           /\ \A g \in Holders : leases'[g] \subseteq leases[g]
    BY <1>0, <1>1
<1>2. ASSUME entries' = entries, damaged' = damaged, NEW c \in Captures,
             NEW s \in Selections, BeginReprocess(c, s)
      PROVE  e \in entries' /\ e \notin damaged'
    BY <1>0, <1>2 DEF BeginReprocess, Present
<1>3. ASSUME entries' = entries, damaged' = damaged, NEW c \in Captures, TakeLease(c)
      PROVE  e \in entries' /\ e \notin damaged'
    BY <1>0, <1>3 DEF TakeLease, Present
<1>4. ASSUME leases' = leases, NEW x \in Resources, Install(x)
      PROVE  e \in entries' /\ e \notin damaged'
    BY <1>0, <1>4 DEF Install, Reclaimable
<1>5. ASSUME leases' = leases, NEW x \in Resources, Remove(x)
      PROVE  e \in entries' /\ e \notin damaged'
    BY <1>0, <1>5 DEF Remove
<1>6. CASE leases' = leases /\ Reconcile
    BY <1>0, <1>6 DEF Reconcile
<1>7. ASSUME NEW x \in Resources, LoseBytes(x) PROVE e \in entries' /\ e \notin damaged'
    BY <1>0, <1>7 DEF LoseBytes
<1>8. QED
    BY <1>1, <1>2, <1>3, <1>4, <1>5, <1>6, <1>7, LeaseFrame

\* A payload is missing only because it was lost.
LEMMA DamageStep == HeldInv /\ [Next]_vars => (damaged \subseteq lost)'
<1>1. HeldInv => damaged \subseteq lost
    BY DEF HeldInv, HeldResourcesStay
<1>2. [Next]_vars => \/ damaged' \subseteq damaged /\ lost' = lost
                     \/ \E e \in Resources : LoseBytes(e)
    BY DEF Next, Ask, FinishRequest, Work, Fail, Administer, BeginCapture, BeginReprocess,
           CommitReprocess, Sweep, ReadPage, AssertPinned, TakeLease, AdmitRevision,
           Complete, Derive, Settle, Release, RollbackRequest, AbortPass, SkipObligation,
           LoseBytes, Crash, Start, Install, Remove, Reconcile, CommitCapture,
           NextObligation, vars, database, worker, cache
<1>3. ASSUME NEW e \in Resources, LoseBytes(e), damaged \subseteq lost
      PROVE  damaged' \subseteq lost'
    BY <1>3 DEF LoseBytes
<1>4. QED
    BY <1>1, <1>2, <1>3

\* The parts together are inductive.
LEMMA HeldStep == HeldInv /\ [Next]_vars => HeldInv'
<1> SUFFICES ASSUME HeldInv, [Next]_vars PROVE HeldInv'
    OBVIOUS
<1>1. HeldResourcesStay'
    BY PinsStandStep, PinnedStep, LeasedStep, DamageStep DEF HeldResourcesStay
<1>2. QED
    BY <1>1, TypeStep, SequencesStep, PageStep, DraftStep, ReleaseStep DEF HeldInv

\* Nothing is held and nothing is admitted at first.
LEMMA InitHeld == Init => HeldInv
<1> SUFFICES ASSUME Init PROVE HeldInv
    OBVIOUS
<1>1. HeldResourcesStay
    BY DEF Init, HeldResourcesStay, Pending, Admitted, Pinned, Leased, Present
<1>2. SequencesOrdered /\ PageAdmitted /\ DraftPinned /\ ReleaseIsSettled
    BY DEF Init, SequencesOrdered, PageAdmitted, DraftPinned, ReleaseIsSettled, Admitted
<1>3. QED
    BY <1>1, <1>2, InitType DEF HeldInv

\* What an unresolved capture froze, and what an extraction leases, is never
\* evicted, removed or swept, for every number of captures, identities, failures
\* and administrators.
THEOREM ResourcesHeld == Spec => []HeldResourcesStay
<1>1. HeldInv => HeldResourcesStay
    BY DEF HeldInv
<1>2. QED
    BY InitHeld, HeldStep, <1>1, PTL DEF Spec

-----------------------------------------------------------------------------
(* A settled capture owes nothing, for any captures, identities, budget and *)
(* number of failures: the argument of _admitted_revision and               *)
(* _derive_knowledge that a pass interrupted anywhere is replayed under the *)
(* same key.  First the inductive invariant.                                *)

Own(i, c) == i \in DOMAIN revisions /\ revisions[i].obligation = {c}

\* An operation key names one revision.
KeysUnique ==
    \A c \in Captures : \A i, j \in DOMAIN revisions :
        Own(i, c) /\ Own(j, c) /\ revisions[i].with = revisions[j].with => i = j

\* A revision of an obligation is of an admitted capture, with the resources
\* it froze unless some of them were lost.
RowsServed ==
    \A c \in Captures : \A i \in DOMAIN revisions : Own(i, c) =>
        /\ Admitted(c)
        /\ frozen[c] \cap lost = {} => revisions[i].with = frozen[c]

\* What the worker executes a capture with is what the capture froze, unless
\* some of it was lost.
WorkerServed ==
    /\ at \in {"idle", "assert", "lease"} => served = {}
    /\ at \in {"admit", "extract", "derive", "settle"} =>
          \A c \in page : Working(c) /\ frozen[c] \cap lost = {} => served = frozen[c]

\* Only the row about to be released is settled in the worker's page.
PagePending == \A c \in page : c \in settled => at = "release" /\ Working(c)

\* The revision under the worker's key at each step.
StageRow ==
    \A c \in page : Working(c) =>
        /\ at = "extract" =>
              \E i \in DOMAIN revisions : Keyed(i, c) /\ revisions[i].result = "none"
        /\ at \in {"derive", "settle"} =>
              \E i \in DOMAIN revisions : Keyed(i, c) /\ revisions[i].result # "none"
        /\ at = "settle" => \A i \in DOMAIN revisions :
              Keyed(i, c) /\ revisions[i].result = "succeeded" => i \in derived \/ head > i

\* No promoted revision is newer than the head.
HeadNewest ==
    /\ head = 0 \/ head \in DOMAIN revisions
    /\ \A i \in DOMAIN revisions : revisions[i].result \in Publishable => i <= head

\* What a settled capture has to show.
SettledRow ==
    \A c \in settled :
        /\ \E i \in DOMAIN revisions : Own(i, c) /\ revisions[i].result # "none"
        /\ frozen[c] \cap lost = {} => \A i \in DOMAIN revisions :
              Own(i, c) /\ revisions[i].result = "succeeded" => i \in derived \/ head > i

SettleInv ==
    /\ HeldInv
    /\ KeysUnique
    /\ RowsServed
    /\ WorkerServed
    /\ PagePending
    /\ StageRow
    /\ HeadNewest
    /\ SettledRow

-----------------------------------------------------------------------------
(* What the steps do to the revisions *)

\* Who writes the revisions or the head.
LEMMA RevisionFrame ==
    [Next]_vars =>
        \/ revisions' = revisions /\ head' = head
        \/ \E c \in Captures, base \in 0..Len(revisions), o \in Outcomes :
              CommitReprocess(c, base, o)
        \/ \E c \in Captures : AdmitRevision(c)
        \/ \E c \in Captures, o \in Outcomes : Complete(c, o)
    BY DEF Next, Ask, FinishRequest, Work, Fail, Administer, BeginCapture, BeginReprocess,
           CommitReprocess, Sweep, ReadPage, AssertPinned, TakeLease, AdmitRevision,
           Complete, Derive, Settle, Release, RollbackRequest, AbortPass, SkipObligation,
           LoseBytes, Crash, Start, Install, Remove, Reconcile, CommitCapture,
           NextObligation, vars, database, worker, cache

\* The working capture is one.
LEMMA WorkingUnique ==
    ASSUME HeldInv, NEW c \in page, NEW d \in page, Working(c), Working(d)
    PROVE  c = d
    BY DEF HeldInv, Working, PageAdmitted, SequencesOrdered, TypeOK

\* complete_reprocess_in_transaction appends a row no obligation owns.
LEMMA ReprocessRow ==
    ASSUME TypeOK, NEW c \in Captures, NEW base \in 0..Len(revisions), NEW o \in Outcomes,
           CommitReprocess(c, base, o)
    PROVE  LET n == Len(revisions) + 1 IN
           /\ DOMAIN revisions' = DOMAIN revisions \cup {n}
           /\ \A i \in DOMAIN revisions : revisions'[i] = revisions[i]
           /\ revisions'[n].obligation = {}
           /\ revisions'[n].result \in Publishable => head' = n
           /\ head' = head \/ head' = n
<1> DEFINE n == Len(revisions) + 1
           d == Disposition(n, base = head, o)
<1>1. /\ revisions' = Append(revisions, [obligation |-> {}, with |-> {}, result |-> d])
      /\ Publish(n, d)
    BY DEF CommitReprocess
<1>2. d \in {"succeeded", "partial", "withheld"}
    BY DEF Disposition, Publishable
<1>3. QED
    BY <1>1, <1>2 DEF Publish, Publishable, TypeOK

\* admit_extraction appends an open row under the worker's key, if none stands.
LEMMA AdmitRow ==
    ASSUME TypeOK, NEW c \in Captures, AdmitRevision(c)
    PROVE  LET n == Len(revisions) + 1 IN
           /\ head' = head
           /\ \/ /\ revisions' = revisions
                 /\ \E i \in DOMAIN revisions : Keyed(i, c)
              \/ /\ \A i \in DOMAIN revisions : ~Keyed(i, c)
                 /\ at' = "extract"
                 /\ DOMAIN revisions' = DOMAIN revisions \cup {n}
                 /\ \A i \in DOMAIN revisions : revisions'[i] = revisions[i]
                 /\ revisions'[n].obligation = {c}
                 /\ revisions'[n].with = served
                 /\ revisions'[n].result = "none"
<1>1. CASE \E i \in DOMAIN revisions : Keyed(i, c)
    BY <1>1 DEF AdmitRevision
<1>2. CASE ~ \E i \in DOMAIN revisions : Keyed(i, c)
  <2>1. revisions' = Append(revisions,
                            [obligation |-> {c}, with |-> served, result |-> "none"])
    BY <1>2, Zenon DEF AdmitRevision
  <2>2. head' = head /\ at' = "extract"
    BY <1>2, Zenon DEF AdmitRevision
  <2>3. QED
    BY <1>2, <2>1, <2>2 DEF TypeOK
<1>3. QED
    BY <1>1, <1>2

\* complete_extraction gives the open row under the worker's key its result.
LEMMA CompleteRow ==
    ASSUME TypeOK, KeysUnique, StageRow, NEW c \in Captures, NEW o \in Outcomes,
           Complete(c, o)
    PROVE  \E i \in DOMAIN revisions :
              /\ Keyed(i, c)
              /\ revisions[i].result = "none"
              /\ revisions'[i].result # "none"
              /\ revisions'[i].obligation = revisions[i].obligation
              /\ revisions'[i].with = revisions[i].with
              /\ DOMAIN revisions' = DOMAIN revisions
              /\ \A j \in DOMAIN revisions : j # i => revisions'[j] = revisions[j]
              /\ \/ head' = head /\ revisions'[i].result \notin Publishable
                 \/ head' = i /\ head <= i
<1>1. PICK i \in DOMAIN revisions :
            /\ Keyed(i, c)
            /\ revisions' = [revisions EXCEPT ![i].result = Disposition(i, TRUE, o)]
            /\ Publish(i, Disposition(i, TRUE, o))
    BY DEF Complete
<1>2. PICK j \in DOMAIN revisions : Keyed(j, c) /\ revisions[j].result = "none"
    BY DEF Complete, StageRow, Working
<1>3. i = j
    BY <1>1, <1>2 DEF Keyed, KeysUnique, Own
<1>4. /\ Disposition(i, TRUE, o) \in {"succeeded", "partial", "withheld"}
      /\ Disposition(i, TRUE, o) # "withheld" => head <= i
    BY DEF Disposition, Publishable
<1>5. revisions[i] \in Revisions
    BY DEF TypeOK
<1>6. /\ DOMAIN revisions' = DOMAIN revisions
      /\ \A k \in DOMAIN revisions : k # i => revisions'[k] = revisions[k]
      /\ revisions'[i] = [revisions[i] EXCEPT !.result = Disposition(i, TRUE, o)]
    BY <1>1 DEF TypeOK
<1>7. /\ revisions'[i].result = Disposition(i, TRUE, o)
      /\ revisions'[i].obligation = revisions[i].obligation
      /\ revisions'[i].with = revisions[i].with
    BY <1>5, <1>6 DEF Revisions
<1>8. \/ head' = head /\ Disposition(i, TRUE, o) \notin Publishable
      \/ head' = i /\ head <= i
    BY <1>1, <1>4 DEF Publish, Publishable
<1>9. QED
    BY <1>1, <1>2, <1>3, <1>4, <1>6, <1>7, <1>8

\* A row keeps its key, and its result once it has one; the head only grows.
LEMMA RowsKept ==
    ASSUME TypeOK, KeysUnique, StageRow, HeadNewest, [Next]_vars
    PROVE  /\ \A i \in DOMAIN revisions :
                 /\ i \in DOMAIN revisions'
                 /\ revisions'[i].obligation = revisions[i].obligation
                 /\ revisions'[i].with = revisions[i].with
                 /\ revisions[i].result # "none" => revisions'[i].result = revisions[i].result
           /\ head <= head'
           /\ head' \in Nat
<1>0. head \in Nat /\ Len(revisions) \in Nat /\ DOMAIN revisions = 1..Len(revisions)
    BY DEF TypeOK
<1>1. CASE revisions' = revisions /\ head' = head
    BY <1>0, <1>1
<1>2. ASSUME NEW c \in Captures, NEW base \in 0..Len(revisions), NEW o \in Outcomes,
             CommitReprocess(c, base, o)
      PROVE  /\ \A i \in DOMAIN revisions :
                   i \in DOMAIN revisions' /\ revisions'[i] = revisions[i]
             /\ head <= head' /\ head' \in Nat
    BY <1>0, <1>2, ReprocessRow DEF HeadNewest
<1>3. ASSUME NEW c \in Captures, AdmitRevision(c)
      PROVE  /\ \A i \in DOMAIN revisions :
                   i \in DOMAIN revisions' /\ revisions'[i] = revisions[i]
             /\ head <= head' /\ head' \in Nat
    BY <1>0, <1>3, AdmitRow
<1>4. ASSUME NEW c \in Captures, NEW o \in Outcomes, Complete(c, o)
      PROVE  /\ \A i \in DOMAIN revisions :
                   /\ i \in DOMAIN revisions'
                   /\ revisions'[i].obligation = revisions[i].obligation
                   /\ revisions'[i].with = revisions[i].with
                   /\ revisions[i].result # "none" =>
                         revisions'[i].result = revisions[i].result
             /\ head <= head' /\ head' \in Nat
    BY <1>0, <1>4, CompleteRow
<1>5. QED
    BY <1>1, <1>2, <1>3, <1>4, RevisionFrame

-----------------------------------------------------------------------------
(* Each part is kept *)

\* A new row has a key of its own: _admitted_revision looked for it first.
LEMMA KeysStep == SettleInv /\ [Next]_vars => KeysUnique'
<1> SUFFICES ASSUME SettleInv, [Next]_vars PROVE KeysUnique'
    OBVIOUS
<1>0. TypeOK /\ KeysUnique /\ StageRow
    BY DEF SettleInv, HeldInv
<1>1. CASE revisions' = revisions
    BY <1>0, <1>1 DEF KeysUnique, Own
<1>2. ASSUME NEW d \in Captures, NEW base \in 0..Len(revisions), NEW o \in Outcomes,
             CommitReprocess(d, base, o)
      PROVE  KeysUnique'
    BY <1>0, <1>2, ReprocessRow DEF KeysUnique, Own
<1>3. ASSUME NEW d \in Captures, AdmitRevision(d) PROVE KeysUnique'
  <2>1. CASE revisions' = revisions
    BY <1>0, <2>1 DEF KeysUnique, Own
  <2>2. ASSUME NEW n,
               \A k \in DOMAIN revisions : ~Keyed(k, d),
               DOMAIN revisions' = DOMAIN revisions \cup {n},
               \A k \in DOMAIN revisions : revisions'[k] = revisions[k],
               revisions'[n].obligation = {d}, revisions'[n].with = served
        PROVE  KeysUnique'
    <3> SUFFICES ASSUME NEW c \in Captures,
                        NEW i \in DOMAIN revisions', NEW j \in DOMAIN revisions',
                        revisions'[i].obligation = {c}, revisions'[j].obligation = {c},
                        revisions'[i].with = revisions'[j].with
                 PROVE  i = j
      BY DEF KeysUnique, Own
    <3>1. CASE i \in DOMAIN revisions /\ j \in DOMAIN revisions
      BY <1>0, <2>2, <3>1 DEF KeysUnique, Own
    <3>2. CASE i = n /\ j \in DOMAIN revisions
      BY <2>2, <3>2 DEF Keyed
    <3>3. CASE j = n /\ i \in DOMAIN revisions
      BY <2>2, <3>3 DEF Keyed
    <3>4. QED
      BY <2>2, <3>1, <3>2, <3>3
  <2>3. QED
    BY <1>0, <1>3, <2>1, <2>2, AdmitRow
<1>4. ASSUME NEW d \in Captures, NEW o \in Outcomes, Complete(d, o) PROVE KeysUnique'
    BY <1>0, <1>4, CompleteRow DEF KeysUnique, Own
<1>5. QED
    BY <1>1, <1>2, <1>3, <1>4, RevisionFrame

\* The frozen resources of an admitted capture are frozen, and what was lost
\* stays lost.
LEMMA FrozenStays ==
    ASSUME HeldInv, [Next]_vars, NEW c \in Captures, Admitted(c)
    PROVE  frozen'[c] = frozen[c] /\ lost \subseteq lost'
<1>1. \/ frozen' = frozen
      \/ \E d \in Captures : CommitCapture(d)
    BY DEF Next, Ask, FinishRequest, Work, Fail, Administer, BeginCapture, BeginReprocess,
           CommitReprocess, Sweep, ReadPage, AssertPinned, TakeLease, AdmitRevision,
           Complete, Derive, Settle, Release, RollbackRequest, AbortPass, SkipObligation,
           LoseBytes, Crash, Start, Install, Remove, Reconcile, CommitCapture,
           NextObligation, vars, database, worker, cache
<1>2. ASSUME NEW d \in Captures, CommitCapture(d) PROVE frozen'[c] = frozen[c]
  <2>1. c # d
    BY <1>2 DEF CommitCapture, HeldInv, DraftPinned
  <2>2. QED
    BY <1>2, <2>1 DEF CommitCapture, HeldInv, TypeOK
<1>3. lost \subseteq lost'
    BY DEF Next, Ask, FinishRequest, Work, Fail, Administer, BeginCapture, BeginReprocess,
           CommitReprocess, Sweep, ReadPage, AssertPinned, TakeLease, AdmitRevision,
           Complete, Derive, Settle, Release, RollbackRequest, AbortPass, SkipObligation,
           LoseBytes, Crash, Start, Install, Remove, Reconcile, CommitCapture,
           NextObligation, vars, database, worker, cache
<1>4. QED
    BY <1>1, <1>2, <1>3

\* An obligation's revision is with what its capture froze.
LEMMA RowsServedStep == SettleInv /\ [Next]_vars => RowsServed'
<1> SUFFICES ASSUME SettleInv, [Next]_vars, NEW c \in Captures, NEW i \in DOMAIN revisions',
                    revisions'[i].obligation = {c}
             PROVE  /\ Admitted(c)'
                    /\ frozen'[c] \cap lost' = {} => revisions'[i].with = frozen'[c]
    BY DEF RowsServed, Own
<1>0. TypeOK /\ KeysUnique /\ StageRow /\ HeadNewest /\ HeldInv /\ RowsServed
    BY DEF SettleInv, HeldInv
<1>1. CASE i \in DOMAIN revisions
  <2>1. revisions[i].obligation = {c} /\ revisions'[i].with = revisions[i].with
    BY <1>0, <1>1, RowsKept
  <2>2. Admitted(c) /\ (frozen[c] \cap lost = {} => revisions[i].with = frozen[c])
    BY <1>0, <1>1, <2>1 DEF RowsServed, Own
  <2>3. QED
    BY <1>0, <2>1, <2>2, AdmittedStays, FrozenStays
<1>2. CASE i \notin DOMAIN revisions
  <2>1. ~(revisions' = revisions)
    BY <1>2
  <2>2. ASSUME NEW d \in Captures, NEW base \in 0..Len(revisions), NEW o \in Outcomes,
               CommitReprocess(d, base, o)
        PROVE  FALSE
    BY <1>0, <1>2, <2>2, ReprocessRow
  <2>3. ASSUME NEW d \in Captures, NEW o \in Outcomes, Complete(d, o) PROVE FALSE
    BY <1>0, <1>2, <2>3, CompleteRow
  <2>4. PICK d \in Captures : AdmitRevision(d)
    BY <2>1, <2>2, <2>3, RevisionFrame
  <2>5. d = c /\ revisions'[i].with = served
    BY <1>0, <1>2, <2>4, AdmitRow
  <2>6. /\ c \in page /\ Working(c) /\ at = "admit"
        /\ frozen' = frozen /\ lost' = lost
    BY <2>4, <2>5 DEF AdmitRevision, Working, cache
  <2>7. Admitted(c)
    BY <1>0, <2>6 DEF HeldInv, PageAdmitted
  <2>8. frozen[c] \cap lost = {} => served = frozen[c]
    BY <2>6 DEF SettleInv, WorkerServed
  <2>9. QED
    BY <1>0, <2>5, <2>6, <2>7, <2>8, AdmittedStays
<1>3. QED
    BY <1>1, <1>2

\* Only the row being released is settled: a page is read from pending rows.
LEMMA PagePendingStep == SettleInv /\ [Next]_vars => PagePending'
<1> SUFFICES ASSUME SettleInv, [Next]_vars, NEW c \in page', c \in settled'
             PROVE  at' = "release" /\ Working(c)'
    BY DEF PagePending
<1>0. HeldInv /\ PagePending /\ TypeOK /\ PageAdmitted /\ DraftPinned
    BY DEF SettleInv, HeldInv
<1>1. ASSUME NEW d \in Captures, Settle(d) PROVE at' = "release" /\ Working(c)'
    BY <1>0, <1>1 DEF Settle, PagePending, Working
<1>2. CASE ReadPage
    BY <1>0, <1>2 DEF ReadPage, Pending, database
<1>3. ASSUME NEW d \in Captures, NEW dropped \in BOOLEAN, Release(d, dropped) PROVE FALSE
  <2>1. c \in page /\ c \in settled /\ c # d /\ d \in page /\ Working(d)
    BY <1>3 DEF Release, NextObligation, database, Working
  <2>2. Working(c)
    BY <1>0, <2>1 DEF PagePending
  <2>3. QED
    BY <1>0, <2>1, <2>2, WorkingUnique
<1>4. CASE settled' = settled /\ page' \subseteq page /\ at # "release"
    BY <1>0, <1>4 DEF PagePending
<1>5. CASE settled' = settled /\ page' = page /\ at' = at
  <2>1. at = "release" /\ Working(c) /\ c \in page
    BY <1>0, <1>5 DEF PagePending
  <2>2. QED
    BY <1>0, <1>5, <2>1, PageSequences DEF Working
<1>6. CASE page' = {}
    BY <1>6
<1>7. \/ \E d \in Captures : Settle(d)
      \/ ReadPage
      \/ \E d \in Captures, dropped \in BOOLEAN : Release(d, dropped)
      \/ settled' = settled /\ page' \subseteq page /\ at # "release"
      \/ settled' = settled /\ page' = page /\ at' = at
      \/ page' = {}
    BY DEF Next, Ask, FinishRequest, Work, Fail, Administer, BeginCapture, BeginReprocess,
           CommitReprocess, Sweep, ReadPage, AssertPinned, TakeLease, AdmitRevision,
           Complete, Derive, Settle, Release, RollbackRequest, AbortPass, SkipObligation,
           LoseBytes, Crash, Start, Install, Remove, Reconcile, CommitCapture,
           NextObligation, vars, database, worker, cache
<1>8. QED
    BY <1>1, <1>2, <1>3, <1>4, <1>5, <1>6, <1>7

\* What becomes of the worker: nothing, the next row or none, or a step.
LEMMA WorkerFrame ==
    [Next]_vars =>
        \/ /\ at' = at /\ page' = page /\ served' = served /\ derived' = derived
           /\ \/ revisions' = revisions /\ head' = head
              \/ \E c \in Captures, base \in 0..Len(revisions), o \in Outcomes :
                    CommitReprocess(c, base, o)
        \/ at' \in {"idle", "assert"} /\ served' = {}
        \/ ReadPage
        \/ \E c \in Captures : \/ AssertPinned(c) \/ TakeLease(c) \/ AdmitRevision(c)
                               \/ Derive(c) \/ Settle(c)
        \/ \E c \in Captures, o \in Outcomes : Complete(c, o)
    BY DEF Next, Ask, FinishRequest, Work, Fail, Administer, BeginCapture, BeginReprocess,
           CommitReprocess, Sweep, ReadPage, AssertPinned, TakeLease, AdmitRevision,
           Complete, Derive, Settle, Release, RollbackRequest, AbortPass, SkipObligation,
           LoseBytes, Crash, Start, Install, Remove, Reconcile, CommitCapture,
           NextObligation, vars, database, worker, cache

\* A capture the worker works on keeps its place and its frozen resources.
LEMMA WorkingKept ==
    ASSUME HeldInv, [Next]_vars, page' = page, NEW c \in page
    PROVE  Working(c)' = Working(c) /\ frozen'[c] = frozen[c] /\ lost \subseteq lost'
<1>1. \A d \in page : seq'[d] = seq[d]
    BY PageSequences DEF HeldInv
<1>2. Working(c)' <=> Working(c)
    BY <1>1 DEF Working
<1>3. c \in Captures /\ Admitted(c)
    BY DEF HeldInv, PageAdmitted, TypeOK
<1>4. QED
    BY <1>2, <1>3, FrozenStays DEF Working

\* Bytes the worker cannot be given were lost: its pin holds everything else.
LEMMA MissingWasLost ==
    ASSUME HeldInv, PagePending, NEW c \in page, at # "release", frozen[c] # {},
           ~(frozen[c] \subseteq Present)
    PROVE  frozen[c] \cap lost # {}
<1>1. c \in Pending
    BY DEF HeldInv, PagePending, PageAdmitted, Pending, TypeOK
<1>2. frozen[c] \subseteq entries
    BY <1>1 DEF HeldInv, HeldResourcesStay, Pinned, Pending
<1>3. QED
    BY <1>2 DEF Present, HeldInv, HeldResourcesStay

\* What the worker executes a capture with is decided once per row, from the
\* frozen resources (assert_pinned, leased_selection).
LEMMA WorkerServedStep == SettleInv /\ [Next]_vars => WorkerServed'
<1> SUFFICES ASSUME SettleInv, [Next]_vars PROVE WorkerServed'
    OBVIOUS
<1>0. HeldInv /\ TypeOK /\ PagePending /\ WorkerServed
    BY DEF SettleInv, HeldInv
<1>1. CASE at' = at /\ page' = page /\ served' = served
    BY <1>0, <1>1, WorkingKept DEF WorkerServed
<1>2. CASE at' \in {"idle", "assert"} /\ served' = {}
    BY <1>2 DEF WorkerServed
<1>3. CASE ReadPage
    BY <1>0, <1>3 DEF ReadPage, WorkerServed
<1>4. ASSUME NEW c \in Captures, AssertPinned(c) PROVE WorkerServed'
  <2>1. CASE at' = "admit" /\ page' = page /\ served' = served
    <3>1. at = "assert" /\ c \in page /\ Working(c)
      BY <1>4 DEF AssertPinned, Working
    <3>2. frozen[c] = {} \/ frozen[c] \cap lost # {}
      BY <1>0, <1>4, <2>1, <3>1, MissingWasLost DEF AssertPinned, NextObligation
    <3>3. served = {}
      BY <1>0, <3>1 DEF WorkerServed
    <3>4. \A d \in page : Working(d)' => d = c
      <4> SUFFICES ASSUME NEW d \in page, Working(d)' PROVE d = c
        OBVIOUS
      <4>1. Working(d)
        BY <1>0, <2>1, WorkingKept
      <4>2. QED
        BY <1>0, <3>1, <4>1, WorkingUnique
    <3>5. frozen' = frozen /\ lost' = lost
      BY <1>4 DEF AssertPinned, cache, database
    <3>6. QED
      BY <2>1, <3>2, <3>3, <3>4, <3>5 DEF WorkerServed
  <2>2. CASE at' \in {"idle", "assert", "lease"} /\ served' = {}
    BY <2>2 DEF WorkerServed
  <2>3. QED
    BY <1>0, <1>4, <2>1, <2>2 DEF AssertPinned, NextObligation, WorkerServed
<1>5. ASSUME NEW c \in Captures, TakeLease(c) PROVE WorkerServed'
  <2>1. at = "lease" /\ c \in page /\ Working(c) /\ page' = page /\ at' = "admit"
    BY <1>5 DEF TakeLease, Working
  <2>2. served' = frozen[c] \/ (served' = served /\ ~(frozen[c] \subseteq Present))
    BY <1>5 DEF TakeLease
  <2>3. served' = frozen[c] \/ frozen[c] \cap lost # {}
    <3>1. CASE frozen[c] = {}
      BY <1>0, <2>1, <2>2, <3>1 DEF WorkerServed
    <3>2. CASE frozen[c] # {}
      BY <1>0, <2>1, <2>2, <3>2, MissingWasLost
    <3>3. QED
      BY <3>1, <3>2
  <2>4. \A d \in page : Working(d)' => d = c
    <3> SUFFICES ASSUME NEW d \in page, Working(d)' PROVE d = c
      OBVIOUS
    <3>1. Working(d)
      BY <1>0, <2>1, WorkingKept
    <3>2. QED
      BY <1>0, <2>1, <3>1, WorkingUnique
  <2>5. frozen' = frozen /\ lost' = lost
    BY <1>5 DEF TakeLease, database
  <2>6. QED
    BY <2>1, <2>3, <2>4, <2>5 DEF WorkerServed
<1>6. ASSUME /\ page' = page /\ served' = served
             /\ at \in {"admit", "extract", "derive", "settle"}
             /\ at' \in {"extract", "derive", "settle", "release"}
      PROVE  WorkerServed'
    BY <1>0, <1>6, WorkingKept DEF WorkerServed
<1>7. ASSUME NEW c \in Captures, AdmitRevision(c) \/ Derive(c) \/ Settle(c)
      PROVE  WorkerServed'
    BY <1>6, <1>7 DEF AdmitRevision, Derive, Settle
<1>8. ASSUME NEW c \in Captures, NEW o \in Outcomes, Complete(c, o) PROVE WorkerServed'
    BY <1>6, <1>8 DEF Complete
<1>9. QED
    BY <1>1, <1>2, <1>3, <1>4, <1>5, <1>7, <1>8, WorkerFrame

\* The head is the newest promoted revision (_disposition, advance_extraction_head).
LEMMA HeadStep == SettleInv /\ [Next]_vars => HeadNewest'
<1> SUFFICES ASSUME SettleInv, [Next]_vars PROVE HeadNewest'
    OBVIOUS
<1>0. TypeOK /\ TypeOK' /\ KeysUnique /\ StageRow /\ HeadNewest
    BY TypeStep DEF SettleInv, HeldInv
<1>1. head \in Nat /\ Len(revisions) \in Nat /\ DOMAIN revisions = 1..Len(revisions)
    BY <1>0 DEF TypeOK
<1>2. CASE revisions' = revisions /\ head' = head
    BY <1>0, <1>2 DEF HeadNewest
<1>3. ASSUME NEW d \in Captures, NEW base \in 0..Len(revisions), NEW o \in Outcomes,
             CommitReprocess(d, base, o)
      PROVE  HeadNewest'
    BY <1>0, <1>1, <1>3, ReprocessRow DEF HeadNewest
<1>4. ASSUME NEW d \in Captures, AdmitRevision(d) PROVE HeadNewest'
  <2>1. CASE revisions' = revisions
    BY <1>0, <1>4, <2>1, AdmitRow DEF HeadNewest
  <2>2. CASE revisions' # revisions
    <3>1. /\ head' = head
          /\ DOMAIN revisions' = DOMAIN revisions \cup {Len(revisions) + 1}
          /\ \A i \in DOMAIN revisions : revisions'[i] = revisions[i]
          /\ revisions'[Len(revisions) + 1].result = "none"
      BY <1>0, <1>4, <2>2, AdmitRow
    <3>2. QED
      BY <1>0, <1>1, <3>1 DEF HeadNewest, Publishable
  <2>3. QED
    BY <2>1, <2>2
<1>5. ASSUME NEW d \in Captures, NEW o \in Outcomes, Complete(d, o) PROVE HeadNewest'
  <2>1. PICK i \in DOMAIN revisions :
           /\ DOMAIN revisions' = DOMAIN revisions
           /\ \A j \in DOMAIN revisions : j # i => revisions'[j] = revisions[j]
           /\ \/ head' = head /\ revisions'[i].result \notin Publishable
              \/ head' = i /\ head <= i
    BY <1>0, <1>5, CompleteRow
  <2>2. head' = 0 \/ head' \in DOMAIN revisions'
    BY <1>0, <2>1 DEF HeadNewest
  <2>3. ASSUME NEW j \in DOMAIN revisions', revisions'[j].result \in Publishable
        PROVE  j <= head'
    BY <1>0, <1>1, <2>1, <2>3 DEF HeadNewest
  <2>4. QED
    BY <2>2, <2>3 DEF HeadNewest
<1>6. QED
    BY <1>2, <1>3, <1>4, <1>5, RevisionFrame

\* A revision stands under the worker's key while it extracts, has its result
\* from then on, and is derived from before its row is settled.
LEMMA StageStep == SettleInv /\ [Next]_vars => StageRow'
<1> SUFFICES ASSUME SettleInv, [Next]_vars PROVE StageRow'
    OBVIOUS
<1>0. HeldInv /\ TypeOK /\ KeysUnique /\ StageRow /\ HeadNewest
    BY DEF SettleInv, HeldInv
<1>1. CASE at' = at /\ page' = page /\ served' = served /\ derived' = derived
           /\ revisions' = revisions /\ head' = head
    BY <1>0, <1>1, WorkingKept DEF StageRow, Keyed
<1>2. ASSUME at' = at /\ page' = page /\ served' = served /\ derived' = derived,
             NEW d \in Captures, NEW base \in 0..Len(revisions), NEW o \in Outcomes,
             CommitReprocess(d, base, o)
      PROVE  StageRow'
  <2> SUFFICES ASSUME NEW c \in page, Working(c)
               PROVE  /\ at = "extract" => \E i \in DOMAIN revisions' :
                            Keyed(i, c)' /\ revisions'[i].result = "none"
                      /\ at \in {"derive", "settle"} => \E i \in DOMAIN revisions' :
                            Keyed(i, c)' /\ revisions'[i].result # "none"
                      /\ at = "settle" => \A i \in DOMAIN revisions' :
                            Keyed(i, c)' /\ revisions'[i].result = "succeeded"
                               => i \in derived \/ head' > i
    BY <1>0, <1>2, WorkingKept DEF StageRow
  <2>1. /\ head \in Nat /\ head' \in Nat /\ head <= head'
        /\ DOMAIN revisions \subseteq Nat
    BY <1>0, RowsKept DEF TypeOK
  <2>2. \A i \in DOMAIN revisions : /\ i \in DOMAIN revisions'
                                    /\ revisions'[i] = revisions[i]
    BY <1>0, <1>2, ReprocessRow
  <2>3. \A i \in DOMAIN revisions' : revisions'[i].obligation = {c} => i \in DOMAIN revisions
    BY <1>0, <1>2, ReprocessRow
  <2>4. \A i \in DOMAIN revisions : Keyed(i, c)' <=> Keyed(i, c)
    BY <1>2, <2>2 DEF Keyed
  <2>5. \A i \in DOMAIN revisions' : Keyed(i, c)' => i \in DOMAIN revisions
    BY <2>3 DEF Keyed
  <2>6. QED
    BY <1>0, <2>1, <2>2, <2>4, <2>5 DEF StageRow
<1>3. CASE at' \in {"idle", "assert", "admit", "lease", "release"}
    BY <1>3 DEF StageRow
<1>4. ASSUME NEW d \in Captures, AdmitRevision(d) PROVE StageRow'
  <2>1. d \in page /\ Working(d) /\ page' = page /\ served' = served
    BY <1>4 DEF AdmitRevision, Working
  <2> SUFFICES ASSUME NEW c \in page, Working(c)'
               PROVE  /\ at' = "extract" => \E i \in DOMAIN revisions' :
                            Keyed(i, c)' /\ revisions'[i].result = "none"
                      /\ at' = "derive" => \E i \in DOMAIN revisions' :
                            Keyed(i, c)' /\ revisions'[i].result # "none"
                      /\ at' # "settle"
    BY <2>1 DEF StageRow
  <2>2. Working(c)
    BY <1>0, <2>1, WorkingKept
  <2>3. c = d
    BY <1>0, <2>1, <2>2, WorkingUnique
  <2>4. at' \in {"extract", "derive"}
    BY <1>4, Zenon DEF AdmitRevision
  <2>5. CASE \E i \in DOMAIN revisions : Keyed(i, d)
    <3>1. /\ revisions' = revisions
          /\ at' = IF \E i \in DOMAIN revisions :
                         Keyed(i, d) /\ revisions[i].result # "none"
                   THEN "derive" ELSE "extract"
      BY <1>4, <2>5, Zenon DEF AdmitRevision
    <3>2. QED
      BY <2>1, <2>3, <2>4, <2>5, <3>1 DEF Keyed
  <2>6. CASE \A i \in DOMAIN revisions : ~Keyed(i, d)
    <3> DEFINE n == Len(revisions) + 1
    <3>1. /\ at' = "extract"
          /\ n \in DOMAIN revisions'
          /\ revisions'[n].obligation = {d}
          /\ revisions'[n].with = served
          /\ revisions'[n].result = "none"
      BY <1>0, <1>4, <2>6, AdmitRow
    <3>2. QED
      BY <2>1, <2>3, <3>1 DEF Keyed
  <2>7. QED
    BY <2>5, <2>6
<1>5. ASSUME NEW d \in Captures, NEW o \in Outcomes, Complete(d, o) PROVE StageRow'
  <2>1. /\ d \in page /\ Working(d) /\ page' = page /\ served' = served
        /\ at' = "derive"
    BY <1>5 DEF Complete, Working
  <2>2. \E i \in DOMAIN revisions' : Keyed(i, d)' /\ revisions'[i].result # "none"
    BY <1>0, <1>5, <2>1, CompleteRow DEF Keyed
  <2>3. ASSUME NEW c \in page, Working(c)' PROVE c = d
    <3>1. Working(c)
      BY <1>0, <2>1, <2>3, WorkingKept
    <3>2. QED
      BY <1>0, <2>1, <3>1, WorkingUnique
  <2>4. QED
    BY <2>1, <2>2, <2>3 DEF StageRow
<1>6. ASSUME NEW d \in Captures, Derive(d) PROVE StageRow'
  <2>1. /\ d \in page /\ Working(d) /\ at = "derive" /\ at' = "settle"
        /\ page' = page /\ served' = served /\ revisions' = revisions /\ head' = head
    BY <1>6 DEF Derive, Working
  <2>2. derived' = derived \cup {i \in DOMAIN revisions :
                      Keyed(i, d) /\ revisions[i].result = "succeeded" /\ head = i}
    BY <1>6 DEF Derive
  <2>3. ASSUME NEW c \in page, Working(c)' PROVE c = d
    <3>1. Working(c)
      BY <1>0, <2>1, <2>3, WorkingKept
    <3>2. QED
      BY <1>0, <2>1, <3>1, WorkingUnique
  <2>4. \E i \in DOMAIN revisions : Keyed(i, d) /\ revisions[i].result # "none"
    BY <1>0, <2>1 DEF StageRow
  <2>5. ASSUME NEW i \in DOMAIN revisions, Keyed(i, d), revisions[i].result = "succeeded"
        PROVE  i \in derived' \/ head > i
    <3>1. i <= head /\ i \in Nat /\ head \in Nat
      BY <1>0, <2>5 DEF HeadNewest, Publishable, TypeOK
    <3>2. QED
      BY <2>2, <2>5, <3>1
  <2>6. \A i \in DOMAIN revisions : Keyed(i, d)' <=> Keyed(i, d)
    BY <2>1 DEF Keyed
  <2>7. QED
    BY <2>1, <2>3, <2>4, <2>5, <2>6 DEF StageRow
<1>7. ASSUME NEW d \in Captures, AssertPinned(d) \/ TakeLease(d) \/ Settle(d)
      PROVE  at' \in {"idle", "assert", "admit", "lease", "release"}
    BY <1>7 DEF AssertPinned, TakeLease, Settle, NextObligation
<1>8. ReadPage => at' = "assert"
    BY DEF ReadPage
<1>9. QED
    BY <1>1, <1>2, <1>3, <1>4, <1>5, <1>6, <1>7, <1>8, WorkerFrame

\* Only _settle settles, and derived knowledge stays.
LEMMA SettledFrame ==
    ASSUME TypeOK, [Next]_vars
    PROVE  /\ settled' = settled \/ \E c \in Captures : Settle(c)
           /\ derived \subseteq derived'
    BY DEF Next, Ask, FinishRequest, Work, Fail, Administer, BeginCapture, BeginReprocess,
           CommitReprocess, Sweep, ReadPage, AssertPinned, TakeLease, AdmitRevision,
           Complete, Derive, Settle, Release, RollbackRequest, AbortPass, SkipObligation,
           LoseBytes, Crash, Start, Install, Remove, Reconcile, CommitCapture,
           NextObligation, vars, database, worker, cache

\* No revision of a settled capture is completed any more: what has succeeded
\* after the step had succeeded before it.
LEMMA SettledGainsNothing ==
    ASSUME SettleInv, [Next]_vars, NEW c \in Captures, c \in settled,
           NEW i \in DOMAIN revisions', revisions'[i].obligation = {c},
           revisions'[i].result = "succeeded"
    PROVE  i \in DOMAIN revisions /\ revisions[i] = revisions'[i]
<1>0. HeldInv /\ TypeOK /\ KeysUnique /\ StageRow /\ PagePending
    BY DEF SettleInv, HeldInv
<1>1. CASE revisions' = revisions
    BY <1>1
<1>2. ASSUME NEW d \in Captures, NEW base \in 0..Len(revisions), NEW o \in Outcomes,
             CommitReprocess(d, base, o)
      PROVE  i \in DOMAIN revisions /\ revisions[i] = revisions'[i]
    BY <1>0, <1>2, ReprocessRow
<1>3. ASSUME NEW d \in Captures, AdmitRevision(d)
      PROVE  i \in DOMAIN revisions /\ revisions[i] = revisions'[i]
    BY <1>0, <1>3, AdmitRow
<1>4. ASSUME NEW d \in Captures, NEW o \in Outcomes, Complete(d, o)
      PROVE  i \in DOMAIN revisions /\ revisions[i] = revisions'[i]
  <2>1. d \in page /\ at = "extract"
    BY <1>4 DEF Complete, Working
  <2>2. c # d
    BY <1>0, <2>1 DEF PagePending
  <2>3. PICK j \in DOMAIN revisions :
           /\ revisions[j].obligation = {d}
           /\ revisions'[j].obligation = revisions[j].obligation
           /\ DOMAIN revisions' = DOMAIN revisions
           /\ \A k \in DOMAIN revisions : k # j => revisions'[k] = revisions[k]
    BY <1>0, <1>4, CompleteRow DEF Keyed
  <2>4. i # j
    BY <2>2, <2>3
  <2>5. QED
    BY <2>3, <2>4
<1>5. QED
    BY <1>1, <1>2, <1>3, <1>4, RevisionFrame

\* What a settled capture shows, it keeps; what it has to show, it has when it
\* is settled.
LEMMA SettledStep == SettleInv /\ [Next]_vars => SettledRow'
<1> SUFFICES ASSUME SettleInv, [Next]_vars, NEW c \in settled'
             PROVE  /\ \E i \in DOMAIN revisions' : Own(i, c)' /\ revisions'[i].result # "none"
                    /\ frozen'[c] \cap lost' = {} => \A i \in DOMAIN revisions' :
                          Own(i, c)' /\ revisions'[i].result = "succeeded"
                             => i \in derived' \/ head' > i
    BY DEF SettledRow
<1>0. /\ HeldInv /\ TypeOK /\ TypeOK' /\ KeysUnique /\ StageRow /\ HeadNewest
      /\ RowsServed /\ WorkerServed /\ SettledRow
    BY TypeStep DEF SettleInv, HeldInv
<1>1. c \in Captures
    BY <1>0 DEF TypeOK
<1>2. CASE c \in settled
  <2>1. PICK i \in DOMAIN revisions : Own(i, c) /\ revisions[i].result # "none"
    BY <1>0, <1>2 DEF SettledRow
  <2>2. Own(i, c)' /\ i \in DOMAIN revisions' /\ revisions'[i].result # "none"
    BY <1>0, <2>1, RowsKept DEF Own
  <2>3. Admitted(c)
    BY <1>0, <1>1, <2>1 DEF RowsServed
  <2>4. frozen'[c] = frozen[c] /\ lost \subseteq lost'
    BY <1>0, <1>1, <2>3, FrozenStays
  <2>5. head \in Nat /\ head' \in Nat /\ head <= head' /\ derived \subseteq derived'
    BY <1>0, RowsKept, SettledFrame DEF TypeOK
  <2>6. ASSUME frozen'[c] \cap lost' = {}, NEW j \in DOMAIN revisions', Own(j, c)',
               revisions'[j].result = "succeeded"
        PROVE  j \in derived' \/ head' > j
    <3>1. j \in DOMAIN revisions /\ revisions[j] = revisions'[j]
      BY <1>1, <1>2, <2>6, SettledGainsNothing DEF Own
    <3>2. frozen[c] \cap lost = {}
      BY <2>4, <2>6
    <3>3. Own(j, c) /\ revisions[j].result = "succeeded"
      BY <2>6, <3>1 DEF Own
    <3>4. j \in derived \/ head > j
      BY <1>0, <1>2, <3>1, <3>2, <3>3 DEF SettledRow
    <3>5. j \in Nat
      BY <1>0, <3>1 DEF TypeOK
    <3>6. QED
      BY <2>5, <3>4, <3>5
  <2>7. QED
    BY <2>2, <2>6
<1>3. CASE c \notin settled
  <2>1. Settle(c)
    BY <1>0, <1>3, SettledFrame DEF Settle
  <2>2. /\ at = "settle" /\ c \in page /\ Working(c)
        /\ revisions' = revisions /\ head' = head /\ derived' = derived
        /\ frozen' = frozen /\ lost' = lost
    BY <2>1 DEF Settle, Working, cache
  <2>3. \E i \in DOMAIN revisions : Keyed(i, c) /\ revisions[i].result # "none"
    BY <1>0, <2>2 DEF StageRow
  <2>4. \A i \in DOMAIN revisions :
           Keyed(i, c) /\ revisions[i].result = "succeeded" => i \in derived \/ head > i
    BY <1>0, <2>2 DEF StageRow
  <2>5. frozen[c] \cap lost = {} =>
           \A i \in DOMAIN revisions : Own(i, c) => Keyed(i, c)
    BY <1>0, <1>1, <2>2 DEF RowsServed, WorkerServed, Own, Keyed
  <2>6. \A i \in DOMAIN revisions : Keyed(i, c) => Own(i, c)
    BY DEF Keyed, Own
  <2>7. \A i \in DOMAIN revisions : Own(i, c)' <=> Own(i, c)
    BY <2>2 DEF Own
  <2>8. QED
    BY <2>2, <2>3, <2>4, <2>5, <2>6, <2>7
<1>4. QED
    BY <1>2, <1>3

-----------------------------------------------------------------------------
(* The theorem *)

LEMMA SettleInvInit == Init => SettleInv
<1> SUFFICES ASSUME Init PROVE SettleInv
    OBVIOUS
<1>1. HeldInv
    BY InitHeld
<1>2. DOMAIN revisions = {} /\ page = {} /\ settled = {} /\ head = 0
    BY DEF Init
<1>3. served = {} /\ at = "idle"
    BY DEF Init
<1>4. QED
    BY <1>1, <1>2, <1>3 DEF SettleInv, KeysUnique, RowsServed, WorkerServed, PagePending,
                            StageRow, HeadNewest, SettledRow

LEMMA SettleInvStep == SettleInv /\ [Next]_vars => SettleInv'
    BY HeldStep, KeysStep, RowsServedStep, WorkerServedStep, PagePendingStep, StageStep,
       HeadStep, SettledStep DEF SettleInv

LEMMA SettleInvComplete == SettleInv => SettledIsComplete
<1> SUFFICES ASSUME SettleInv PROVE SettledIsComplete
    OBVIOUS
<1>0. TypeOK /\ KeysUnique /\ RowsServed /\ HeadNewest /\ SettledRow
    BY DEF SettleInv, HeldInv
<1>1. ASSUME NEW c \in settled
      PROVE  \E i \in DOMAIN revisions :
                revisions[i].obligation = {c} /\ revisions[i].result # "none"
    BY <1>0 DEF SettledRow, Own
<1>2. ASSUME NEW c \in settled, frozen[c] \cap lost = {},
             NEW i \in DOMAIN revisions, revisions[i].obligation = {c}
      PROVE  /\ \A j \in DOMAIN revisions : revisions[j].obligation = {c} => i = j
             /\ revisions[i].result = "succeeded" => i \in derived \/ head > i
  <2>1. c \in Captures
    BY <1>0 DEF TypeOK
  <2>2. ASSUME NEW j \in DOMAIN revisions, revisions[j].obligation = {c} PROVE i = j
    BY <1>0, <1>2, <2>1, <2>2 DEF KeysUnique, RowsServed, Own
  <2>3. revisions[i].result = "succeeded" => i \in derived \/ head > i
    BY <1>0, <1>2 DEF SettledRow, Own
  <2>4. QED
    BY <2>2, <2>3
<1>3. \A i \in DOMAIN revisions : revisions[i].result \in Publishable => i <= head
    BY <1>0 DEF HeadNewest
<1>4. QED
    BY <1>1, <1>2, <1>3 DEF SettledIsComplete

\* A settled capture has a completed revision; unless bytes it froze were lost,
\* it has one only, and the knowledge of a succeeded one is derived or its
\* extraction was replaced: wherever crashes and failed transactions cut the
\* passes of run_pending.
THEOREM SettledComplete == Spec => []SettledIsComplete
<1>1. Init => SettleInv
    BY SettleInvInit
<1>2. SettleInv /\ [Next]_vars => SettleInv'
    BY SettleInvStep
<1>3. SettleInv => SettledIsComplete
    BY SettleInvComplete
<1>4. QED
    BY <1>1, <1>2, <1>3, PTL DEF Spec
=============================================================================
