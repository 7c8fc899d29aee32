-------------------------- MODULE DocumentCapture --------------------------
(***************************************************************************)
(* Captures of one document, from their admission to their settlement, and *)
(* the managed OCR resources they execute with (service/document_intake,   *)
(* service/document_processing, service/ocr_resource_lifecycle).           *)
(*                                                                         *)
(* A request handler pins the resources of a capture in the cache's state  *)
(* document and then commits the capture with its outbox row.  The worker  *)
(* takes the oldest rows, asserts the pin, leases the bytes, admits an     *)
(* extraction revision, extracts, completes the revision, derives          *)
(* knowledge from it, settles the row and releases the pin: eight steps    *)
(* with a commit, a lock or nothing between them.  A reprocess request     *)
(* admits and completes a revision of its own in one transaction.          *)
(*                                                                         *)
(* Handlers and the worker share runner.sqlite_gate: a handler holds it    *)
(* for the whole request, the worker from the completion to the            *)
(* settlement, and within each of its other database steps.  The cache is  *)
(* shared with administrative processes; its coordination lock makes each  *)
(* operation one step, and a lease outlives the step that took it.         *)
(*                                                                         *)
(* A resource is one exact identity, of one unit of capacity.  Settings,   *)
(* profiles and formats are left out except for the resources they name:   *)
(* the operation key of an obligation is its capture with the resources    *)
(* it is served.                                                           *)
(***************************************************************************)
EXTENDS Integers, Sequences, FiniteSets

CONSTANTS
    Captures,       \* the captures clients may ask for
    Resources,      \* the identities an administrator may install
    Selections,     \* the sets of identities the settings may resolve to
    Capacity,       \* the cap of the managed cache
    Budget,         \* obligations per pass of the worker
    MaxReprocess,   \* bound: reprocess requests
    MaxFaults,      \* bound: failed operations and crashes of the service
    MaxLosses       \* bound: identities whose payload is lost

ASSUME SelectionsAssumption == Selections \subseteq (SUBSET Resources) \ {{}}
ASSUME BoundsAssumption ==
    /\ Capacity \in Nat
    /\ Budget \in Nat
    /\ {MaxReprocess, MaxFaults, MaxLosses} \subseteq Nat

VARIABLES
    entries,    \* the identities the state document installs
    damaged,    \* the identities among them whose payload is missing or wrong
    pins,       \* the identities pinned for each capture
    leases,     \* the identities each live selection lease covers
    lost,       \* the identities whose payload was ever lost
    seq,        \* outbox sequence of each capture, 0 before its admission
    last,       \* the last sequence given
    settled,    \* the captures whose outbox row is settled
    frozen,     \* processing_resources_json of each capture
    revisions,  \* the extraction revisions, by document ordinal
    head,       \* the ordinal of the extraction head, 0 for none
    derived,    \* the ordinals whose derivation was run
    up,         \* whether the service runs
    swept,      \* whether this instance has reclaimed the orphaned pins
    request,    \* the request under way, if any
    at,         \* where the worker stands with the oldest row of its page
    page,       \* the rows of this pass that are not done with
    served,     \* the identities that row is executed with
    asked,      \* reprocess requests so far
    faults      \* failures so far

cache == <<entries, damaged, pins, leases, lost>>
database == <<seq, last, settled, frozen, revisions, head, derived>>
worker == <<at, page, served>>
counters == <<asked, faults>>
vars == <<entries, damaged, pins, leases, lost, seq, last, settled, frozen, revisions,
          head, derived, up, swept, request, at, page, served, asked, faults>>

Holders == {"worker", "handler"}
Outcomes == {"succeeded", "partial", "failed"}
Publishable == {"succeeded", "partial"}
Steps == {"idle", "assert", "lease", "admit", "extract", "derive", "settle", "release"}
Requests == [kind : {"capture", "reprocess"}, capture : Captures,
             selection : SUBSET Resources]
Revisions == [obligation : SUBSET Captures, with : SUBSET Resources,
              result : {"none", "succeeded", "partial", "withheld"}]

TypeOK ==
    /\ entries \in SUBSET Resources
    /\ damaged \in SUBSET Resources
    /\ pins \in [Captures -> SUBSET Resources]
    /\ leases \in [Holders -> SUBSET Resources]
    /\ lost \in SUBSET Resources
    /\ seq \in [Captures -> Nat]
    /\ last \in Nat
    /\ settled \in SUBSET Captures
    /\ frozen \in [Captures -> SUBSET Resources]
    /\ revisions \in Seq(Revisions)
    /\ head \in Nat
    /\ derived \in SUBSET Nat
    /\ up \in BOOLEAN
    /\ swept \in BOOLEAN
    /\ request \in SUBSET Requests
    /\ at \in Steps
    /\ page \in SUBSET Captures
    /\ served \in SUBSET Resources
    /\ asked \in Nat
    /\ faults \in Nat

Init ==
    /\ entries = {} /\ damaged = {} /\ lost = {}
    /\ pins = [c \in Captures |-> {}]
    /\ leases = [h \in Holders |-> {}]
    /\ seq = [c \in Captures |-> 0] /\ last = 0
    /\ settled = {}
    /\ frozen = [c \in Captures |-> {}]
    /\ revisions = <<>> /\ head = 0 /\ derived = {}
    /\ up = TRUE /\ swept = FALSE
    /\ request = {}
    /\ at = "idle" /\ page = {} /\ served = {}
    /\ asked = 0 /\ faults = 0

-----------------------------------------------------------------------------
(* What the steps have in common.                                          *)

\* One more failure; MaxFaults bounds them.
Fault == faults < MaxFaults /\ faults' = faults + 1

\* runner.sqlite_gate: nobody is in a request, or between completing and settling.
GateFree == up /\ request = {} /\ at \notin {"derive", "settle"}

Admitted(c) == seq[c] > 0

\* unsettled_capture_ids: the whole set, not a page of it.
Pending == {c \in Captures : Admitted(c) /\ c \notin settled}

\* The obligation the worker is on: the oldest of its page.
Working(c) == c \in page /\ \A d \in page : seq[c] <= seq[d]

\* _present: installed, with a payload of the identity's length in place.
Present == entries \ damaged

Pinned == UNION {pins[c] : c \in Captures}
Leased == UNION {leases[h] : h \in Holders}

\* _disposition: the outcome of the revision of ordinal i if it is promoted;
\* every other disposition (not_published, historical_only, superseded) keeps
\* the result and is "withheld" here.
Disposition(i, eligible, outcome) ==
    IF outcome \in Publishable /\ eligible /\ head <= i THEN outcome ELSE "withheld"

\* advance_extraction_head, for a promoted result only.
Publish(i, result) == head' = IF result = "withheld" THEN head ELSE i

\* Revision i is the one under this obligation's operation key.
Keyed(i, c) ==
    /\ i \in DOMAIN revisions
    /\ revisions[i].obligation = {c}
    /\ revisions[i].with = served

-----------------------------------------------------------------------------
(* Request handlers.  Each holds the gate from its first step to its last. *)

\* document.capture up to the pin.  A replay of an admitted capture returns
\* before it.  admitted_resources pins the whole selection, replacing what an
\* earlier attempt pinned, or, when a part of it is missing, pins nothing.
BeginCapture(c, selection) ==
    /\ GateFree
    /\ ~Admitted(c)
    /\ IF selection \subseteq Present
       THEN /\ pins' = [pins EXCEPT ![c] = selection]
            /\ request' = {[kind |-> "capture", capture |-> c, selection |-> selection]}
       ELSE /\ request' = {[kind |-> "capture", capture |-> c, selection |-> {}]}
            /\ UNCHANGED pins
    /\ UNCHANGED <<entries, damaged, leases, lost, database, up, swept, worker, counters>>

\* The transaction of the mutation commits the capture and its outbox row.
CommitCapture(c) ==
    /\ up
    /\ \E r \in request :
          /\ r.kind = "capture" /\ r.capture = c
          /\ frozen' = [frozen EXCEPT ![c] = r.selection]
    /\ seq' = [seq EXCEPT ![c] = last + 1]
    /\ last' = last + 1
    /\ request' = {}
    /\ UNCHANGED <<cache, settled, revisions, head, derived, up, swept, worker, counters>>

\* document.reprocess up to the transaction: the present part of the current
\* selection is leased, and the extraction runs under the gate.
BeginReprocess(c, selection) ==
    /\ GateFree
    /\ Admitted(c)
    /\ asked < MaxReprocess
    /\ asked' = asked + 1
    /\ leases' = [leases EXCEPT !["handler"] = selection \cap Present]
    /\ request' = {[kind |-> "reprocess", capture |-> c,
                    selection |-> selection \cap Present]}
    /\ UNCHANGED <<entries, damaged, pins, lost, database, up, swept, worker, faults>>

\* complete_reprocess_in_transaction: a revision with its result in one
\* transaction, eligible if the client's base is still the head.  Its operation
\* key is the client's, so no obligation ever finds it.
CommitReprocess(c, base, outcome) ==
    /\ up
    /\ LET i == Len(revisions) + 1
           d == Disposition(i, base = head, outcome)
       IN  /\ \E r \in request : r.kind = "reprocess" /\ r.capture = c
           /\ revisions' = Append(revisions,
                 [obligation |-> {}, with |-> {}, result |-> d])
           /\ Publish(i, d)
    /\ leases' = [leases EXCEPT !["handler"] = {}]
    /\ request' = {}
    /\ UNCHANGED <<entries, damaged, pins, lost, seq, last, settled, frozen, derived,
                   up, swept, worker, counters>>

\* The transaction of a request fails.  A pin already written stays.
RollbackRequest ==
    /\ up
    /\ request # {}
    /\ Fault
    /\ request' = {}
    /\ leases' = [leases EXCEPT !["handler"] = {}]
    /\ UNCHANGED <<entries, damaged, pins, lost, database, up, swept, worker, asked>>

-----------------------------------------------------------------------------
(* The worker: run_pending, on the main thread of the service.             *)

\* The worker is done with c and goes on to the next row of its page.
NextObligation(c) ==
    /\ page' = page \ {c}
    /\ at' = IF page \ {c} = {} THEN "idle" ELSE "assert"
    /\ served' = {}

\* Mutation of Sweep: the live set is read as the page of the worker.
SweepPage ==
    /\ GateFree /\ at = "idle" /\ ~swept
    /\ pins' = [c \in Captures |->
                  IF c \in Pending /\ \A d \in Pending : seq[c] <= seq[d]
                  THEN pins[c] ELSE {}]
    /\ swept' = TRUE
    /\ UNCHANGED <<entries, damaged, leases, lost, database, up, request, worker, counters>>

\* _reclaim_once, before a pass, once per instance: the pins no pending
\* capture holds are dropped, under the gate.
Sweep ==
    /\ GateFree /\ at = "idle" /\ ~swept
    /\ pins' = [c \in Captures |-> IF c \in Pending THEN pins[c] ELSE {}]
    /\ swept' = TRUE
    /\ UNCHANGED <<entries, damaged, leases, lost, database, up, request, worker, counters>>

\* pending_outbox: the oldest rows.  A pass whose sweep failed goes on without.
ReadPage ==
    /\ GateFree /\ at = "idle"
    /\ IF swept THEN UNCHANGED faults ELSE Fault
    /\ Pending # {}
    /\ page' = {c \in Pending :
                  Cardinality({d \in Pending : seq[d] < seq[c]}) < Budget}
    /\ at' = "assert"
    /\ UNCHANGED <<cache, database, up, swept, request, served, asked>>

\* assert_pinned, for a capture that froze resources.  Bytes that are gone are
\* a condition the extraction records; a missing pin skips the obligation.
AssertPinned(c) ==
    /\ up /\ at = "assert" /\ Working(c)
    /\ IF frozen[c] = {} \/ ~(frozen[c] \subseteq Present)
       THEN at' = "admit" /\ UNCHANGED <<page, served>>
       ELSE IF pins[c] # frozen[c]
       THEN NextObligation(c)
       ELSE at' = "lease" /\ UNCHANGED <<page, served>>
    /\ UNCHANGED <<cache, database, up, swept, request, counters>>

\* leased_selection, in a coordination block of its own.
TakeLease(c) ==
    /\ up /\ at = "lease" /\ Working(c)
    /\ at' = "admit"
    /\ IF frozen[c] \subseteq Present
       THEN /\ leases' = [leases EXCEPT !["worker"] = frozen[c]]
            /\ served' = frozen[c]
       ELSE UNCHANGED <<leases, served>>
    /\ UNCHANGED <<entries, damaged, pins, lost, database, up, swept, request, page, counters>>

\* Mutation of AdmitRevision: a completed revision is settled as it stands.
AdmitSettled(c) ==
    /\ GateFree /\ at = "admit" /\ Working(c)
    /\ IF \E i \in DOMAIN revisions : Keyed(i, c)
       THEN /\ at' = IF \E i \in DOMAIN revisions :
                            Keyed(i, c) /\ revisions[i].result # "none"
                     THEN "settle" ELSE "extract"
            /\ UNCHANGED revisions
       ELSE /\ revisions' = Append(revisions,
                  [obligation |-> {c}, with |-> served, result |-> "none"])
            /\ at' = "extract"
    /\ UNCHANGED <<cache, seq, last, settled, frozen, head, derived, up, swept, request,
                   page, served, counters>>

\* Mutation of AdmitRevision: the replay is left to admit_extraction, which
\* refuses a key whose request named another base, and the pass ends.
AdmitAgain(c) ==
    /\ GateFree /\ at = "admit" /\ Working(c)
    /\ IF \E i \in DOMAIN revisions : Keyed(i, c)
       THEN /\ IF \E i \in DOMAIN revisions : Keyed(i, c) /\ i = head
               THEN /\ at' = "idle" /\ page' = {} /\ served' = {}
                    /\ leases' = [leases EXCEPT !["worker"] = {}]
               ELSE at' = "extract" /\ UNCHANGED <<page, served, leases>>
            /\ UNCHANGED revisions
       ELSE /\ revisions' = Append(revisions,
                  [obligation |-> {c}, with |-> served, result |-> "none"])
            /\ at' = "extract"
            /\ UNCHANGED <<page, served, leases>>
    /\ UNCHANGED <<entries, damaged, pins, lost, seq, last, settled, frozen, head, derived,
                   up, swept, request, counters>>

\* _admitted_revision and the look at its result, under the gate.  A revision
\* that already stands under the key is this obligation's own; one that is
\* complete only remains to be derived from and settled.  A new one has the
\* head as its base, and is eligible because nobody can move it meanwhile.
AdmitRevision(c) ==
    /\ GateFree /\ at = "admit" /\ Working(c)
    /\ IF \E i \in DOMAIN revisions : Keyed(i, c)
       THEN /\ at' = IF \E i \in DOMAIN revisions :
                            Keyed(i, c) /\ revisions[i].result # "none"
                     THEN "derive" ELSE "extract"
            /\ UNCHANGED revisions
       ELSE /\ revisions' = Append(revisions,
                  [obligation |-> {c}, with |-> served, result |-> "none"])
            /\ at' = "extract"
    /\ UNCHANGED <<cache, seq, last, settled, frozen, head, derived, up, swept, request,
                   page, served, counters>>

\* extract_document runs without the gate; complete_extraction takes it and
\* keeps it up to the settlement.  The revision was eligible when admitted.
Complete(c, outcome) ==
    /\ GateFree /\ at = "extract" /\ Working(c)
    /\ \E i \in DOMAIN revisions :
          /\ Keyed(i, c)
          /\ LET d == Disposition(i, TRUE, outcome)
             IN  /\ revisions' = [revisions EXCEPT ![i].result = d]
                 /\ Publish(i, d)
    /\ at' = "derive"
    /\ UNCHANGED <<cache, seq, last, settled, frozen, derived, up, swept, request,
                   page, served, counters>>

\* _derive_knowledge: only from a succeeded, promoted result that is still the
\* head.  A refusal (DocumentKnowledgeRefused) is suppressed: the derivation was
\* run and has left no candidate.
Derive(c) ==
    /\ up /\ at = "derive" /\ Working(c)
    /\ derived' = derived \cup
          {i \in DOMAIN revisions : /\ Keyed(i, c)
                                    /\ revisions[i].result = "succeeded"
                                    /\ head = i}
    /\ at' = "settle"
    /\ UNCHANGED <<cache, seq, last, settled, frozen, revisions, head, up, swept, request,
                   page, served, counters>>

\* _settle, a transaction of its own.
Settle(c) ==
    /\ up /\ at = "settle" /\ Working(c)
    /\ settled' = settled \cup {c}
    /\ at' = "release"
    /\ UNCHANGED <<cache, seq, last, frozen, revisions, head, derived, up, swept, request,
                   page, served, counters>>

\* The lease ends with its block, and _release drops the pin; one that cannot
\* be dropped is left to the sweep of the next instance.
Release(c, dropped) ==
    /\ up /\ at = "release" /\ Working(c)
    /\ leases' = [leases EXCEPT !["worker"] = {}]
    /\ IF dropped THEN pins' = [pins EXCEPT ![c] = {}] /\ UNCHANGED faults
       ELSE Fault /\ UNCHANGED pins
    /\ NextObligation(c)
    /\ UNCHANGED <<entries, damaged, lost, database, up, swept, request, asked>>

\* A failed transaction ends the pass: run_pending swallows it, and the row
\* stays pending.
AbortPass ==
    /\ up /\ at \in {"admit", "extract", "derive", "settle"}
    /\ Fault
    /\ at' = "idle" /\ page' = {} /\ served' = {}
    /\ leases' = [leases EXCEPT !["worker"] = {}]
    /\ UNCHANGED <<entries, damaged, pins, lost, database, up, swept, request, asked>>

\* A cache that cannot be read (ResourceStateIndeterminate) skips the row.
SkipObligation(c) ==
    /\ up /\ at \in {"assert", "lease"} /\ Working(c)
    /\ Fault
    /\ NextObligation(c)
    /\ UNCHANGED <<cache, database, up, swept, request, asked>>

-----------------------------------------------------------------------------
(* The service dies and starts.  A lease is a lock of the process; a pin is *)
(* a record.                                                               *)

Crash ==
    /\ up
    /\ Fault
    /\ up' = FALSE
    /\ request' = {}
    /\ at' = "idle" /\ page' = {} /\ served' = {}
    /\ leases' = [h \in Holders |-> {}]
    /\ UNCHANGED <<entries, damaged, pins, lost, database, swept, asked>>

Start ==
    /\ ~up
    /\ up' = TRUE
    /\ swept' = FALSE
    /\ UNCHANGED <<cache, database, request, worker, counters>>

-----------------------------------------------------------------------------
(* Administrative operations on the cache, in processes of their own.      *)

\* _reclaimable: verified, unpinned and unleased.
Reclaimable == Present \ (Pinned \cup Leased)

\* _install publishes the bytes and then records the entry and the evictions in
\* one write.  Bytes no entry names, which an installer or a remover that dies
\* leaves, are read by nobody.
Install(e) ==
    /\ e \notin entries
    /\ \E victims \in SUBSET Reclaimable :
          /\ Cardinality(victims) = (IF Cardinality(entries) < Capacity THEN 0 ELSE 1)
          /\ entries' = (entries \ victims) \cup {e}
    /\ UNCHANGED <<damaged, pins, leases, lost, database, up, swept, request, worker,
                   counters>>

\* _remove refuses a pinned or a leased identity.
Remove(e) ==
    /\ e \in entries \ (Pinned \cup Leased)
    /\ entries' = entries \ {e}
    /\ damaged' = damaged \ {e}
    /\ UNCHANGED <<pins, leases, lost, database, up, swept, request, worker, counters>>

\* _reconcile drops the damaged entries that nobody pinned.
Reconcile ==
    /\ entries' = entries \ (damaged \ Pinned)
    /\ damaged' = damaged \cap Pinned
    /\ UNCHANGED <<pins, leases, lost, database, up, swept, request, worker, counters>>

\* A payload goes missing or changes its length on disk.  A lease covers the payload's inode,
\* so it no longer covers the identity.
LoseBytes(e) ==
    /\ e \in Present
    /\ Cardinality(lost) < MaxLosses
    /\ damaged' = damaged \cup {e}
    /\ lost' = lost \cup {e}
    /\ leases' = [h \in Holders |-> leases[h] \ {e}]
    /\ UNCHANGED <<entries, pins, database, up, swept, request, worker, counters>>

-----------------------------------------------------------------------------
FinishRequest ==
    \/ \E c \in Captures : CommitCapture(c)
    \/ \E c \in Captures, base \in 0..Len(revisions), o \in Outcomes :
          CommitReprocess(c, base, o)

Work ==
    \/ Sweep
    \/ ReadPage
    \/ \E c \in Captures : AssertPinned(c) \/ TakeLease(c) \/ AdmitRevision(c)
    \/ \E c \in Captures, o \in Outcomes : Complete(c, o)
    \/ \E c \in Captures : Derive(c) \/ Settle(c)
    \/ \E c \in Captures, dropped \in BOOLEAN : Release(c, dropped)

Ask ==
    \E c \in Captures, s \in Selections : BeginCapture(c, s) \/ BeginReprocess(c, s)

Fail ==
    \/ RollbackRequest
    \/ AbortPass
    \/ \E c \in Captures : SkipObligation(c)
    \/ \E e \in Resources : LoseBytes(e)
    \/ Crash

Administer ==
    \/ \E e \in Resources : Install(e) \/ Remove(e)
    \/ Reconcile

Next == Ask \/ FinishRequest \/ Work \/ Fail \/ Start \/ Administer

\* A request runs to its end, the main loop keeps running passes, and somebody
\* starts the service again.  Nothing is assumed of clients or administrators.
Fairness == WF_vars(FinishRequest) /\ WF_vars(Work) /\ WF_vars(Start)

Spec == Init /\ [][Next]_vars /\ Fairness

-----------------------------------------------------------------------------
(* Properties.                                                             *)

\* The order "pin, commit, settle, release" and the sweep leave no instant in
\* which an administrator could take the bytes of an unresolved capture: its
\* exact pin stands from its commit to its settlement, whatever rolled back,
\* crashed or was swept meanwhile; no pinned or leased identity leaves the
\* state document; and an installed identity without bytes was lost on disk.
HeldResourcesStay ==
    /\ \A c \in Pending : frozen[c] # {} => pins[c] = frozen[c]
    /\ Pinned \subseteq entries
    /\ Leased \subseteq Present
    /\ damaged \subseteq lost

\* A settled capture owes nothing.  Whatever pass was interrupted where, it has
\* a completed revision of its own; unless the bytes it names were lost in the
\* meantime it has exactly one, and the derivation of a succeeded and promoted
\* one was run, or a later extraction had replaced it.  And no promoted revision
\* is newer than the head.
SettledIsComplete ==
    LET Own(c) == {i \in DOMAIN revisions : revisions[i].obligation = {c}}
    IN  /\ \A c \in settled :
              /\ \E i \in Own(c) : revisions[i].result # "none"
              /\ frozen[c] \cap lost = {} =>
                    /\ \A i, j \in Own(c) : i = j
                    /\ \A i \in Own(c) : revisions[i].result = "succeeded"
                                          => i \in derived \/ head > i
        /\ \A i \in DOMAIN revisions :
              revisions[i].result \in Publishable => i <= head

\* An admitted capture is eventually settled: neither a crash, nor a failed
\* pass, nor a replay of what was already done, nor lost bytes strand it.
CapturesSettle == \A c \in Captures : Admitted(c) ~> c \in settled

=============================================================================
