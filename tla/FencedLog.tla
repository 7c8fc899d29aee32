------------------------------ MODULE FencedLog ------------------------------
(***************************************************************************)
(* What workspace ownership promises: a log written by one owner at a      *)
(* time.  Every owner has an epoch of its own, larger than every earlier   *)
(* one; only the owner of the newest epoch appends, and an epoch that was  *)
(* given up or superseded never appends again.  No locks, processes,       *)
(* connections or rows.                                                    *)
(***************************************************************************)
EXTENDS Naturals, Sequences

CONSTANTS Owners, Nobody

VARIABLES
    epoch,    \* the newest epoch handed out
    owner,    \* its owner while it may append, else Nobody
    epochOf,  \* the epoch each owner was given (0: none)
    log       \* what was appended

vars == <<epoch, owner, epochOf, log>>

Init ==
    /\ epoch = 1
    /\ owner = Nobody
    /\ epochOf = [o \in Owners |-> 0]
    /\ log = <<>>

\* A new owner gets the next epoch; an owner gets one only once.
TakeOver(o) ==
    /\ epochOf[o] = 0
    /\ epoch' = epoch + 1
    /\ epochOf' = [epochOf EXCEPT ![o] = epoch + 1]
    /\ owner' = o
    /\ UNCHANGED log

\* The owner appends under its own epoch, which is the newest.
Write(o) ==
    /\ owner = o /\ epochOf[o] = epoch
    /\ log' = Append(log, [by |-> o, gen |-> epoch])
    /\ UNCHANGED <<epoch, owner, epochOf>>

\* The owner gives its epoch up for good.
Retire ==
    /\ owner # Nobody
    /\ owner' = Nobody
    /\ UNCHANGED <<epoch, epochOf, log>>

Next == Retire \/ \E o \in Owners : TakeOver(o) \/ Write(o)

Spec == Init /\ [][Next]_vars
=============================================================================
