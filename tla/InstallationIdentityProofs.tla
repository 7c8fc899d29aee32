---------------------- MODULE InstallationIdentityProofs ----------------------
(* One whole installation identity, for any number of starts that do not     *)
(* overlap and any number of deaths inside load_or_create.                   *)
EXTENDS InstallationIdentity, TLAPS

-----------------------------------------------------------------------------
(* The inductive invariant *)

\* Starts do not overlap: one process at most is inside load_or_create.
OneInside == \A p, q \in Starters : Inside(p) /\ Inside(q) => p = q

\* Between its look and its rename a process finds no installation_id, and at
\* its rename the temporary name refers to a file that is written.
CreatorAlone ==
    \A p \in Starters :
        /\ pc[p] \in {"open", "write", "replace"} => path = Absent
        /\ pc[p] = "write" => temp # Absent /\ handle[p] = temp
        /\ pc[p] = "replace" => temp # Absent /\ bytes[temp] # ""
        /\ pc[p] = "reread" => path # Absent
        /\ pc[p] # "failed"

\* What the name refers to is a whole id, and what was returned is that id.
NameIsWhole == path # Absent => bytes[path] # ""
ReturnedIsNamed ==
    \A p \in Starters : Returned(p) => path # Absent /\ result[p] = bytes[path]

IdentityInv == TypeOK /\ OneInside /\ CreatorAlone /\ NameIsWhole /\ ReturnedIsNamed

-----------------------------------------------------------------------------
(* The steps *)

\* The count of deaths stays a number.
LEMMA CountStays == \A n \in Nat : n + 1 \in Nat
    OBVIOUS

\* Every operation on the two files keeps the domains.
LEMMA IdentityTypeStep == TypeOK /\ [Next]_vars => TypeOK'
<1> SUFFICES ASSUME TypeOK, [Next]_vars PROVE TypeOK'
    OBVIOUS
<1> USE DEF TypeOK, OptInode, Inodes, Contents
<1>1. CASE UNCHANGED vars
    BY <1>1 DEF vars
<1>2. ASSUME NEW p \in Starters, Look(p) PROVE TypeOK'
    BY <1>2 DEF Look
<1>3. ASSUME NEW p \in Starters, OpenTemporary(p) PROVE TypeOK'
    BY <1>3 DEF OpenTemporary
<1>4. ASSUME NEW p \in Starters, WriteTemporary(p) PROVE TypeOK'
    BY <1>4 DEF WriteTemporary
<1>5. ASSUME NEW p \in Starters, Replace(p) PROVE TypeOK'
    BY <1>5 DEF Replace
<1>6. ASSUME NEW p \in Starters, Reread(p) PROVE TypeOK'
    BY <1>6 DEF Reread
<1>7. ASSUME NEW p \in Starters, Crash(p) PROVE TypeOK'
  <2>1. crashes \in Nat /\ crashes' = crashes + 1
    BY <1>7 DEF Crash
  <2>2. crashes' \in Nat
    BY <2>1, CountStays, Zenon
  <2>3. QED
    BY <1>7, <2>2 DEF Crash
<1>8. QED
    BY <1>1, <1>2, <1>3, <1>4, <1>5, <1>6, <1>7 DEF Next, Step, Quiescent

\* With starts that do not overlap every step keeps the invariant: the one
\* process inside is the only one to write either name.
LEMMA IdentityStep ==
    ASSUME ~Overlapping, IdentityInv, [Next]_vars
    PROVE  OneInside' /\ CreatorAlone' /\ NameIsWhole' /\ ReturnedIsNamed'
<1> USE AbsentAssumption DEF IdentityInv, TypeOK, OptInode, Inodes, Contents, OneInside,
        CreatorAlone, NameIsWhole, ReturnedIsNamed, Inside, Returned
<1> DEFINE Kept == OneInside' /\ CreatorAlone' /\ NameIsWhole' /\ ReturnedIsNamed'
<1>1. CASE UNCHANGED vars
    BY <1>1 DEF vars
<1>2. ASSUME NEW p \in Starters, Look(p) PROVE Kept
  <2>1. /\ pc[p] = "start" /\ \A q \in Starters : ~Inside(q)
        /\ UNCHANGED <<path, temp, bytes, handle>>
    BY <1>2 DEF Look
  <2>2. CASE path # Absent
    <3>1. /\ result' = [result EXCEPT ![p] = bytes[path]]
          /\ pc' = [pc EXCEPT ![p] = "done"]
      BY <1>2, <2>2 DEF Look
    <3>2. \A q \in Starters : q # p => pc'[q] = pc[q] /\ result'[q] = result[q]
      BY <3>1
    <3>3. pc'[p] = "done" /\ result'[p] = bytes[path]
      BY <3>1
    <3>4. QED
      BY <2>1, <2>2, <3>2, <3>3
  <2>3. CASE path = Absent
    <3>1. result' = result /\ pc' = [pc EXCEPT ![p] = "open"]
      BY <1>2, <2>3 DEF Look
    <3>2. \A q \in Starters : q # p => pc'[q] = pc[q]
      BY <3>1
    <3>3. pc'[p] = "open"
      BY <3>1
    <3>4. QED
      BY <2>1, <2>3, <3>1, <3>2, <3>3
  <2>4. QED
    BY <2>2, <2>3
<1>3. ASSUME NEW p \in Starters, OpenTemporary(p) PROVE Kept
  <2> DEFINE inode == IF temp = Absent THEN p ELSE temp
  <2>1. /\ pc[p] = "open" /\ path' = path /\ result' = result
        /\ temp' = inode
        /\ pc' = [pc EXCEPT ![p] = "write"]
        /\ handle' = [handle EXCEPT ![p] = inode]
    BY <1>3 DEF OpenTemporary
  <2>2. inode # Absent /\ path = Absent
    BY <2>1
  <2>3. \A q \in Starters : q # p => pc'[q] = pc[q] /\ ~Inside(q)
    BY <2>1
  <2>4. pc'[p] = "write" /\ handle'[p] = temp'
    BY <2>1
  <2>5. QED
    BY <2>1, <2>2, <2>3, <2>4
<1>4. ASSUME NEW p \in Starters, WriteTemporary(p) PROVE Kept
    BY <1>4 DEF WriteTemporary
<1>5. ASSUME NEW p \in Starters, Replace(p) PROVE Kept
    BY <1>5 DEF Replace
<1>6. ASSUME NEW p \in Starters, Reread(p) PROVE Kept
    BY <1>6 DEF Reread
<1>7. ASSUME NEW p \in Starters, Crash(p) PROVE Kept
    BY <1>7 DEF Crash
<1>8. QED
    BY <1>1, <1>2, <1>3, <1>4, <1>5, <1>6, <1>7 DEF Next, Step, Quiescent

-----------------------------------------------------------------------------
(* The theorems *)

\* The invariant holds of every behaviour in which starts do not overlap.
LEMMA IdentityInductive ==
    ASSUME ~Overlapping PROVE Spec => []IdentityInv
<1>1. Init => IdentityInv
  <2>1. Init => crashes \in Nat
    <3>1. Init => crashes = 0
      BY DEF Init
    <3>2. QED
      BY <3>1
  <2>2. Init => TypeOK
    BY <2>1 DEF Init, TypeOK, OptInode, Inodes, Contents
  <2>3. Init => OneInside /\ CreatorAlone /\ NameIsWhole /\ ReturnedIsNamed
    BY DEF Init, OneInside, CreatorAlone, NameIsWhole, ReturnedIsNamed, Inside, Returned
  <2>4. QED
    BY <2>2, <2>3 DEF IdentityInv
<1>2. IdentityInv /\ [Next]_vars => IdentityInv'
    BY IdentityStep, IdentityTypeStep DEF IdentityInv
<1>3. QED
    BY <1>1, <1>2, PTL DEF Spec

\* Every start that returns, returns the id the first one returned, whatever
\* died half-way before it.
THEOREM SerialOneIdentity ==
    ASSUME ~Overlapping PROVE Spec => []OneIdentity
<1>1. IdentityInv => OneIdentity
    BY DEF IdentityInv, ReturnedIsNamed, OneIdentity
<1>2. QED
    BY <1>1, IdentityInductive, PTL

\* No start returns a partly written id, and none fails to find one.
THEOREM SerialWholeIdentity ==
    ASSUME ~Overlapping PROVE Spec => []NoPartialIdentity
<1>1. IdentityInv => NoPartialIdentity
    BY AbsentAssumption DEF IdentityInv, TypeOK, ReturnedIsNamed, NameIsWhole, CreatorAlone,
       NoPartialIdentity, Returned
<1>2. QED
    BY <1>1, IdentityInductive, PTL
=============================================================================
