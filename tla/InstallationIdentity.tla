-------------------------- MODULE InstallationIdentity --------------------------
(***************************************************************************)
(* InstallationIdentity.load_or_create (ownership/identity.py): several    *)
(* starting services read, or create once, the installation id of a        *)
(* runtime directory.  It runs before the storage lock is taken, so        *)
(* starts may overlap; all of them use the same temporary file name.  A    *)
(* name refers to an inode and an open file keeps its inode through a      *)
(* rename, as POSIX has it.                                                *)
(***************************************************************************)
EXTENDS Naturals

CONSTANTS
    Starters,     \* processes; each generates an id of its own
    Absent,       \* no inode under a name, no id yet
    Overlapping,  \* may a process start while another is inside load_or_create
    MaxCrashes    \* bound: processes that die inside load_or_create

ASSUME AbsentAssumption ==
    Absent \notin Starters /\ "" \notin Starters /\ Absent # ""
ASSUME OverlapAssumption == Overlapping \in BOOLEAN /\ MaxCrashes \in Nat

VARIABLES
    path,     \* inode under installation_id
    temp,     \* inode under installation_id's .tmp name
    bytes,    \* content of each inode: "" when truncated, else a starter's id
    pc,       \* where each process is
    handle,   \* inode each process has open for writing
    result,   \* id each process returned
    crashes

vars == <<path, temp, bytes, pc, handle, result, crashes>>

\* The first process to create an inode names it; a process creates at most one.
Inodes == Starters
OptInode == Inodes \cup {Absent}
Contents == Starters \cup {""}

Init ==
    /\ path = Absent /\ temp = Absent
    /\ bytes = [n \in Inodes |-> ""]
    /\ pc = [p \in Starters |-> "start"]
    /\ handle = [p \in Starters |-> Absent]
    /\ result = [p \in Starters |-> Absent]
    /\ crashes = 0

Inside(p) == pc[p] \in {"open", "write", "replace", "reread"}

\* Mutation of Look: an existing id is not looked at.
LookNot(p) ==
    /\ pc[p] = "start"
    /\ Overlapping \/ \A q \in Starters : ~Inside(q)
    /\ pc' = [pc EXCEPT ![p] = "open"]
    /\ UNCHANGED <<path, temp, bytes, handle, result, crashes>>

\* is_file and read_text: a non-empty file is the answer.
Look(p) ==
    /\ pc[p] = "start"
    /\ Overlapping \/ \A q \in Starters : ~Inside(q)
    /\ IF path # Absent /\ bytes[path] # ""
         THEN /\ result' = [result EXCEPT ![p] = bytes[path]]
              /\ pc' = [pc EXCEPT ![p] = "done"]
         ELSE /\ pc' = [pc EXCEPT ![p] = "open"]
              /\ UNCHANGED result
    /\ UNCHANGED <<path, temp, bytes, handle, crashes>>

\* Mutation of OpenTemporary: renamed before the value is flushed.
OpenTemporaryUnflushed(p) ==
    LET inode == IF temp = Absent THEN p ELSE temp IN
    /\ pc[p] = "open"
    /\ temp' = inode
    /\ bytes' = [bytes EXCEPT ![inode] = ""]
    /\ handle' = [handle EXCEPT ![p] = inode]
    /\ pc' = [pc EXCEPT ![p] = "replace"]
    /\ UNCHANGED <<path, result, crashes>>

\* write_text opens the temporary name, creating or truncating it.
OpenTemporary(p) ==
    LET inode == IF temp = Absent THEN p ELSE temp IN
    /\ pc[p] = "open"
    /\ temp' = inode
    /\ bytes' = [bytes EXCEPT ![inode] = ""]
    /\ handle' = [handle EXCEPT ![p] = inode]
    /\ pc' = [pc EXCEPT ![p] = "write"]
    /\ UNCHANGED <<path, result, crashes>>

\* The value reaches the file when the handle is closed; ids have one length.
WriteTemporary(p) ==
    /\ pc[p] = "write"
    /\ bytes' = [bytes EXCEPT ![handle[p]] = p]
    /\ handle' = [handle EXCEPT ![p] = Absent]
    /\ pc' = [pc EXCEPT ![p] = "replace"]
    /\ UNCHANGED <<path, temp, result, crashes>>

\* temporary.replace(path): renames whatever the temporary name refers to now;
\* the error when it refers to nothing is swallowed.
Replace(p) ==
    /\ pc[p] = "replace"
    /\ path' = IF temp = Absent THEN path ELSE temp
    /\ temp' = Absent
    /\ pc' = [pc EXCEPT ![p] = "reread"]
    /\ UNCHANGED <<bytes, handle, result, crashes>>

\* The id that is returned is read back, whatever it is; a file that is not
\* there raises.
Reread(p) ==
    /\ pc[p] = "reread"
    /\ IF path = Absent
         THEN pc' = [pc EXCEPT ![p] = "failed"] /\ UNCHANGED result
         ELSE /\ pc' = [pc EXCEPT ![p] = "done"]
              /\ result' = [result EXCEPT ![p] = bytes[path]]
    /\ UNCHANGED <<path, temp, bytes, handle, crashes>>

\* The process dies; both files stay as they are.
Crash(p) ==
    /\ Inside(p) /\ crashes < MaxCrashes
    /\ crashes' = crashes + 1
    /\ pc' = [pc EXCEPT ![p] = "dead"]
    /\ handle' = [handle EXCEPT ![p] = Absent]
    /\ UNCHANGED <<path, temp, bytes, result>>

Step(p) ==
    Look(p) \/ OpenTemporary(p) \/ WriteTemporary(p) \/ Replace(p) \/ Reread(p)

\* All processes have returned, failed or died.
Quiescent ==
    /\ \A p \in Starters : pc[p] \in {"done", "failed", "dead"}
    /\ UNCHANGED vars

Next == Quiescent \/ \E p \in Starters : Step(p) \/ Crash(p)

Spec == Init /\ [][Next]_vars

-----------------------------------------------------------------------------
(* Properties *)

\* Names, inodes and program points stay in their domains.
TypeOK ==
    /\ path \in OptInode /\ temp \in OptInode
    /\ bytes \in [Inodes -> Contents]
    /\ pc \in [Starters -> {"start", "open", "write", "replace", "reread",
                            "done", "failed", "dead"}]
    /\ handle \in [Starters -> OptInode]
    /\ result \in [Starters -> Contents \cup {Absent}]
    /\ crashes \in Nat

Returned(p) == result[p] # Absent

\* There is one installation identity: every start that returns, whatever died
\* half-way before it, returns the id the first one returned (load_or_create).
OneIdentity ==
    \A p, q \in Starters : Returned(p) /\ Returned(q) => result[p] = result[q]

\* No start returns a partially written identity, and none fails to find one
\* (load_or_create: "cannot observe a partially written identity").
NoPartialIdentity ==
    \A p \in Starters : result[p] # "" /\ pc[p] # "failed"
=============================================================================
