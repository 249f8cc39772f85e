---------------------------- MODULE CatalogLock ----------------------------
(***************************************************************************)
(* The advisory lock that keeps the manager and the administrative         *)
(* commands off the same catalog (internal/catalog/lock.go, and            *)
(* AcquireLock in catalog.go).                                             *)
(*                                                                         *)
(* The lock is a flock(2) on the open file behind the path                 *)
(* <catalog>.lock, and Release unlinks that path.  The name and the inode  *)
(* are therefore separate things: a process may hold a lock on an inode    *)
(* the name no longer leads to.  Each system call is a step of its own, so *)
(* the steps of several processes interleave between any two of them.      *)
(*                                                                         *)
(* Covered: open, flock, the busy refusal, remove, unlock, close, and a    *)
(* process that dies at any point (os.Exit runs no deferred Release).      *)
(* Not covered: an open or a remove that fails for another reason, and     *)
(* what a holder does with the catalog.                                    *)
(***************************************************************************)
EXTENDS FiniteSets

CONSTANTS
    Procs,      \* processes that use the catalog: serve, migrate, commit
    Inodes,     \* files the lock path may lead to, reused once unreferenced
    NoInode,    \* the lock path does not exist, or no file is open
    NoProc      \* nobody holds the flock of an inode

ASSUME NoInodeAssumption == NoInode \notin Inodes
ASSUME NoProcAssumption  == NoProc \notin Procs

VARIABLES
    linked,     \* the inode the lock path leads to
    holder,     \* holder[i]: the process that has the exclusive flock of i
    file,       \* file[p]: the inode p has open, Lock.file
    pc,         \* where p is in acquireFlock and Release
    raced       \* history: since the last moment nobody had a lock file open,
                \* a Release unlinked one that another process had open

vars == <<linked, holder, file, pc, raced>>

Steps == {"idle", "opened", "held", "unlinked", "unlocked"}

TypeOK ==
    /\ linked \in Inodes \cup {NoInode}
    /\ holder \in [Inodes -> Procs \cup {NoProc}]
    /\ file \in [Procs -> Inodes \cup {NoInode}]
    /\ pc \in [Procs -> Steps]
    /\ \A p \in Procs : file[p] = NoInode <=> pc[p] = "idle"
    /\ raced \in BOOLEAN

Init ==
    /\ linked = NoInode
    /\ holder = [i \in Inodes |-> NoProc]
    /\ file = [p \in Procs |-> NoInode]
    /\ pc = [p \in Procs |-> "idle"]
    /\ raced = FALSE

(***************************************************************************)
(* System calls                                                            *)
(***************************************************************************)

\* A new file gets an inode that no name and no descriptor refers to.
Fresh(i) == i # linked /\ \A p \in Procs : file[p] # i

\* flock(LOCK_EX) on a free inode, and the release of whatever p holds, which
\* closing the last descriptor does as well as LOCK_UN.
Grant(p, i) == holder' = [holder EXCEPT ![i] = p]
DropFlock(p) ==
    holder' = [i \in Inodes |-> IF holder[i] = p THEN NoProc ELSE holder[i]]

\* close(2); with the last descriptor every trace of a race is gone.
Close(p) ==
    /\ file' = [file EXCEPT ![p] = NoInode]
    /\ raced' = (raced /\ \E q \in Procs \ {p} : file[q] # NoInode)

(***************************************************************************)
(* acquireFlock                                                            *)
(***************************************************************************)

\* Faulty variant of Open: always a new file, put in the old one's place.
Open_Replaces(p) ==
    /\ pc[p] = "idle"
    /\ \E i \in Inodes :
          /\ Fresh(i)
          /\ linked' = i
          /\ file' = [file EXCEPT ![p] = i]
    /\ pc' = [pc EXCEPT ![p] = "opened"]
    /\ UNCHANGED <<holder, raced>>

\* Faulty variant of Open: without O_CREATE, and its error ignored.
Open_NoCreate(p) ==
    /\ pc[p] = "idle"
    /\ linked' = linked
    /\ file' = [file EXCEPT ![p] = linked]
    /\ pc' = [pc EXCEPT ![p] = "opened"]
    /\ UNCHANGED <<holder, raced>>

\* os.OpenFile(lockPath, O_CREATE|O_RDWR): the linked file, or a new one.
Open(p) ==
    /\ pc[p] = "idle"
    /\ \E i \in Inodes :
          /\ IF linked = NoInode THEN Fresh(i) ELSE i = linked
          /\ linked' = i
          /\ file' = [file EXCEPT ![p] = i]
    /\ pc' = [pc EXCEPT ![p] = "opened"]
    /\ UNCHANGED <<holder, raced>>

\* Faulty variant of Flock: a shared lock (LOCK_SH), never refused.
Flock_Shared(p) ==
    /\ pc[p] = "opened"
    /\ Grant(p, file[p])
    /\ pc' = [pc EXCEPT ![p] = "held"]
    /\ UNCHANGED <<linked, file, raced>>

\* flock succeeds at once or not at all (LOCK_NB); it asks about the open
\* file, never about the path.
Flock(p) ==
    /\ pc[p] = "opened"
    /\ holder[file[p]] = NoProc
    /\ Grant(p, file[p])
    /\ pc' = [pc EXCEPT ![p] = "held"]
    /\ UNCHANGED <<linked, file, raced>>

\* EWOULDBLOCK: the descriptor is closed and the command refuses to run.
Busy(p) ==
    /\ pc[p] = "opened"
    /\ holder[file[p]] # NoProc
    /\ Close(p)
    /\ pc' = [pc EXCEPT ![p] = "idle"]
    /\ UNCHANGED <<linked, holder>>

(***************************************************************************)
(* Release                                                                 *)
(***************************************************************************)

\* os.Remove(path): by name, whichever inode the name leads to by now.
Remove(p) ==
    /\ pc[p] = "held"
    /\ linked' = NoInode
    /\ raced' = (raced \/ \E q \in Procs \ {p} : file[q] # NoInode /\ file[q] = linked)
    /\ pc' = [pc EXCEPT ![p] = "unlinked"]
    /\ UNCHANGED <<holder, file>>

\* flock(LOCK_UN)
Unlock(p) ==
    /\ pc[p] = "unlinked"
    /\ DropFlock(p)
    /\ pc' = [pc EXCEPT ![p] = "unlocked"]
    /\ UNCHANGED <<linked, file, raced>>

\* file.Close
CloseFile(p) ==
    /\ pc[p] = "unlocked"
    /\ Close(p)
    /\ pc' = [pc EXCEPT ![p] = "idle"]
    /\ UNCHANGED <<linked, holder>>

\* Faulty variant of Die: a lock record in the file, which outlives its owner.
Die_LockSurvives(p) ==
    /\ pc[p] # "idle"
    /\ Close(p)
    /\ pc' = [pc EXCEPT ![p] = "idle"]
    /\ UNCHANGED <<linked, holder>>

\* The process dies, or leaves through os.Exit: the kernel closes the
\* descriptor, and the lock file stays behind.
Die(p) ==
    /\ pc[p] # "idle"
    /\ DropFlock(p)
    /\ Close(p)
    /\ pc' = [pc EXCEPT ![p] = "idle"]
    /\ UNCHANGED linked

-----------------------------------------------------------------------------

Step(p) ==
    Open(p) \/ Flock(p) \/ Busy(p) \/ Remove(p) \/ Unlock(p) \/ CloseFile(p)

Next == \E p \in Procs : Step(p) \/ Die(p)

Spec == Init /\ [][Next]_vars

(***************************************************************************)
(* Properties                                                              *)
(***************************************************************************)

\* The catalog is in p's hands: AcquireLock returned and Release has not begun.
Holds(p) == pc[p] = "held"

\* lock.go:9-12 and 32-34: the lock is exclusive, so two processes never hold
\* the catalog together.
MutualExclusion ==
    \A p, q \in Procs : Holds(p) /\ Holds(q) => p = q

\* The lock is exclusive as long as no Release unlinks the path under a process
\* that has the file open: whatever else interleaves, and whoever dies where,
\* only that overlap can break it, and its effect ends with the overlap.
ExclusiveUnlessRaced == ~raced => MutualExclusion

\* As long as there is no such overlap, Release removes the file of its
\* own lock and never the file another process has locked in the meantime.
RemovesOwnFile ==
    [][\A p \in Procs :
          Holds(p) /\ pc'[p] = "unlinked" /\ ~raced => linked = file[p]]_vars

\* A lock file left behind by a process that died never shuts anybody out: the
\* flock of an inode is always some live process's, which still has it open.
StaleFileNeverBlocks ==
    \A i \in Inodes : holder[i] # NoProc =>
        /\ file[holder[i]] = i
        /\ pc[holder[i]] \in {"held", "unlinked"}

=============================================================================
