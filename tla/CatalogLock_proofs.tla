------------------------- MODULE CatalogLock_proofs -------------------------
(***************************************************************************)
(* Proofs about CatalogLock, for any number of processes.                  *)
(***************************************************************************)
EXTENDS CatalogLock, TLAPS

-----------------------------------------------------------------------------
(* The inductive invariant.                                                *)

\* Between its flock and its unlock a process is the holder of its file.
HolderHolds ==
    \A p \in Procs : pc[p] \in {"held", "unlinked"} => holder[file[p]] = p

\* Without a race, whoever is about to lock or holds the lock has the file the
\* path leads to: no one can be stranded on an orphan.
NobodyStranded ==
    ~raced => \A p \in Procs : pc[p] \in {"opened", "held"} => file[p] = linked

IInv ==
    /\ TypeOK
    /\ HolderHolds
    /\ StaleFileNeverBlocks
    /\ NobodyStranded

-----------------------------------------------------------------------------

LEMMA InitIInv == Init => IInv
  BY NoInodeAssumption, NoProcAssumption
     DEF Init, IInv, TypeOK, Steps, HolderHolds,
         StaleFileNeverBlocks, NobodyStranded

LEMMA StepIInv == IInv /\ [Next]_vars => IInv'
<1> SUFFICES ASSUME IInv, [Next]_vars PROVE IInv'
  OBVIOUS
<1> USE NoInodeAssumption, NoProcAssumption
<1> USE DEF IInv, TypeOK, Steps, HolderHolds,
            StaleFileNeverBlocks, NobodyStranded
<1>1. ASSUME NEW p \in Procs, Open(p) PROVE IInv'
  BY <1>1 DEF Open, Fresh
<1>2. ASSUME NEW p \in Procs, Flock(p) PROVE IInv'
  BY <1>2 DEF Flock, Grant
<1>3. ASSUME NEW p \in Procs, Busy(p) PROVE IInv'
  BY <1>3 DEF Busy, Close
<1>4. ASSUME NEW p \in Procs, Remove(p) PROVE IInv'
  <2>1. TypeOK'
    <3>1. raced' \in BOOLEAN
      BY <1>4 DEF Remove
    <3>2. QED
      BY <1>4, <3>1 DEF Remove
  <2>2. HolderHolds' /\ StaleFileNeverBlocks'
    BY <1>4 DEF Remove
  <2>3. NobodyStranded'
    <3>1. SUFFICES ASSUME ~raced', NEW q \in Procs, pc'[q] \in {"opened", "held"}
                   PROVE FALSE
      BY DEF NobodyStranded
    <3>2. q # p /\ pc[q] \in {"opened", "held"}
      BY <1>4, <3>1 DEF Remove
    <3>3. ~raced /\ ~(file[q] # NoInode /\ file[q] = linked)
      BY <1>4, <3>1, <3>2 DEF Remove
    <3>4. QED
      BY <3>2, <3>3
  <2>4. QED
    BY <2>1, <2>2, <2>3
<1>5. ASSUME NEW p \in Procs, Unlock(p) PROVE IInv'
  BY <1>5 DEF Unlock, DropFlock
<1>6. ASSUME NEW p \in Procs, CloseFile(p) PROVE IInv'
  BY <1>6 DEF CloseFile, Close
<1>7. ASSUME NEW p \in Procs, Die(p) PROVE IInv'
  BY <1>7 DEF Die, DropFlock, Close
<1>8. CASE UNCHANGED vars
  BY <1>8 DEF vars
<1>9. QED
  BY <1>1, <1>2, <1>3, <1>4, <1>5, <1>6, <1>7, <1>8 DEF Next, Step

LEMMA Inductive == Spec => []IInv
  BY InitIInv, StepIInv, PTL DEF Spec

-----------------------------------------------------------------------------

\* Every variable keeps its type (the state of lock.go's two functions).
THEOREM TypeCorrect == Spec => []TypeOK
<1>1. IInv => TypeOK
  BY DEF IInv
<1>2. QED
  BY <1>1, Inductive, PTL

\* AcquireLock is exclusive for any number of processes, deaths included,
\* except while a Release has raced with another process's open file.
THEOREM ExclusiveOutsideRaces == Spec => []ExclusiveUnlessRaced
<1>1. IInv => ExclusiveUnlessRaced
  BY NoInodeAssumption
     DEF IInv, ExclusiveUnlessRaced, MutualExclusion, Holds, NobodyStranded,
         HolderHolds
<1>2. QED
  BY <1>1, Inductive, PTL

\* No lock file a dead process left behind shuts a later process out.
THEOREM StaleFileHarmless == Spec => []StaleFileNeverBlocks
<1>1. IInv => StaleFileNeverBlocks
  BY DEF IInv
<1>2. QED
  BY <1>1, Inductive, PTL

\* Release's remove by name hits the releasing process's own file, except while
\* a Release has raced with another process's open file.
THEOREM ReleaseRemovesOwnFile == Spec => RemovesOwnFile
<1>1. IInv => [\A p \in Procs :
                 Holds(p) /\ pc'[p] = "unlinked" /\ ~raced => linked = file[p]]_vars
  BY DEF IInv, NobodyStranded, Holds
<1>2. QED
  BY <1>1, Inductive, PTL DEF RemovesOwnFile

=============================================================================
