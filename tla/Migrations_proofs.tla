------------------------- MODULE Migrations_proofs -------------------------
(***************************************************************************)
(* Proofs about Migrations, for any builds, any embedded migrations, any   *)
(* number of processes and any history found, with the lock or without it. *)
(***************************************************************************)
EXTENDS Migrations, FiniteSetTheorems, TLAPS

-----------------------------------------------------------------------------
(* The inductive invariant.                                                *)

\* The recorded history is a function of the versions, and nothing else.
AppliedIsFunction == applied = [v \in DOMAIN applied |-> applied[v]]

\* A process at work is one of some build.
WorkingHasBuild == \A p \in Procs : pc[p] # "idle" => build[p] \in Builds

\* While somebody migrates, the recorded versions have no gap.
Contiguous ==
    (\E p \in Procs : pc[p] = "migrating") => \E m \in Nat : DOMAIN applied = 1..m

\* What p has still to apply are the last of its migrations, and those before
\* them are recorded as p's own, whatever others have recorded after them.
OwnSoFar(p) ==
    \E k \in 0..Len(Embedded[build[p]]) :
        /\ pending[p] = (k + 1)..Len(Embedded[build[p]])
        /\ \A v \in 1..k : v \in DOMAIN applied /\ applied[v] = Embedded[build[p]][v]

MigratingOwn == \A p \in Procs : pc[p] = "migrating" => OwnSoFar(p)

\* Where the lock excludes, one process is at work.
Alone ==
    excludes => \A p, q \in Procs : pc[p] # "idle" /\ pc[q] # "idle" => p = q

\* Where it does, the version mark has not moved since it was read.
SeenIsCurrent ==
    excludes => \A p \in Procs : pc[p] = "opening" => seenVersion[p] = userVersion

IInv ==
    /\ TypeOK
    /\ AppliedIsFunction
    /\ WorkingHasBuild
    /\ SchemaIsRecorded
    /\ Contiguous
    /\ MigratingOwn
    /\ Alone
    /\ SeenIsCurrent
    /\ RunsOnOwnSchema

-----------------------------------------------------------------------------
(* Facts about the operators.                                              *)

\* A build's migrations are numbered from 1, and there is at least one.
LEMMA EmbeddedShape ==
    ASSUME NEW b \in Builds
    PROVE  /\ Len(Embedded[b]) \in Nat \ {0}
           /\ DOMAIN Embedded[b] = 1..Len(Embedded[b])
           /\ Embedded[b] = Prefix(b, Len(Embedded[b]))
           /\ \A v \in DOMAIN Embedded[b] : v \in Versions /\ Embedded[b][v] \in Checksums
<1>1. Embedded[b] \in Seq(Checksums) /\ Embedded[b] # <<>>
  BY MigrationsAssumption
<1>2. Len(Embedded[b]) \in Nat \ {0} /\ DOMAIN Embedded[b] = 1..Len(Embedded[b])
  BY <1>1
<1>3. Embedded[b] = Prefix(b, Len(Embedded[b]))
  BY <1>1, <1>2 DEF Prefix
<1>4. \A v \in DOMAIN Embedded[b] : v \in Versions
  BY DEF Versions
<1>5. QED
  BY <1>1, <1>2, <1>3, <1>4

\* Versions are numbers from 1.
LEMMA VersionsAreNumbers == Versions \subseteq Nat \ {0}
  BY EmbeddedShape DEF Versions

\* Recording a version adds it and leaves the others as they are.
LEMMA RecordedAdds ==
    ASSUME NEW p \in Procs, NEW v, Recorded(p, v)
    PROVE  /\ DOMAIN applied' = DOMAIN applied \cup {v}
           /\ applied'[v] = Embedded[build[p]][v]
           /\ \A w \in DOMAIN applied \ {v} : applied'[w] = applied[w]
           /\ applied' = [w \in DOMAIN applied' |-> applied'[w]]
           /\ userVersion' = v
  BY DEF Recorded

\* The next migration of a process that can run is the version after the last
\* one recorded, and everything recorded is that process's own.
LEMMA NextExtends ==
    ASSUME IInv, NEW p \in Procs, pc[p] = "migrating",
           NEW v \in pending[p], IsNext(p, v), Runs(v)
    PROVE  /\ v \in DOMAIN Embedded[build[p]]
           /\ pending[p] = v..Len(Embedded[build[p]])
           /\ DOMAIN applied = 1..(v - 1)
           /\ \A w \in 1..(v - 1) : applied[w] = Embedded[build[p]][w]
<1>1. build[p] \in Builds /\ schema = DOMAIN applied
  BY DEF IInv, WorkingHasBuild, SchemaIsRecorded
<1> DEFINE N == Len(Embedded[build[p]])
<1>2. N \in Nat /\ DOMAIN Embedded[build[p]] = 1..N
  BY <1>1, EmbeddedShape
<1>3. PICK k \in 0..N :
        /\ pending[p] = (k + 1)..N
        /\ \A w \in 1..k : w \in DOMAIN applied /\ applied[w] = Embedded[build[p]][w]
  BY DEF IInv, MigratingOwn, OwnSoFar
<1>4. v = k + 1 /\ v \in 1..N
  <2>1. v \in (k + 1)..N /\ \A w \in (k + 1)..N : v <= w
    BY <1>3 DEF IsNext
  <2>2. k + 1 \in (k + 1)..N
    BY <1>2, <2>1
  <2>3. QED
    BY <1>2, <2>1, <2>2
<1>5. PICK m \in Nat : DOMAIN applied = 1..m
  BY DEF IInv, Contiguous
<1>6. m = k
  <2>1. v \notin 1..m /\ (v = 1 \/ v - 1 \in 1..m)
    BY <1>1, <1>5 DEF Runs
  <2>2. QED
    BY <1>4, <1>5, <2>1
<1>7. QED
  BY <1>2, <1>3, <1>4, <1>5, <1>6

-----------------------------------------------------------------------------
(* The invariant holds at first, and every step keeps it.                  *)

LEMMA InitIInv == Init => IInv
<1> SUFFICES ASSUME Init PROVE IInv
  OBVIOUS
<1>1. PICK V \in SUBSET Versions : applied \in [V -> Checksums]
  BY DEF Init
<1>2. TypeOK /\ AppliedIsFunction /\ SchemaIsRecorded
  BY <1>1 DEF Init, TypeOK, AppliedIsFunction, SchemaIsRecorded
<1>3. WorkingHasBuild /\ Contiguous /\ MigratingOwn
  BY DEF Init, WorkingHasBuild, Contiguous, MigratingOwn
<1>4. Alone /\ SeenIsCurrent /\ RunsOnOwnSchema
  BY DEF Init, Alone, SeenIsCurrent, RunsOnOwnSchema
<1>5. QED
  BY <1>2, <1>3, <1>4 DEF IInv

LEMMA EnterStep ==
    ASSUME IInv, NEW p \in Procs, NEW b \in Builds, NEW step \in {"migrate", "open"},
           Enter(p, b, step)
    PROVE  IInv'
<1> USE DEF IInv, Enter, catalog
<1>1. TypeOK' /\ AppliedIsFunction' /\ WorkingHasBuild' /\ SchemaIsRecorded'
  BY DEF TypeOK, AppliedIsFunction, WorkingHasBuild, SchemaIsRecorded
<1>2. Contiguous' /\ MigratingOwn'
  BY DEF TypeOK, Contiguous, MigratingOwn, OwnSoFar
<1>3. Alone' /\ SeenIsCurrent' /\ RunsOnOwnSchema'
  BY DEF TypeOK, Alone, SeenIsCurrent, RunsOnOwnSchema
<1>4. QED
  BY <1>1, <1>2, <1>3

LEMMA LeaveStep == ASSUME IInv, NEW p \in Procs, Leave(p) PROVE IInv'
<1> USE DEF IInv, Leave, catalog
<1>1. TypeOK' /\ AppliedIsFunction' /\ WorkingHasBuild' /\ SchemaIsRecorded'
  BY DEF TypeOK, AppliedIsFunction, WorkingHasBuild, SchemaIsRecorded
<1>2. Contiguous' /\ MigratingOwn'
  <2>1. \A q \in Procs : pc'[q] = "migrating" =>
           q # p /\ pc[q] = "migrating" /\ pending'[q] = pending[q] /\ build'[q] = build[q]
    BY DEF TypeOK
  <2>2. Contiguous'
    BY <2>1 DEF Contiguous
  <2>3. MigratingOwn'
    BY <2>1 DEF MigratingOwn, OwnSoFar
  <2>4. QED
    BY <2>2, <2>3
<1>3. Alone' /\ SeenIsCurrent' /\ RunsOnOwnSchema'
  BY DEF TypeOK, Alone, SeenIsCurrent, RunsOnOwnSchema
<1>4. QED
  BY <1>1, <1>2, <1>3

LEMMA ReadHistoryStep == ASSUME IInv, NEW p \in Procs, ReadHistory(p) PROVE IInv'
<1> USE DEF IInv, ReadHistory, catalog
<1>1. build[p] \in Builds
  BY DEF WorkingHasBuild
<1> DEFINE E == Embedded[build[p]]
<1>2. Len(E) \in Nat /\ DOMAIN E = 1..Len(E) /\ DOMAIN E \subseteq Versions
  BY <1>1, EmbeddedShape
<1>3. PICK n \in 0..Len(E) : DOMAIN applied = 1..n
  BY DEF KnownHistory
<1>4. \A v \in DOMAIN applied : applied[v] = E[v]
  BY DEF KnownHistory
<1>5. TypeOK' /\ AppliedIsFunction' /\ WorkingHasBuild' /\ SchemaIsRecorded'
  BY <1>2 DEF TypeOK, AppliedIsFunction, WorkingHasBuild, SchemaIsRecorded
<1>6. Contiguous'
  BY <1>2, <1>3 DEF Contiguous
<1>7. MigratingOwn'
  <2>1. DOMAIN E \ DOMAIN applied = (n + 1)..Len(E)
    BY <1>2, <1>3
  <2>2. pending'[p] = (n + 1)..Len(E)
    BY <2>1 DEF TypeOK
  <2>3. OwnSoFar(p)'
    BY <1>2, <1>3, <1>4, <2>2 DEF OwnSoFar
  <2>4. ASSUME NEW q \in Procs, q # p, pc'[q] = "migrating" PROVE OwnSoFar(q)'
    BY <2>4 DEF TypeOK, MigratingOwn, OwnSoFar
  <2>5. QED
    BY <2>3, <2>4 DEF MigratingOwn
<1>8. Alone' /\ SeenIsCurrent' /\ RunsOnOwnSchema'
  BY DEF TypeOK, Alone, SeenIsCurrent, RunsOnOwnSchema
<1>9. QED
  BY <1>5, <1>6, <1>7, <1>8

LEMMA ApplyMigrationStep == ASSUME IInv, NEW p \in Procs, ApplyMigration(p) PROVE IInv'
<1>1. PICK v \in pending[p] :
        /\ pc[p] = "migrating" /\ IsNext(p, v) /\ Runs(v)
        /\ schema' = schema \cup {v}
        /\ Recorded(p, v)
        /\ pending' = [pending EXCEPT ![p] = @ \ {v}]
        /\ UNCHANGED <<excludes, pc, build, seenVersion>>
  BY DEF ApplyMigration
<1> DEFINE E == Embedded[build[p]]
<1>2. build[p] \in Builds
  BY <1>1 DEF IInv, WorkingHasBuild
<1>3. /\ Len(E) \in Nat /\ DOMAIN E = 1..Len(E)
      /\ \A w \in DOMAIN E : w \in Versions /\ E[w] \in Checksums
  BY <1>2, EmbeddedShape
<1>4. /\ v \in DOMAIN E /\ pending[p] = v..Len(E)
      /\ DOMAIN applied = 1..(v - 1)
      /\ \A w \in 1..(v - 1) : applied[w] = E[w]
  BY <1>1, NextExtends
<1>5. /\ DOMAIN applied' = DOMAIN applied \cup {v}
      /\ applied'[v] = E[v]
      /\ \A w \in DOMAIN applied \ {v} : applied'[w] = applied[w]
      /\ applied' = [w \in DOMAIN applied' |-> applied'[w]]
      /\ userVersion' = v
  BY <1>1, RecordedAdds
<1>6. v \notin DOMAIN applied
  BY <1>3, <1>4
<1>7. TypeOK'
  <2>1. DOMAIN applied' \subseteq Versions
    BY <1>3, <1>4, <1>5 DEF IInv, TypeOK
  <2>2. \A w \in DOMAIN applied' : applied'[w] \in Checksums
    BY <1>3, <1>4, <1>5 DEF IInv, TypeOK
  <2>3. QED
    BY <1>1, <1>3, <1>4, <1>5, <2>1, <2>2 DEF IInv, TypeOK
<1>8. AppliedIsFunction' /\ WorkingHasBuild' /\ SchemaIsRecorded'
  BY <1>1, <1>5 DEF IInv, AppliedIsFunction, WorkingHasBuild, SchemaIsRecorded
<1>9. Contiguous'
  <2>1. DOMAIN applied' = 1..v /\ v \in Nat
    BY <1>3, <1>4, <1>5
  <2>2. QED
    BY <2>1 DEF Contiguous
<1>10. MigratingOwn'
  <2>1. OwnSoFar(p)'
    <3>1. pending'[p] = (v + 1)..Len(E) /\ v \in 0..Len(E)
      BY <1>1, <1>3, <1>4 DEF IInv, TypeOK
    <3>2. \A w \in 1..v : w \in DOMAIN applied' /\ applied'[w] = E[w]
      BY <1>3, <1>4, <1>5
    <3>3. QED
      BY <1>1, <3>1, <3>2 DEF OwnSoFar
  <2>2. ASSUME NEW q \in Procs, q # p, pc'[q] = "migrating" PROVE OwnSoFar(q)'
    <3>1. PICK k \in 0..Len(Embedded[build[q]]) :
            /\ pending[q] = (k + 1)..Len(Embedded[build[q]])
            /\ \A w \in 1..k : w \in DOMAIN applied /\ applied[w] = Embedded[build[q]][w]
      BY <1>1, <2>2 DEF IInv, MigratingOwn, OwnSoFar
    <3>2. \A w \in 1..k : w \in DOMAIN applied' /\ applied'[w] = Embedded[build[q]][w]
      BY <1>5, <1>6, <3>1
    <3>3. pending'[q] = pending[q] /\ build'[q] = build[q]
      BY <1>1, <2>2 DEF IInv, TypeOK
    <3>4. QED
      BY <3>1, <3>2, <3>3 DEF OwnSoFar
  <2>3. QED
    BY <2>1, <2>2 DEF MigratingOwn
<1>11. Alone' /\ SeenIsCurrent' /\ RunsOnOwnSchema'
  <2>1. excludes => \A q \in Procs : pc[q] # "idle" => q = p
    BY <1>1 DEF IInv, Alone
  <2>2. QED
    BY <1>1, <2>1 DEF IInv, Alone, SeenIsCurrent, RunsOnOwnSchema
<1>12. QED
  BY <1>7, <1>8, <1>9, <1>10, <1>11 DEF IInv

LEMMA ReadUserVersionStep == ASSUME IInv, NEW p \in Procs, ReadUserVersion(p) PROVE IInv'
<1> USE DEF IInv, ReadUserVersion, catalog
<1>1. TypeOK' /\ AppliedIsFunction' /\ WorkingHasBuild' /\ SchemaIsRecorded'
  BY DEF TypeOK, AppliedIsFunction, WorkingHasBuild, SchemaIsRecorded
<1>2. Contiguous' /\ MigratingOwn'
  BY DEF TypeOK, Contiguous, MigratingOwn, OwnSoFar
<1>3. Alone' /\ SeenIsCurrent' /\ RunsOnOwnSchema'
  BY DEF TypeOK, Alone, SeenIsCurrent, RunsOnOwnSchema
<1>4. QED
  BY <1>1, <1>2, <1>3

LEMMA OpenStep == ASSUME IInv, NEW p \in Procs, Open(p) PROVE IInv'
<1> USE DEF IInv, Open, catalog
<1>1. build[p] \in Builds
  BY DEF WorkingHasBuild
<1> DEFINE E == Embedded[build[p]]
<1>2. Len(E) \in Nat /\ E = Prefix(build[p], Len(E))
  BY <1>1, EmbeddedShape
<1>3. applied = E
  <2>1. PICK n \in 0..Len(E) : DOMAIN applied = 1..n
    BY DEF KnownHistory
  <2>2. Cardinality(1..n) = n
    BY <1>2, <2>1, FS_Interval
  <2>3. DOMAIN applied = 1..Len(E)
    BY <2>1, <2>2
  <2>4. \A v \in DOMAIN applied : applied[v] = E[v]
    BY DEF KnownHistory
  <2>5. QED
    BY <1>2, <2>3, <2>4 DEF AppliedIsFunction, Prefix
<1>4. TypeOK' /\ AppliedIsFunction' /\ WorkingHasBuild' /\ SchemaIsRecorded'
  BY DEF TypeOK, AppliedIsFunction, WorkingHasBuild, SchemaIsRecorded
<1>5. Contiguous' /\ MigratingOwn'
  BY DEF TypeOK, Contiguous, MigratingOwn, OwnSoFar
<1>6. Alone' /\ SeenIsCurrent'
  BY DEF TypeOK, Alone, SeenIsCurrent
<1>7. RunsOnOwnSchema'
  BY <1>3 DEF TypeOK, SeenIsCurrent, RunsOnOwnSchema
<1>8. QED
  BY <1>4, <1>5, <1>6, <1>7

LEMMA StepIInv == IInv /\ [Next]_vars => IInv'
<1> SUFFICES ASSUME IInv, [Next]_vars PROVE IInv'
  OBVIOUS
<1>1. ASSUME NEW p \in Procs, Step(p) PROVE IInv'
  BY <1>1, EnterStep, LeaveStep, ReadHistoryStep, ApplyMigrationStep,
     ReadUserVersionStep, OpenStep DEF Step
<1>2. CASE UNCHANGED vars
  BY <1>2 DEF vars, catalog, IInv, TypeOK, AppliedIsFunction, WorkingHasBuild,
              SchemaIsRecorded, Contiguous, MigratingOwn, OwnSoFar, Alone,
              SeenIsCurrent, RunsOnOwnSchema
<1>3. QED
  BY <1>1, <1>2 DEF Next

LEMMA Inductive == Spec => []IInv
  BY InitIInv, StepIInv, PTL DEF Spec

-----------------------------------------------------------------------------
(* The theorems.                                                           *)

\* Every variable keeps its type, whatever history the catalog came with.
THEOREM TypeCorrect == Spec => []TypeOK
<1>1. IInv => TypeOK
  BY DEF IInv
<1>2. QED
  BY Inductive, <1>1, PTL

\* applyMigration is one transaction: no crash and no rival leaves SQL that has
\* taken effect without its record, or a record without its SQL.
THEOREM SchemaAlwaysRecorded == Spec => []SchemaIsRecorded
<1>1. IInv => SchemaIsRecorded
  BY DEF IInv
<1>2. QED
  BY Inductive, <1>1, PTL

\* OpenRuntime: what a running process has opened stays its build's schema, as
\* long as the catalog lock excludes.
THEOREM RuntimeKeepsSchema == Spec => []RunsOnOwnSchema
<1>1. IInv => RunsOnOwnSchema
  BY DEF IInv
<1>2. QED
  BY Inductive, <1>1, PTL

\* Migrate only ever makes a prefix of its own build's migrations one longer,
\* even when another migrate works on the same catalog.
THEOREM MigrateExtendsOwnHistory == Spec => ExtendsOwnHistory
<1> DEFINE Extends ==
      applied' # applied =>
         \E b \in Builds : \E n \in DOMAIN Embedded[b] :
             /\ applied = Prefix(b, n - 1)
             /\ applied' = Prefix(b, n)
             /\ userVersion' = n
<1>1. ASSUME IInv, [Next]_vars PROVE [Extends]_vars
  <2>1. ASSUME NEW p \in Procs, ApplyMigration(p) PROVE Extends
    <3>1. PICK v \in pending[p] :
            pc[p] = "migrating" /\ IsNext(p, v) /\ Runs(v) /\ Recorded(p, v)
      BY <2>1 DEF ApplyMigration
    <3>2. build[p] \in Builds
      BY <1>1, <3>1 DEF IInv, WorkingHasBuild
    <3>3. Len(Embedded[build[p]]) \in Nat /\
          DOMAIN Embedded[build[p]] = 1..Len(Embedded[build[p]])
      BY <3>2, EmbeddedShape
    <3>4. /\ v \in DOMAIN Embedded[build[p]]
          /\ DOMAIN applied = 1..(v - 1)
          /\ \A w \in 1..(v - 1) : applied[w] = Embedded[build[p]][w]
      BY <1>1, <3>1, NextExtends
    <3>5. applied = Prefix(build[p], v - 1)
      BY <1>1, <3>4 DEF IInv, AppliedIsFunction, Prefix
    <3>6. applied' = Prefix(build[p], v) /\ userVersion' = v
      <4>1. /\ DOMAIN applied' = DOMAIN applied \cup {v}
            /\ applied'[v] = Embedded[build[p]][v]
            /\ \A w \in DOMAIN applied \ {v} : applied'[w] = applied[w]
            /\ applied' = [w \in DOMAIN applied' |-> applied'[w]]
            /\ userVersion' = v
        BY <3>1, RecordedAdds
      <4>2. DOMAIN applied' = 1..v
        BY <3>3, <3>4, <4>1
      <4>3. \A w \in 1..v : applied'[w] = Embedded[build[p]][w]
        BY <3>3, <3>4, <4>1, <4>2
      <4>4. QED
        BY <4>1, <4>2, <4>3 DEF Prefix
    <3>7. QED
      BY <3>2, <3>4, <3>5, <3>6
  <2>2. ASSUME NEW p \in Procs, Step(p), ~ApplyMigration(p) PROVE applied' = applied
    BY <2>2 DEF Step, Enter, ReadHistory, ReadUserVersion, Open, Leave, catalog
  <2>3. QED
    BY <1>1, <2>1, <2>2 DEF Next
<1>2. QED
  BY Inductive, <1>1, PTL DEF Spec, ExtendsOwnHistory

=============================================================================
