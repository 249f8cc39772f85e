----------------------------- MODULE Migrations -----------------------------
(***************************************************************************)
(* The schema history of the catalog (internal/catalog/catalog.go): the    *)
(* migrate command, which extends it, and OpenRuntime, by which serve and  *)
(* commit refuse a catalog that is not exactly theirs.                     *)
(*                                                                         *)
(* Several builds of the program may be in use at once, and what they find *)
(* may be anybody's work: an older or newer build's, a fork's, a restored  *)
(* or edited file.  A process dies wherever it likes.  Reads of the        *)
(* history are steps of their own; a transaction is one step (SQLite).     *)
(*                                                                         *)
(* Covered: Migrate, readAppliedMigrations, verifyKnownHistory,            *)
(* applyMigration, OpenRuntime and verifySchema.  Not covered: what the    *)
(* tables are, beyond whether a migration's SQL has taken effect, and a    *)
(* file SQLite itself finds damaged.                                       *)
(***************************************************************************)
EXTENDS Naturals, Sequences, FiniteSets

CONSTANTS
    Procs,
    Builds,         \* builds of the program
    Embedded,       \* Embedded[b]: checksums of b's migrations, by version
    Checksums,
    NoBuild         \* a process that runs nothing

ASSUME MigrationsAssumption ==
    /\ Embedded \in [Builds -> Seq(Checksums) \ {<<>>}]
    /\ NoBuild \notin Builds

VARIABLES
    applied,        \* schema_migrations: the checksum of each recorded version
    schema,         \* versions whose SQL has taken effect
    userVersion,    \* PRAGMA user_version
    excludes,       \* the catalog lock does exclude (module CatalogLock: it need not)
    pc, build, pending, seenVersion

catalog == <<applied, schema, userVersion>>
vars == <<catalog, excludes, pc, build, pending, seenVersion>>

Versions == UNION {DOMAIN Embedded[b] : b \in Builds}

TypeOK ==
    /\ DOMAIN applied \subseteq Versions
    /\ \A v \in DOMAIN applied : applied[v] \in Checksums
    /\ schema \subseteq Versions
    /\ userVersion \in Versions \cup {0}
    /\ excludes \in BOOLEAN
    /\ pc \in [Procs -> {"idle", "migrate", "migrating", "open", "opening", "runtime"}]
    /\ build \in [Procs -> Builds \cup {NoBuild}]
    /\ pending \in [Procs -> SUBSET Versions]
    /\ seenVersion \in [Procs -> Versions \cup {0}]

\* Any recorded history may be there, sound or not.
Init ==
    /\ applied \in UNION {[V -> Checksums] : V \in SUBSET Versions}
    /\ schema = DOMAIN applied
    /\ userVersion \in Versions \cup {0}
    /\ excludes \in BOOLEAN
    /\ pc = [p \in Procs |-> "idle"]
    /\ build = [p \in Procs |-> NoBuild]
    /\ pending = [p \in Procs |-> {}]
    /\ seenVersion = [p \in Procs |-> 0]

\* verifyKnownHistory: every recorded version is embedded, with its checksum,
\* and they are 1..N.
KnownHistory(history, b) ==
    /\ \A v \in DOMAIN history : v \in DOMAIN Embedded[b] /\ history[v] = Embedded[b][v]
    /\ \E n \in 0..Len(Embedded[b]) : DOMAIN history = 1..n

\* AcquireLock.
Enter(p, b, step) ==
    /\ pc[p] = "idle"
    /\ excludes => \A q \in Procs : pc[q] = "idle"
    /\ pc' = [pc EXCEPT ![p] = step]
    /\ build' = [build EXCEPT ![p] = b]
    /\ UNCHANGED <<catalog, excludes, pending, seenVersion>>

\* The command is over: done, refused, or dead.  The lock goes with it.
Leave(p) ==
    /\ pc[p] # "idle"
    /\ pc' = [pc EXCEPT ![p] = "idle"]
    /\ build' = [build EXCEPT ![p] = NoBuild]
    /\ pending' = [pending EXCEPT ![p] = {}]
    /\ seenVersion' = [seenVersion EXCEPT ![p] = 0]
    /\ UNCHANGED <<catalog, excludes>>

(***************************************************************************)
(* Migrate                                                                 *)
(***************************************************************************)

\* Faulty variant of ReadHistory: one migration past the last is pending.
ReadHistory_PastEnd(p) ==
    /\ pc[p] = "migrate" /\ KnownHistory(applied, build[p])
    /\ pc' = [pc EXCEPT ![p] = "migrating"]
    /\ pending' = [pending EXCEPT ![p] = 1..(Len(Embedded[build[p]]) + 1) \ DOMAIN applied]
    /\ UNCHANGED <<catalog, excludes, build, seenVersion>>

\* The history is read and verified once; what it lacks is to be applied.
ReadHistory(p) ==
    /\ pc[p] = "migrate" /\ KnownHistory(applied, build[p])
    /\ pc' = [pc EXCEPT ![p] = "migrating"]
    /\ pending' = [pending EXCEPT ![p] = DOMAIN Embedded[build[p]] \ DOMAIN applied]
    /\ UNCHANGED <<catalog, excludes, build, seenVersion>>

\* The SQL of a migration builds on the one before, and fails when it has run.
Runs(v) == v \notin schema /\ (v = 1 \/ v - 1 \in schema)

Recorded(p, v) ==
    /\ applied' = [w \in DOMAIN applied \cup {v} |->
                    IF w = v THEN Embedded[build[p]][v] ELSE applied[w]]
    /\ userVersion' = v

\* The pending migrations are applied in order.
IsNext(p, v) == v \in pending[p] /\ \A w \in pending[p] : v <= w

\* Faulty variant of ApplyMigration: the record is no part of the transaction.
ApplyMigration_Split(p) ==
    \E v \in pending[p] :
        /\ pc[p] = "migrating" /\ IsNext(p, v)
        /\ Runs(v)
        /\ schema' = schema \cup {v}
        /\ Recorded(p, v) \/ UNCHANGED <<applied, userVersion>>
        /\ pending' = [pending EXCEPT ![p] = @ \ {v}]
        /\ UNCHANGED <<excludes, pc, build, seenVersion>>

\* Faulty variant of ApplyMigration: CREATE TABLE IF NOT EXISTS, INSERT OR REPLACE.
ApplyMigration_Lenient(p) ==
    \E v \in pending[p] :
        /\ pc[p] = "migrating" /\ IsNext(p, v)
        /\ schema' = schema \cup {v}
        /\ Recorded(p, v)
        /\ pending' = [pending EXCEPT ![p] = @ \ {v}]
        /\ UNCHANGED <<excludes, pc, build, seenVersion>>

\* applyMigration: SQL, record and user_version in one transaction.  When the
\* SQL fails nothing is left of it and the command ends (Leave).
ApplyMigration(p) ==
    \E v \in pending[p] :
        /\ pc[p] = "migrating" /\ IsNext(p, v)
        /\ Runs(v)
        /\ schema' = schema \cup {v}
        /\ Recorded(p, v)
        /\ pending' = [pending EXCEPT ![p] = @ \ {v}]
        /\ UNCHANGED <<excludes, pc, build, seenVersion>>

(***************************************************************************)
(* OpenRuntime                                                             *)
(***************************************************************************)

ReadUserVersion(p) ==
    /\ pc[p] = "open"
    /\ seenVersion' = [seenVersion EXCEPT ![p] = userVersion]
    /\ pc' = [pc EXCEPT ![p] = "opening"]
    /\ UNCHANGED <<catalog, excludes, build, pending>>

\* Faulty variant of Open: a catalog that is behind is served as well.
Open_Older(p) ==
    /\ pc[p] = "opening"
    /\ KnownHistory(applied, build[p])
    /\ pc' = [pc EXCEPT ![p] = "runtime"]
    /\ UNCHANGED <<catalog, excludes, build, pending, seenVersion>>

\* verifySchema: the version and the history are this build's, to the last one.
Open(p) ==
    /\ pc[p] = "opening"
    /\ seenVersion[p] = Len(Embedded[build[p]])
    /\ Cardinality(DOMAIN applied) = Len(Embedded[build[p]])
    /\ KnownHistory(applied, build[p])
    /\ pc' = [pc EXCEPT ![p] = "runtime"]
    /\ UNCHANGED <<catalog, excludes, build, pending, seenVersion>>

-----------------------------------------------------------------------------

Step(p) ==
    \/ \E b \in Builds, step \in {"migrate", "open"} : Enter(p, b, step)
    \/ ReadHistory(p) \/ ApplyMigration(p)
    \/ ReadUserVersion(p) \/ Open(p)
    \/ Leave(p)

Next == \E p \in Procs : Step(p)

Spec == Init /\ [][Next]_vars

(***************************************************************************)
(* Properties                                                              *)
(***************************************************************************)

Prefix(b, n) == [v \in 1..n |-> Embedded[b][v]]

\* catalog.go:179-181: whatever history a catalog came with, and with the lock or
\* without it, migrate only ever makes a prefix of some build's migrations one
\* longer, and leaves the version mark at its end.
ExtendsOwnHistory ==
    [][applied' # applied =>
         \E b \in Builds : \E n \in DOMAIN Embedded[b] :
             /\ applied = Prefix(b, n - 1)
             /\ applied' = Prefix(b, n)
             /\ userVersion' = n]_vars

\* catalog.go:214-216: no crash leaves a schema the history does not tell of.
SchemaIsRecorded == schema = DOMAIN applied

\* catalog.go:235-236, main.go:96-97: a process that has opened the catalog runs
\* on the schema of its own build, for as long as it runs, if the lock excludes.
RunsOnOwnSchema ==
    excludes => \A p \in Procs : pc[p] = "runtime" =>
        applied = Embedded[build[p]] /\ userVersion = Len(Embedded[build[p]])

=============================================================================
