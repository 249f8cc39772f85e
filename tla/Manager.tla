------------------------------ MODULE Manager ------------------------------
(***************************************************************************)
(* The life of the serve command (cmd/page-hub/main.go), from the lock to  *)
(* the exit, and what an open page of the manager sees of it: inventory    *)
(* requests (internal/server/inventory.go), which read the catalog first   *)
(* and the service's state after it, and the page itself                   *)
(* (web/src/App.tsx), which polls the inventory, requests a refresh when   *)
(* it opens and fetches the inventory again when a refresh settles.        *)
(*                                                                         *)
(* The service is reduced to the scan in flight (module ObservationService *)
(* has the rest), and an observation to its second and to the batches its  *)
(* manifests were read from (module Scan has what it finds).  Batches are  *)
(* accepted by the commit command, a process of its own, which holds the   *)
(* same lock; here the lock is what it is meant to be (module CatalogLock  *)
(* shows when it is not).  Other pages and the schedule are whoever else   *)
(* begins a scan.  Requests are lost, answered late and cancelled; the     *)
(* process is signalled, is killed, and starts again.                      *)
(*                                                                         *)
(* Not covered: outcomes and their wording, staleness, quota and URLs in   *)
(* the answers, several pages at once, and a clock that is set back.       *)
(***************************************************************************)
EXTENDS Naturals, Sequences

CONSTANTS
    Fetches,        \* inventory requests of the page under way at once
    NoFetch,        \* the page awaits no inventory
    MaxRecords,     \* bound on the observations recorded (model only)
    MaxBatches,     \* bound on the batches accepted (model only)
    MaxTime         \* bound on the clock, in seconds (model only)

ASSUME ManagerAssumption ==
    /\ NoFetch \notin Fetches
    /\ MaxRecords \in Nat /\ MaxBatches \in Nat /\ MaxTime \in Nat

VARIABLES
    \* the process
    phase,          \* where runServe is
    lock,           \* the catalog lock is held
    store,          \* the catalog is open
    scan,           \* the scan in flight, none when Service.running is nil
    found,          \* its observation so far
    \* the catalog, which outlives the process
    accepted,       \* batches accepted
    rows,           \* the times of observations, in the order of their rowid
    clock,          \* the wall clock, in seconds
    \* the page
    mutation,       \* its refresh request
    fetch,          \* fetch[f]: where an inventory request is, what it has read
    current,        \* the request whose answer the page will take
    shown,          \* the newest inventory it has: what it shows, or shows again
                    \* as soon as a request is answered
    \* history, for the properties only
    owing,          \* the observation of the scan the refresh waited for
    owed            \* the newest one a settled refresh has promised to show

process == <<phase, lock, store, scan, found>>
catalog == <<accepted, rows, clock>>
page == <<mutation, fetch, current, shown>>
history == <<owing, owed>>
vars == <<process, catalog, page, history>>

\* An observation: its second, and how many batches its manifests cover.
Observations == [at : 0..MaxTime, covers : 0..MaxBatches]
NoObservation == [at |-> 0, covers |-> 0]

Recorded == Len(rows)

Unshown == [obs |-> 0, running |-> FALSE, loaded |-> FALSE]
NoRequest == [at |-> "free", obs |-> 0, running |-> FALSE]
Sent == [at |-> "sent", obs |-> 0, running |-> FALSE]

TypeOK ==
    /\ phase \in {"down", "starting", "serving", "stopping"}
    /\ lock \in BOOLEAN /\ store \in BOOLEAN
    /\ scan \in {"none", "begun", "scanning", "listed", "recording", "recorded", "failed"}
    /\ phase \in {"down", "starting"} => scan = "none"
    /\ found \in Observations
    /\ accepted \in 0..MaxBatches /\ clock \in 0..MaxTime
    /\ rows \in Seq(0..MaxTime) /\ Recorded <= MaxRecords
    /\ mutation \in {"idle", "sent", "waiting", "woken", "answered", "lost"}
    /\ fetch \in [Fetches -> [at : {"free", "sent", "read", "answered"},
                              obs : 0..MaxRecords, running : BOOLEAN]]
    /\ current \in Fetches \cup {NoFetch}
    /\ current # NoFetch => fetch[current].at # "free"
    /\ shown \in [obs : 0..MaxRecords, running : BOOLEAN, loaded : BOOLEAN]
    /\ owing \in 0..MaxRecords /\ owed \in 0..MaxRecords

Init ==
    /\ phase = "down" /\ lock = FALSE /\ store = FALSE /\ scan = "none"
    /\ found = NoObservation
    /\ accepted = 0 /\ rows = <<>> /\ clock = 0
    /\ mutation = "sent"
    /\ \E f \in Fetches :
          /\ fetch = [g \in Fetches |-> IF g = f THEN Sent ELSE NoRequest]
          /\ current = f
    /\ shown = Unshown
    /\ owing = 0 /\ owed = 0

(***************************************************************************)
(* runServe                                                                *)
(***************************************************************************)

AcquireLock ==
    /\ phase = "down"
    /\ phase' = "starting" /\ lock' = TRUE
    /\ UNCHANGED <<store, scan, found, catalog, page, history>>

OpenRuntime ==
    /\ phase = "starting" /\ lock /\ ~store
    /\ store' = TRUE
    /\ UNCHANGED <<phase, lock, scan, found, catalog, page, history>>

\* The service starts and the listener opens.
Serve ==
    /\ phase = "starting" /\ store
    /\ phase' = "serving"
    /\ UNCHANGED <<lock, store, scan, found, catalog, page, history>>

\* SIGINT or SIGTERM: Serve returns as soon as Shutdown begins, and runServe's
\* deferred calls follow while handlers and a scan may be at work.
Signal ==
    /\ phase = "serving"
    /\ phase' = "stopping"
    /\ UNCHANGED <<lock, store, scan, found, catalog, page, history>>

\* store.Close: no transaction begins any more, one that has may still commit.
CloseStore ==
    /\ phase = "stopping" /\ store
    /\ store' = FALSE
    /\ UNCHANGED <<phase, lock, scan, found, catalog, page, history>>

\* Faulty variant of Release: the deferred calls in the order they are written.
Release_First ==
    /\ phase = "stopping" /\ lock
    /\ lock' = FALSE
    /\ UNCHANGED <<phase, store, scan, found, catalog, page, history>>

Release ==
    /\ phase = "stopping" /\ ~store /\ lock
    /\ lock' = FALSE
    /\ UNCHANGED <<phase, store, scan, found, catalog, page, history>>

\* The process is gone, and with it every goroutine.  An inventory request it
\* has not answered fails, and the page sends it again.
Gone ==
    /\ phase' = "down" /\ lock' = FALSE /\ store' = FALSE
    /\ scan' = "none" /\ found' = NoObservation
    /\ mutation' = IF mutation \in {"waiting", "woken"} THEN "lost" ELSE mutation
    /\ fetch' = [f \in Fetches |-> IF fetch[f].at = "read" THEN Sent ELSE fetch[f]]
    /\ owing' = IF mutation \in {"waiting", "woken"} THEN 0 ELSE owing
    /\ UNCHANGED <<catalog, current, shown, owed>>

\* runServe returns; or os.Exit, a panic or a kill, at any point.
Exit == phase = "stopping" /\ ~lock /\ Gone
Crash == phase # "down" /\ Gone

(***************************************************************************)
(* Other processes                                                         *)
(***************************************************************************)

\* Faulty variant of AcceptBatch: the commit command does not take the lock.
AcceptBatch_Unlocked ==
    /\ accepted < MaxBatches
    /\ accepted' = accepted + 1
    /\ UNCHANGED <<process, rows, clock, page, history>>

\* The commit command takes the lock, accepts a batch, and releases the lock
\* (module Adoption has its steps): no manager has the lock meanwhile.
AcceptBatch ==
    /\ ~lock
    /\ accepted < MaxBatches
    /\ accepted' = accepted + 1
    /\ UNCHANGED <<process, rows, clock, page, history>>

Tick ==
    /\ clock < MaxTime
    /\ clock' = clock + 1
    /\ UNCHANGED <<process, accepted, rows, page, history>>

(***************************************************************************)
(* The scan in flight                                                      *)
(***************************************************************************)

Running == scan # "none"
Alive == phase \in {"serving", "stopping"}

\* The schedule or another page leads a scan.
BeginScan ==
    /\ Alive /\ ~Running
    /\ scan' = "begun"
    /\ UNCHANGED <<phase, lock, store, found, catalog, page, history>>

\* Run reads the accepted manifests.
ReadManifests ==
    /\ scan = "begun" /\ store
    /\ scan' = "scanning"
    /\ found' = [found EXCEPT !.covers = accepted]
    /\ UNCHANGED <<phase, lock, store, catalog, page, history>>

\* Scan takes the time of its observation at the end of the listing.
EndListing ==
    /\ scan = "scanning"
    /\ scan' = "listed"
    /\ found' = [found EXCEPT !.at = clock]
    /\ UNCHANGED <<phase, lock, store, catalog, page, history>>

\* RecordObservation begins its transaction, and commits it.
BeginRecord ==
    /\ scan = "listed" /\ store /\ Recorded < MaxRecords
    /\ scan' = "recording"
    /\ UNCHANGED <<phase, lock, store, found, catalog, page, history>>

CommitRecord ==
    /\ scan = "recording"
    /\ scan' = "recorded"
    /\ rows' = Append(rows, found.at)
    /\ found' = NoObservation
    /\ UNCHANGED <<phase, lock, store, accepted, clock, page, history>>

\* Storage fails, the context is cancelled, or the catalog is closed by now.
ScanFails ==
    /\ scan \in {"begun", "scanning", "listed", "recording"}
    /\ scan' = "failed" /\ found' = NoObservation
    /\ UNCHANGED <<phase, lock, store, catalog, page, history>>

\* The second critical section of Refresh: whoever waits for this scan wakes.
EndScan ==
    /\ scan \in {"recorded", "failed"}
    /\ scan' = "none"
    /\ mutation' = IF mutation = "waiting" THEN "woken" ELSE mutation
    /\ owing' = IF mutation = "waiting" /\ scan = "recorded" THEN Recorded ELSE owing
    /\ UNCHANGED <<phase, lock, store, found, catalog, fetch, current, shown, owed>>

(***************************************************************************)
(* The page's refresh                                                      *)
(***************************************************************************)

\* What the page calls refreshing, and disables its button by.
Refreshing == mutation # "idle" \/ shown.running

Click ==
    /\ ~Refreshing
    /\ mutation' = "sent"
    /\ UNCHANGED <<process, catalog, fetch, current, shown, history>>

\* serveRefresh: the request leads a scan, or joins the one in flight.
RefreshArrives ==
    /\ Alive /\ mutation = "sent"
    /\ mutation' = "waiting"
    /\ scan' = IF Running THEN scan ELSE "begun"
    /\ UNCHANGED <<phase, lock, store, found, catalog, fetch, current, shown, history>>

RefreshAnswers ==
    /\ Alive /\ mutation = "woken"
    /\ mutation' = "answered"
    /\ UNCHANGED <<process, catalog, fetch, current, shown, history>>

\* A new inventory request, in place of whatever the page was waiting for.
Ask(f) ==
    /\ fetch[f].at = "free"
    /\ fetch' = [fetch EXCEPT ![f] = Sent]
    /\ current' = f

\* Faulty variant of Refetch: a request under way is taken for the new one.
Refetch_Joins ==
    IF current # NoFetch THEN UNCHANGED <<fetch, current>> ELSE \E f \in Fetches : Ask(f)

\* invalidateQueries: a request under way is cancelled and its answer ignored,
\* but while the page has nothing to show yet it is waited for.
Refetch ==
    IF ~shown.loaded /\ current # NoFetch THEN UNCHANGED <<fetch, current>>
    ELSE \E f \in Fetches : Ask(f)

\* onSettled, with an answer or without one.
Settle ==
    /\ mutation = "answered"
    /\ mutation' = "idle"
    /\ Refetch
    /\ owed' = IF shown.loaded /\ owing > owed THEN owing ELSE owed
    /\ owing' = 0
    /\ UNCHANGED <<process, catalog, shown>>

SettleFailed ==
    /\ mutation # "idle"
    /\ mutation' = "idle"
    /\ Refetch
    /\ owing' = 0
    /\ UNCHANGED <<process, catalog, shown, owed>>

(***************************************************************************)
(* The page's inventory                                                    *)
(***************************************************************************)

\* refetchInterval; a request under way is not repeated.
Poll ==
    /\ current = NoFetch
    /\ \E f \in Fetches : Ask(f)
    /\ UNCHANGED <<process, catalog, mutation, shown, history>>

\* Faulty variant of Latest: rows of the same second are not told apart.
Latest_FirstOfSecond ==
    IF rows = <<>> THEN 0
    ELSE CHOOSE i \in DOMAIN rows : \A j \in DOMAIN rows :
            rows[j] < rows[i] \/ (rows[j] = rows[i] /\ i <= j)

\* LatestObservation: ORDER BY observed_at DESC, rowid DESC LIMIT 1; 0 before
\* the first observation.
Latest ==
    IF rows = <<>> THEN 0
    ELSE CHOOSE i \in DOMAIN rows : \A j \in DOMAIN rows :
            rows[j] < rows[i] \/ (rows[j] = rows[i] /\ j <= i)

\* serveInventory: Store.Inventory, then Service.State.
ReadRecords(f) ==
    /\ Alive /\ store /\ fetch[f].at = "sent"
    /\ fetch' = [fetch EXCEPT ![f] = [at |-> "read", obs |-> Latest, running |-> FALSE]]
    /\ UNCHANGED <<process, catalog, mutation, current, shown, history>>

ReadState(f) ==
    /\ Alive /\ fetch[f].at = "read"
    /\ fetch' = [fetch EXCEPT ![f] =
                   [at |-> "answered", obs |-> fetch[f].obs, running |-> Running]]
    /\ UNCHANGED <<process, catalog, mutation, current, shown, history>>

\* Faulty variant of Arrive: the answer to a cancelled request is taken as well.
Arrive_Any(f) ==
    /\ fetch[f].at = "answered"
    /\ shown' = [obs |-> fetch[f].obs, running |-> fetch[f].running, loaded |-> TRUE]
    /\ fetch' = [fetch EXCEPT ![f] = NoRequest]
    /\ current' = IF f = current THEN NoFetch ELSE current
    /\ UNCHANGED <<process, catalog, mutation, history>>

\* The page shows the answer it waits for.
Arrive(f) ==
    /\ f = current /\ fetch[f].at = "answered"
    /\ shown' = [obs |-> fetch[f].obs, running |-> fetch[f].running, loaded |-> TRUE]
    /\ fetch' = [fetch EXCEPT ![f] = NoRequest]
    /\ current' = NoFetch
    /\ UNCHANGED <<process, catalog, mutation, history>>

\* Faulty variant of Drop: the page goes on waiting for a request that failed.
Drop_KeepsWaiting(f) ==
    /\ fetch[f].at # "free"
    /\ fetch' = [fetch EXCEPT ![f] = NoRequest]
    /\ UNCHANGED <<process, catalog, mutation, current, shown, history>>

\* A cancelled request comes to its end, or the awaited one fails for good.  The
\* page keeps the data it has: its header and its buttons go on from them, while
\* "Inventory is unavailable." stands in place of the list until the next answer.
Drop(f) ==
    /\ fetch[f].at # "free"
    /\ fetch' = [fetch EXCEPT ![f] = NoRequest]
    /\ current' = IF f = current THEN NoFetch ELSE current
    /\ UNCHANGED <<process, catalog, mutation, shown, history>>

\* The page is closed and opened again: its first fetch and its first refresh.
Reload ==
    /\ \E f \in Fetches : Ask(f)
    /\ mutation' = "sent"
    /\ shown' = Unshown
    /\ owing' = 0 /\ owed' = 0
    /\ UNCHANGED <<process, catalog>>

-----------------------------------------------------------------------------

Process ==
    AcquireLock \/ OpenRuntime \/ Serve \/ Signal \/ CloseStore \/ Release \/ Exit \/ Crash

Others == AcceptBatch \/ Tick

Service ==
    \/ BeginScan \/ ReadManifests \/ EndListing \/ BeginRecord \/ CommitRecord
    \/ ScanFails \/ EndScan

Page ==
    \/ Click \/ RefreshArrives \/ RefreshAnswers \/ Settle \/ SettleFailed
    \/ Poll \/ Reload
    \/ \E f \in Fetches : ReadRecords(f) \/ ReadState(f) \/ Arrive(f) \/ Drop(f)

Next == Process \/ Others \/ Service \/ Page

Spec == Init /\ [][Next]_vars

(***************************************************************************)
(* Properties                                                              *)
(***************************************************************************)

\* App.tsx:84-85, README.md:92-93: a page never goes back to an older
\* observation, whatever is cancelled, lost, repeated or restarted.
NeverOlder == [][shown'.loaded => shown'.obs >= shown.obs]_vars

\* App.tsx:83-84: once a refresh that succeeded has settled, every inventory a
\* loaded page takes holds that refresh's observation, or a later one.
RefreshReflected ==
    [][shown' # shown /\ shown'.loaded => shown'.obs >= owed]_vars

\* main.go:105-118: serve begins no transaction and no read of the catalog
\* without the catalog lock, down to its last moment.
UsesStoreUnderLock ==
    [][(scan # "scanning" /\ scan' = "scanning")
       \/ (scan # "recording" /\ scan' = "recording")
       \/ (\E f \in Fetches : fetch[f].at = "sent" /\ fetch'[f].at = "read")
         => lock]_vars

\* lock.go:10-12, run.go:16-17: whatever is recorded while serve has the lock
\* was compared with every batch accepted by then, so that no object of one is
\* reported as unclaimed, however long ago the manifests were read.
ObservationCoversAccepted ==
    [][rows' # rows /\ lock => found.covers = accepted]_vars

=============================================================================
