--------------------------- MODULE Manager_proofs ---------------------------
(***************************************************************************)
(* Proofs of Manager, for any number of requests and any bound on the      *)
(* observations, the batches and the clock: the page never goes back, a    *)
(* settled refresh is reflected, the catalog is used under its lock, and   *)
(* what is recorded was compared with every accepted batch.                *)
(***************************************************************************)
EXTENDS Manager, TLAPS

(***************************************************************************)
(* The inductive invariant.  What the page has been promised or shown is   *)
(* recorded, and the one request whose answer it will take has read        *)
(* nothing older: the requests it has cancelled may hold anything.         *)
(***************************************************************************)

\* The catalog is open only under the lock.
LockedWhileOpen == store => lock

\* A transaction begins only while the model's bound leaves room for it.
RoomToRecord == scan = "recording" => Recorded < MaxRecords

\* Nothing is promised, read or on display that is not recorded.
KeepsToRecord ==
    /\ \A f \in Fetches : fetch[f].obs <= Recorded
    /\ shown.obs <= Recorded /\ owed <= Recorded /\ owing <= Recorded
    /\ ~shown.loaded => shown.obs = 0 /\ owed = 0

\* The awaited request has read nothing older than what is shown and promised.
AwaitsNoOlder ==
    current # NoFetch /\ fetch[current].at \in {"read", "answered"} =>
        fetch[current].obs >= shown.obs /\ fetch[current].obs >= owed

\* Observations are recorded in the order of their times, because a scan takes
\* its time after every earlier scan has ended.
SortedByTime ==
    /\ \A i, j \in 1..Len(rows) : i <= j => rows[i] <= rows[j]
    /\ \A i \in 1..Len(rows) : rows[i] <= clock
    /\ scan \in {"listed", "recording"} =>
          found.at <= clock /\ \A i \in 1..Len(rows) : rows[i] <= found.at

\* No batch is accepted behind a scan's back while its process has the lock.
CoversWhileLocked ==
    lock /\ scan \in {"scanning", "listed", "recording"} => found.covers = accepted

\* What is kept for the page, and what is kept in the catalog.
PInv == TypeOK /\ RoomToRecord /\ LockedWhileOpen /\ KeepsToRecord /\ AwaitsNoOlder
CInv == SortedByTime /\ CoversWhileLocked

IInv == PInv /\ CInv

-----------------------------------------------------------------------------

\* The helpers the actions share keep the types of what they set.
LEMMA AskTyped ==
    ASSUME TypeOK, NEW f \in Fetches, Ask(f)
    PROVE  /\ fetch' \in [Fetches -> [at : {"free", "sent", "read", "answered"},
                                      obs : 0..MaxRecords, running : BOOLEAN]]
           /\ current' \in Fetches /\ current' # NoFetch
           /\ fetch'[current'].at = "sent"
           /\ \A g \in Fetches : fetch'[g].obs \in {0, fetch[g].obs}
BY ManagerAssumption DEF TypeOK, Ask, Sent

LEMMA RefetchTyped ==
    ASSUME TypeOK, Refetch
    PROVE  /\ fetch' \in [Fetches -> [at : {"free", "sent", "read", "answered"},
                                      obs : 0..MaxRecords, running : BOOLEAN]]
           /\ current' \in Fetches /\ current' # NoFetch
           /\ fetch'[current'].at # "free"
           /\ \/ ~shown.loaded /\ fetch' = fetch /\ current' = current
              \/ fetch'[current'].at = "sent"
           /\ \A g \in Fetches : fetch'[g].obs \in {0, fetch[g].obs}
<1>1. CASE ~shown.loaded /\ current # NoFetch
      BY <1>1, ManagerAssumption DEF TypeOK, Refetch
<1>2. CASE ~(~shown.loaded /\ current # NoFetch)
      <2>1. PICK f \in Fetches : Ask(f)  BY <1>2 DEF Refetch
      <2> QED  BY <2>1, AskTyped
<1> QED  BY <1>1, <1>2

\* ORDER BY observed_at DESC, rowid DESC picks the observation recorded last.
LEMMA LatestIsLast == ASSUME TypeOK, SortedByTime PROVE Latest = Recorded
<1>1. rows \in Seq(0..MaxTime) /\ DOMAIN rows = 1..Len(rows) /\ Len(rows) \in Nat
      /\ \A i \in 1..Len(rows) : rows[i] \in Nat
      BY ManagerAssumption DEF TypeOK
<1>2. CASE rows = <<>>  BY <1>2 DEF Latest, Recorded
<1>3. CASE rows # <<>>
      <2> DEFINE Wins(i) == \A j \in DOMAIN rows :
                              rows[j] < rows[i] \/ (rows[j] = rows[i] /\ j <= i)
      <2>1. Len(rows) \in DOMAIN rows  BY <1>1, <1>3
      <2>2. Wins(Len(rows))  BY <1>1, <2>1 DEF SortedByTime
      <2>3. \A i \in DOMAIN rows : Wins(i) => i = Len(rows)
            BY <1>1, <2>1 DEF SortedByTime
      <2>4. (CHOOSE i \in DOMAIN rows : Wins(i)) = Len(rows)
            <3> HIDE DEF Wins
            <3> QED  BY <2>1, <2>2, <2>3
      <2> QED  BY <1>3, <2>4 DEF Latest, Recorded
<1> QED  BY <1>2, <1>3

LEMMA InitIsFine == Init => IInv
<1> SUFFICES ASSUME Init PROVE IInv  OBVIOUS
<1>1. PICK f \in Fetches :
        /\ fetch = [g \in Fetches |-> IF g = f THEN Sent ELSE NoRequest]
        /\ current = f
      BY DEF Init
<1>2. /\ NoRequest = [at |-> "free", obs |-> 0, running |-> FALSE]
      /\ Sent = [at |-> "sent", obs |-> 0, running |-> FALSE]
      /\ 0 \in 0..MaxRecords
      BY ManagerAssumption DEF NoRequest, Sent
<1>3. TypeOK
      <2>1. rows \in Seq(0..MaxTime) /\ Recorded = 0 /\ accepted = 0 /\ clock = 0
            BY DEF Init, Recorded
      <2>2. found \in Observations
            BY ManagerAssumption DEF Init, NoObservation, Observations
      <2>3. fetch \in [Fetches -> [at : {"free", "sent", "read", "answered"},
                                   obs : 0..MaxRecords, running : BOOLEAN]]
            BY <1>1, <1>2
      <2>4. current \in Fetches /\ fetch[current].at = "sent"  BY <1>1, <1>2
      <2>5. shown \in [obs : 0..MaxRecords, running : BOOLEAN, loaded : BOOLEAN]
            BY <1>2 DEF Init, Unshown
      <2>6. /\ phase = "down" /\ lock = FALSE /\ store = FALSE /\ scan = "none"
            /\ mutation = "sent" /\ owing = 0 /\ owed = 0
            BY DEF Init
      <2>7. /\ accepted \in 0..MaxBatches /\ clock \in 0..MaxTime /\ Recorded <= MaxRecords
            /\ owing \in 0..MaxRecords /\ owed \in 0..MaxRecords
            BY <2>1, <2>6, ManagerAssumption
      <2>8. /\ current \in Fetches \cup {NoFetch}
            /\ current # NoFetch => fetch[current].at # "free"
            BY <2>4
      <2> QED  BY <2>1, <2>2, <2>3, <2>5, <2>6, <2>7, <2>8 DEF TypeOK
<1>4. RoomToRecord /\ LockedWhileOpen  BY DEF Init, RoomToRecord, LockedWhileOpen
<1>5. KeepsToRecord  BY <1>1, <1>2, ManagerAssumption DEF Init, KeepsToRecord, Unshown, Recorded
<1>6. AwaitsNoOlder
      <2>1. fetch[current].at = "sent"  BY <1>1, <1>2
      <2> QED  BY <2>1 DEF AwaitsNoOlder
<1>7. SortedByTime /\ CoversWhileLocked
      BY DEF Init, SortedByTime, CoversWhileLocked
<1> QED  BY <1>3, <1>4, <1>5, <1>6, <1>7 DEF IInv, PInv, CInv

LEMMA StepKeepsPage == ASSUME PInv, CInv, [Next]_vars PROVE PInv'
<1> USE ManagerAssumption
<1>1. CASE AcquireLock
      BY <1>1 DEF PInv, TypeOK, RoomToRecord, LockedWhileOpen, KeepsToRecord, AwaitsNoOlder,
                  Recorded, AcquireLock, catalog, page, history
<1>2. CASE OpenRuntime
      BY <1>2 DEF PInv, TypeOK, RoomToRecord, LockedWhileOpen, KeepsToRecord, AwaitsNoOlder,
                  Recorded, OpenRuntime, catalog, page, history
<1>3. CASE Serve
      BY <1>3 DEF PInv, TypeOK, RoomToRecord, LockedWhileOpen, KeepsToRecord, AwaitsNoOlder,
                  Recorded, Serve, catalog, page, history
<1>4. CASE Signal
      BY <1>4 DEF PInv, TypeOK, RoomToRecord, LockedWhileOpen, KeepsToRecord, AwaitsNoOlder,
                  Recorded, Signal, catalog, page, history
<1>5. CASE CloseStore
      BY <1>5 DEF PInv, TypeOK, RoomToRecord, LockedWhileOpen, KeepsToRecord, AwaitsNoOlder,
                  Recorded, CloseStore, catalog, page, history
<1>6. CASE Release
      BY <1>6 DEF PInv, TypeOK, RoomToRecord, LockedWhileOpen, KeepsToRecord, AwaitsNoOlder,
                  Recorded, Release, catalog, page, history
<1>7. CASE Gone
      <2>1. /\ phase' = "down" /\ lock' = FALSE /\ store' = FALSE /\ scan' = "none"
            /\ found' = NoObservation
            /\ UNCHANGED <<rows, accepted, clock, current, shown, owed>>
            /\ mutation' \in {mutation, "lost"} /\ owing' \in {0, owing}
            BY <1>7 DEF Gone, catalog
      <2>2. /\ fetch' \in [Fetches -> [at : {"free", "sent", "read", "answered"},
                                       obs : 0..MaxRecords, running : BOOLEAN]]
            /\ \A f \in Fetches :
                  \/ fetch'[f] = fetch[f]
                  \/ fetch'[f].at = "sent" /\ fetch'[f].obs = 0
            BY <1>7 DEF Gone, Sent, PInv, TypeOK
      <2>3. TypeOK'
            <3>1. current # NoFetch => fetch'[current].at # "free"
                  BY <2>2 DEF PInv, TypeOK, Recorded
            <3>2. owing' \in 0..MaxRecords  BY <2>1 DEF PInv, TypeOK, Recorded
            <3>3. mutation' \in {"idle", "sent", "waiting", "woken", "answered", "lost"}
                  BY <2>1 DEF PInv, TypeOK, Recorded
            <3>4. found' \in Observations  BY <2>1 DEF NoObservation, Observations
            <3> QED  BY <2>1, <2>2, <3>1, <3>2, <3>3, <3>4 DEF PInv, TypeOK, Recorded
      <2>4. RoomToRecord' /\ LockedWhileOpen' /\ KeepsToRecord'
            BY <2>1, <2>2 DEF PInv, TypeOK, RoomToRecord, LockedWhileOpen, KeepsToRecord, Recorded
      <2>5. AwaitsNoOlder'  BY <2>1, <2>2 DEF PInv, TypeOK, AwaitsNoOlder
      <2> QED  BY <2>3, <2>4, <2>5 DEF PInv
<1>8. CASE BeginScan
      BY <1>8 DEF PInv, TypeOK, RoomToRecord, LockedWhileOpen, KeepsToRecord, AwaitsNoOlder,
                  Recorded, BeginScan, Alive, catalog, page, history
<1>9. CASE BeginRecord
      BY <1>9 DEF PInv, TypeOK, RoomToRecord, LockedWhileOpen, KeepsToRecord, AwaitsNoOlder,
                  Recorded, BeginRecord, catalog, page, history
<1>10. CASE CommitRecord
      BY <1>10 DEF PInv, TypeOK, RoomToRecord, LockedWhileOpen, KeepsToRecord, AwaitsNoOlder,
                  Recorded, CommitRecord, NoObservation, Observations, page, history
<1>11. CASE ScanFails
      BY <1>11 DEF PInv, TypeOK, RoomToRecord, LockedWhileOpen, KeepsToRecord, AwaitsNoOlder,
                  Recorded, ScanFails, NoObservation, Observations, catalog, page, history
<1>12. CASE EndScan
      BY <1>12 DEF PInv, TypeOK, RoomToRecord, LockedWhileOpen, KeepsToRecord, AwaitsNoOlder,
                  Recorded, EndScan, catalog, page, history
<1>13. CASE Click
      BY <1>13 DEF PInv, TypeOK, RoomToRecord, LockedWhileOpen, KeepsToRecord, AwaitsNoOlder,
                  Recorded, Click, process, catalog, history
<1>14. CASE RefreshArrives
      BY <1>14 DEF PInv, TypeOK, RoomToRecord, LockedWhileOpen, KeepsToRecord, AwaitsNoOlder,
                  Recorded, RefreshArrives, Alive, Running, catalog, history
<1>15. CASE RefreshAnswers
      BY <1>15 DEF PInv, TypeOK, RoomToRecord, LockedWhileOpen, KeepsToRecord, AwaitsNoOlder,
                  Recorded, RefreshAnswers, process, catalog, history
<1>16. CASE Settle
      <2>1. Refetch /\ mutation' = "idle" /\ owing' = 0
            /\ UNCHANGED <<phase, lock, store, scan, found, rows, accepted, clock, shown>>
            /\ owed' \in {owed, owing} /\ (~shown.loaded => owed' = owed)
            BY <1>16 DEF Settle, process, catalog
      <2>2. TypeOK'  BY <2>1, RefetchTyped DEF PInv, TypeOK, Recorded
      <2>k. \A g \in Fetches : fetch'[g].obs \in {0, fetch[g].obs}
            BY <2>1, RefetchTyped DEF PInv
      <2>r. Recorded \in Nat /\ Recorded' = Recorded
            BY <2>1 DEF PInv, TypeOK, Recorded
      <2>3. RoomToRecord' /\ LockedWhileOpen' /\ KeepsToRecord'
            BY <2>r, <2>1, <2>k
            DEF PInv, RoomToRecord, LockedWhileOpen, KeepsToRecord
      <2>4. AwaitsNoOlder'  BY <2>1, RefetchTyped DEF PInv, AwaitsNoOlder
      <2> QED  BY <2>2, <2>3, <2>4 DEF PInv
<1>17. CASE SettleFailed
      <2>1. Refetch /\ mutation' = "idle" /\ owing' = 0
            /\ UNCHANGED <<phase, lock, store, scan, found, rows, accepted, clock, shown, owed>>
            BY <1>17 DEF SettleFailed, process, catalog
      <2>2. TypeOK'  BY <2>1, RefetchTyped DEF PInv, TypeOK, Recorded
      <2>k. \A g \in Fetches : fetch'[g].obs \in {0, fetch[g].obs}
            BY <2>1, RefetchTyped DEF PInv
      <2>r. Recorded \in Nat /\ Recorded' = Recorded
            BY <2>1 DEF PInv, TypeOK, Recorded
      <2>3. RoomToRecord' /\ LockedWhileOpen' /\ KeepsToRecord'
            BY <2>r, <2>1, <2>k
            DEF PInv, RoomToRecord, LockedWhileOpen, KeepsToRecord
      <2>4. AwaitsNoOlder'  BY <2>1, RefetchTyped DEF PInv, AwaitsNoOlder
      <2> QED  BY <2>2, <2>3, <2>4 DEF PInv
<1>18. CASE Poll
      <2>1. PICK f \in Fetches : Ask(f)  BY <1>18 DEF Poll
      <2>2. UNCHANGED <<phase, lock, store, scan, found, rows, accepted, clock,
                       mutation, shown, owing, owed>>
            BY <1>18 DEF Poll, process, catalog, history
      <2>3. TypeOK'  BY <2>1, <2>2, AskTyped DEF PInv, TypeOK, Recorded
      <2>k. \A g \in Fetches : fetch'[g].obs \in {0, fetch[g].obs}
            BY <2>1, AskTyped DEF PInv
      <2>r. Recorded \in Nat /\ Recorded' = Recorded
            BY <2>2 DEF PInv, TypeOK, Recorded
      <2>4. RoomToRecord' /\ LockedWhileOpen' /\ KeepsToRecord'
            BY <2>r, <2>1, <2>2, <2>k
            DEF PInv, RoomToRecord, LockedWhileOpen, KeepsToRecord
      <2>5. AwaitsNoOlder'  BY <2>1, AskTyped DEF PInv, AwaitsNoOlder
      <2> QED  BY <2>3, <2>4, <2>5 DEF PInv
<1>19. CASE Reload
      <2>1. PICK f \in Fetches : Ask(f)  BY <1>19 DEF Reload
      <2>2. /\ UNCHANGED <<phase, lock, store, scan, found, rows, accepted, clock>>
            /\ mutation' = "sent" /\ owing' = 0 /\ owed' = 0
            /\ shown' = [obs |-> 0, running |-> FALSE, loaded |-> FALSE]
            BY <1>19 DEF Reload, process, catalog, Unshown
      <2>3. TypeOK'  BY <2>1, <2>2, AskTyped DEF PInv, TypeOK, Recorded
      <2>k. \A g \in Fetches : fetch'[g].obs \in {0, fetch[g].obs}
            BY <2>1, AskTyped DEF PInv
      <2>r. Recorded \in Nat /\ Recorded' = Recorded
            BY <2>2 DEF PInv, TypeOK, Recorded
      <2>4. RoomToRecord' /\ LockedWhileOpen' /\ KeepsToRecord'
            BY <2>r, <2>1, <2>2, <2>k
            DEF PInv, RoomToRecord, LockedWhileOpen, KeepsToRecord
      <2>5. AwaitsNoOlder'  BY <2>1, AskTyped DEF PInv, AwaitsNoOlder
      <2> QED  BY <2>3, <2>4, <2>5 DEF PInv
<1>20. ASSUME NEW f \in Fetches, ReadRecords(f) PROVE PInv'
      BY <1>20, LatestIsLast
      DEF CInv, PInv, TypeOK, RoomToRecord, LockedWhileOpen, KeepsToRecord, AwaitsNoOlder,
                  Recorded, ReadRecords, process, catalog, history
<1>21. ASSUME NEW f \in Fetches, ReadState(f) PROVE PInv'
      BY <1>21 DEF PInv, TypeOK, RoomToRecord, LockedWhileOpen, KeepsToRecord, AwaitsNoOlder,
                  Recorded, ReadState, Running, process, catalog, history
<1>22. ASSUME NEW f \in Fetches, Arrive(f) PROVE PInv'
      BY <1>22 DEF PInv, TypeOK, RoomToRecord, LockedWhileOpen, KeepsToRecord, AwaitsNoOlder,
                  Recorded, Arrive, NoRequest, process, catalog, history
<1>23. ASSUME NEW f \in Fetches, Drop(f) PROVE PInv'
      BY <1>23 DEF PInv, TypeOK, RoomToRecord, LockedWhileOpen, KeepsToRecord, AwaitsNoOlder,
                  Recorded, Drop, NoRequest, process, catalog, history
<1>24. CASE AcceptBatch
      BY <1>24 DEF PInv, TypeOK, RoomToRecord, LockedWhileOpen, KeepsToRecord, AwaitsNoOlder,
                  Recorded, AcceptBatch, process, page, history
<1>25. CASE Tick
      BY <1>25 DEF PInv, TypeOK, RoomToRecord, LockedWhileOpen, KeepsToRecord, AwaitsNoOlder,
                  Recorded, Tick, process, page, history
<1>26. CASE ReadManifests
      BY <1>26 DEF PInv, TypeOK, RoomToRecord, LockedWhileOpen, KeepsToRecord, AwaitsNoOlder,
                  Recorded, ReadManifests, Observations, catalog, page, history
<1>27. CASE EndListing
      BY <1>27 DEF PInv, TypeOK, RoomToRecord, LockedWhileOpen, KeepsToRecord, AwaitsNoOlder,
                  Recorded, EndListing, Observations, catalog, page, history
<1>28. CASE UNCHANGED vars
      BY <1>28 DEF PInv, TypeOK, RoomToRecord, LockedWhileOpen, KeepsToRecord, AwaitsNoOlder,
                  Recorded, vars, process, catalog, page, history
<1> QED
  BY <1>1, <1>2, <1>3, <1>4, <1>5, <1>6, <1>7, <1>8, <1>9, <1>10, <1>11, <1>12,
     <1>13, <1>14, <1>15, <1>16, <1>17, <1>18, <1>19, <1>20, <1>21, <1>22, <1>23,
     <1>24, <1>25, <1>26, <1>27, <1>28
  DEF Next, Process, Others, Service, Page, Exit, Crash

LEMMA StepKeepsCatalog == ASSUME PInv, CInv, [Next]_vars PROVE CInv'
<1> USE ManagerAssumption
<1>1. CASE UNCHANGED <<rows, clock, accepted, lock, found>> /\ scan' \in {scan, "none", "recording"}
          /\ (scan' = "recording" => scan \in {"listed", "recording"})
      BY <1>1 DEF CInv, SortedByTime, CoversWhileLocked
<1>2. CASE AcquireLock
      BY <1>2 DEF PInv, CInv, TypeOK, SortedByTime, CoversWhileLocked, AcquireLock, catalog
<1>3. CASE Release
      BY <1>3 DEF CInv, SortedByTime, CoversWhileLocked, Release, catalog
<1>4. CASE Gone  BY <1>4 DEF CInv, SortedByTime, CoversWhileLocked, Gone, catalog
<1>5. CASE AcceptBatch
      BY <1>5 DEF CInv, SortedByTime, CoversWhileLocked, AcceptBatch, process
<1>6. CASE Tick
      <2>1. \A i \in 1..Len(rows) : rows[i] \in Nat  BY DEF PInv, TypeOK
      <2> QED  BY <1>6, <2>1 DEF PInv, CInv, TypeOK, Observations, SortedByTime, CoversWhileLocked,
                             Tick, process
<1>7. CASE BeginScan
      BY <1>7 DEF CInv, SortedByTime, CoversWhileLocked, BeginScan, catalog
<1>8. CASE ReadManifests
      BY <1>8 DEF PInv, CInv, TypeOK, Observations, SortedByTime, CoversWhileLocked,
                  ReadManifests, catalog
<1>9. CASE EndListing
      BY <1>9 DEF PInv, CInv, TypeOK, Observations, SortedByTime, CoversWhileLocked,
                  EndListing, catalog
<1>10. CASE CommitRecord
      <2>1. /\ rows \in Seq(0..MaxTime) /\ found.at \in 0..MaxTime
            /\ rows' = Append(rows, found.at) /\ clock' = clock /\ scan' = "recorded"
            BY <1>10 DEF PInv, TypeOK, Observations, CommitRecord
      <2>2. /\ Len(rows') = Len(rows) + 1 /\ rows'[Len(rows')] = found.at
            /\ \A i \in 1..Len(rows) : rows'[i] = rows[i] /\ rows[i] \in 0..MaxTime
            BY <2>1
      <2>3. SortedByTime'
            BY <1>10, <2>1, <2>2 DEF CInv, SortedByTime, CommitRecord
      <2> QED  BY <2>1, <2>3 DEF CInv, CoversWhileLocked
<1>11. CASE ScanFails
      BY <1>11 DEF CInv, SortedByTime, CoversWhileLocked, ScanFails, catalog
<1>12. CASE EndScan
      BY <1>12 DEF CInv, SortedByTime, CoversWhileLocked, EndScan, catalog
<1>13. CASE RefreshArrives
      BY <1>13 DEF CInv, SortedByTime, CoversWhileLocked, RefreshArrives, Running, catalog
<1> QED
  BY <1>1, <1>2, <1>3, <1>4, <1>5, <1>6, <1>7, <1>8, <1>9, <1>10, <1>11, <1>12, <1>13
  DEF Next, Process, Others, Service, Page, Exit, Crash, vars, process, catalog,
      OpenRuntime, Serve, Signal, CloseStore, BeginRecord,
      Click, RefreshAnswers, Settle, SettleFailed, Poll, Reload,
      ReadRecords, ReadState, Arrive, Drop

LEMMA StepIsFine == ASSUME IInv, [Next]_vars PROVE IInv'
BY StepKeepsPage, StepKeepsCatalog DEF IInv

LEMMA Invariance == Spec => []IInv
<1>1. Init => IInv  BY InitIsFine
<1>2. IInv /\ [Next]_vars => IInv'  BY StepIsFine
<1> QED  BY <1>1, <1>2, PTL DEF Spec

-----------------------------------------------------------------------------
(* The theorems.                                                           *)

\* The page's display changes with the answer it awaits, or with the page.
LEMMA DisplaySteps ==
    ASSUME [Next]_vars
    PROVE  \/ shown' = shown
           \/ shown' = Unshown
           \/ \E f \in Fetches : Arrive(f)
<1> QED
  BY DEF Next, Process, Others, Service, Page, vars, process, catalog, page, history,
         AcquireLock, OpenRuntime, Serve, Signal, CloseStore, Release, Exit, Crash, Gone,
         AcceptBatch, Tick,
        BeginScan, ReadManifests, EndListing, BeginRecord, CommitRecord, ScanFails, EndScan,
         Click, RefreshArrives, RefreshAnswers, Settle, SettleFailed, Poll, Reload,
         ReadRecords, ReadState, Drop

\* TypeOK: every variable keeps its type, and a process that has not reached
\* its service has no scan (main.go:93-149, App.tsx:75-92).
THEOREM TypeCorrect == Spec => []TypeOK
<1>1. IInv => TypeOK  BY DEF IInv, PInv
<1> QED  BY <1>1, Invariance, PTL

\* NeverOlder: a page never replaces an observation by an older one, whatever
\* is cancelled, lost or answered late, and whenever the manager starts again
\* (App.tsx:75-92, inventory.go:39-69).
THEOREM DisplayNeverGoesBack == Spec => NeverOlder
<1>1. IInv /\ [Next]_vars => [shown'.loaded => shown'.obs >= shown.obs]_vars
  <2> SUFFICES ASSUME IInv, [Next]_vars, shown'.loaded
               PROVE  shown'.obs >= shown.obs
      OBVIOUS
  <2>0. shown.obs \in Nat  BY ManagerAssumption DEF IInv, PInv, TypeOK
  <2>1. CASE shown' = shown  BY <2>0, <2>1
  <2>2. CASE shown' = Unshown  BY <2>2 DEF Unshown
  <2>3. ASSUME NEW f \in Fetches, Arrive(f) PROVE shown'.obs >= shown.obs
        BY <2>3, ManagerAssumption DEF Arrive, IInv, PInv, AwaitsNoOlder
  <2> QED  BY <2>1, <2>2, <2>3, DisplaySteps
<1> QED  BY <1>1, Invariance, PTL DEF Spec, NeverOlder

\* RefreshReflected: after a refresh that succeeded has settled, a loaded page
\* takes no inventory from before it (App.tsx:80-86, service.go:144-156).
THEOREM SettledRefreshIsShown == Spec => RefreshReflected
<1>1. IInv /\ [Next]_vars =>
        [shown' # shown /\ shown'.loaded => shown'.obs >= owed]_vars
  <2> SUFFICES ASSUME IInv, [Next]_vars, shown' # shown, shown'.loaded
               PROVE  shown'.obs >= owed
      OBVIOUS
  <2>1. CASE shown' = Unshown  BY <2>1 DEF Unshown
  <2>2. ASSUME NEW f \in Fetches, Arrive(f) PROVE shown'.obs >= owed
        BY <2>2, ManagerAssumption DEF Arrive, IInv, PInv, AwaitsNoOlder
  <2> QED  BY <2>1, <2>2, DisplaySteps
<1> QED  BY <1>1, Invariance, PTL DEF Spec, RefreshReflected

\* UsesStoreUnderLock: serve begins no transaction and no read of the catalog
\* without the catalog lock, because it closes the one before it releases the
\* other, whichever handlers are at work (main.go:100-118).
THEOREM StoreUsedUnderLock == Spec => UsesStoreUnderLock
<1>1. ASSUME IInv, [Next]_vars, NEW s \in {"scanning", "recording"},
             scan # s, scan' = s
      PROVE  lock
  <2>1. store
    BY <1>1
    DEF Next, Process, Others, Service, Page, vars, process, catalog, page, history,
        AcquireLock, OpenRuntime, Serve, Signal, CloseStore, Release, Exit, Crash, Gone,
        AcceptBatch, Tick,
        BeginScan, ReadManifests, EndListing, BeginRecord, CommitRecord, ScanFails, EndScan,
        Click, RefreshArrives, RefreshAnswers, Settle, SettleFailed, Poll, Reload,
        ReadRecords, ReadState, Arrive, Drop
  <2> QED  BY <1>1, <2>1 DEF IInv, PInv, LockedWhileOpen
<1>2. ASSUME IInv, [Next]_vars, NEW g \in Fetches,
             fetch[g].at = "sent", fetch'[g].at = "read"
      PROVE  lock
  <2>1. ~\E f \in Fetches : Ask(f)
    BY <1>2 DEF Ask, Sent, IInv, PInv, TypeOK
  <2>2. ~Refetch
    BY <1>2, <2>1 DEF Refetch
  <2>3. ~Gone
    BY <1>2 DEF Gone, Sent
  <2>4. fetch' # fetch
    BY <1>2
  <2>5. \A f \in Fetches : ~ReadState(f) /\ ~Arrive(f) /\ ~Drop(f)
    BY <1>2 DEF ReadState, Arrive, Drop, NoRequest, IInv, PInv, TypeOK
  <2>6. \E f \in Fetches : ReadRecords(f)
    BY <1>2, <2>1, <2>2, <2>3, <2>4, <2>5
    DEF Next, Process, Others, Service, Page, vars, process, catalog, page, history,
        AcquireLock, OpenRuntime, Serve, Signal, CloseStore, Release, Exit, Crash,
        AcceptBatch, Tick,
        BeginScan, ReadManifests, EndListing, BeginRecord, CommitRecord, ScanFails, EndScan,
        Click, RefreshArrives, RefreshAnswers, Settle, SettleFailed, Poll, Reload
  <2> QED  BY <1>2, <2>6 DEF ReadRecords, IInv, PInv, LockedWhileOpen
<1>3. IInv /\ [Next]_vars =>
        [(scan # "scanning" /\ scan' = "scanning")
         \/ (scan # "recording" /\ scan' = "recording")
         \/ (\E f \in Fetches : fetch[f].at = "sent" /\ fetch'[f].at = "read")
           => lock]_vars
  BY <1>1, <1>2
<1> QED  BY <1>3, Invariance, PTL DEF Spec, UsesStoreUnderLock

\* ObservationCoversAccepted: while serve has the lock, what is recorded was
\* compared with every batch accepted by then, because no other process accepts
\* one and the manifests are read under the lock (lock.go:10-12, run.go:16-17).
THEOREM RecordedCoversAccepted == Spec => ObservationCoversAccepted
<1>1. IInv /\ [Next]_vars => [rows' # rows /\ lock => found.covers = accepted]_vars
  <2> SUFFICES ASSUME IInv, [Next]_vars, rows' # rows, lock
               PROVE  found.covers = accepted
      OBVIOUS
  <2>1. scan = "recording"
    BY DEF Next, Process, Others, Service, Page, vars, process, catalog, page, history,
           AcquireLock, OpenRuntime, Serve, Signal, CloseStore, Release, Exit, Crash, Gone,
           AcceptBatch, Tick,
           BeginScan, ReadManifests, EndListing, BeginRecord, CommitRecord, ScanFails, EndScan,
           Click, RefreshArrives, RefreshAnswers, Settle, SettleFailed, Poll, Reload,
           ReadRecords, ReadState, Arrive, Drop
  <2> QED  BY <2>1 DEF IInv, CInv, CoversWhileLocked
<1> QED  BY <1>1, Invariance, PTL DEF Spec, ObservationCoversAccepted

=============================================================================
