-------------------------------- MODULE Scan --------------------------------
(***************************************************************************)
(* One storage observation: internal/observe/run.go and scan.go, with the  *)
(* storage requests they make (internal/storage/reader.go) and the record  *)
(* they leave in the catalog (internal/catalog/observation.go).            *)
(*                                                                         *)
(* A scan reads the accepted manifests, lists the bucket page by page, and *)
(* compares the accepted objects one at a time: a HEAD, and a GET when     *)
(* anything differs or a complete reconciliation is asked for.  Each       *)
(* request sees storage as it is at that moment, and publishers change it  *)
(* between any two.  One scan runs at a time (module ObservationService).  *)
(*                                                                         *)
(* Covered: Run, Scan, RecordObservation, and what becomes of a scan when  *)
(* a request is answered otherwise (module StorageReader), the catalog     *)
(* fails, or the process dies.                                             *)
(* Not covered: the wording of a status detail, beyond whether it may say  *)
(* that a body is unchanged; the time of an observation (module Manager);  *)
(* a manifest without objects, which the inner join of AcceptedManifests   *)
(* never returns.                                                          *)
(***************************************************************************)
EXTENDS StorageReader, Sequences, FiniteSetsExt, Functions

CONSTANTS
    Keys,           \* object keys, numbered in listing order
    Versions,       \* Versions[k]: what k may hold, [size, etag, modified, meta, body]
    NoObject,       \* nothing is stored under a key
    Publications,   \* numbered in the order of their paths
    Manifest,       \* Manifest[p]: the accepted version of each object of p
    PageSize,       \* keys in one page of a listing
    NoSize,         \* PublicationResult.ObservedSize is nil
    MaxChanges,     \* bound on the changes to storage during a scan (model only)
    MaxScans        \* bound on the observations recorded (model only)

ASSUME ScanAssumption ==
    /\ Keys \subseteq Nat \ {0} /\ IsFiniteSet(Keys)      \* a bucket is finite
    /\ Publications \subseteq Nat /\ IsFiniteSet(Publications)
    /\ PageSize \in Nat \ {0}
    /\ \A k \in Keys : NoObject \notin Versions[k] /\ \A v \in Versions[k] : v.size \in Nat
    /\ NoSize \notin Nat
    /\ MaxChanges \in Nat /\ MaxScans \in Nat

\* One object belongs to one Publication (module Adoption, OwnedOnce).
ASSUME ManifestAssumption ==
    \A p \in Publications :
        /\ DOMAIN Manifest[p] \subseteq Keys /\ DOMAIN Manifest[p] # {}
        /\ \A k \in DOMAIN Manifest[p] : Manifest[p][k] \in Versions[k]
        /\ \A q \in Publications :
              p # q => DOMAIN Manifest[p] \cap DOMAIN Manifest[q] = {}

VARIABLES
    storage,    \* storage[k]: the version stored under k
    accepted,   \* Publications the catalog manages
    changes,    \* changes made to storage since the scan began
    \* the scan in flight
    complete,   \* Options.Complete
    pc, managed, after, listing, todo, differs, verdict,
    outcome,    \* what the last Run came to, until the next begins
    \* the catalog
    records,    \* the rows of observations, in the order of their rowid
    \* history, for the properties only
    held,       \* held[k]: what k has held since the scan began
    calm,       \* storage has not changed since the scan began
    ended       \* the answer that ended the last Run; Served when none did

outside == <<storage, accepted, changes>>
scan == <<complete, pc, managed, after, listing, todo, differs, verdict>>
result == <<outcome, ended>>
history == <<held, calm>>
vars == <<outside, scan, records, history, result>>

Served == [status |-> 200, body |-> "whole"]

Contents(k) == Versions[k] \cup {NoObject}
Present(s) == {k \in Keys : s[k] # NoObject}
Claimed(pubs) == UNION {DOMAIN Manifest[p] : p \in pubs}
OwnerOf(k) == CHOOSE p \in Publications : k \in DOMAIN Manifest[p]
Accepted(k) == Manifest[OwnerOf(k)][k]

\* The sum of the sizes f gives to the keys ks.
SizeOf(f, ks) == SumFunction([k \in ks |-> f[k].size])

Verdicts == {"same", "absent", "touched", "changed"}

TypeOK ==
    /\ \A k \in Keys : storage[k] \in Contents(k)
    /\ accepted \subseteq Publications /\ managed \subseteq Publications
    /\ changes \in 0..MaxChanges
    /\ pc \in {"idle", "listing", "comparing", "reading"}
    /\ after \in Keys \cup {0}
    /\ DOMAIN listing \subseteq Keys
    /\ todo \subseteq DOMAIN listing \cap Claimed(managed)
    /\ DOMAIN verdict \subseteq Claimed(managed)
    /\ \A k \in DOMAIN verdict : verdict[k] \in Verdicts
    /\ outcome \in {"never", "succeeded", "unavailable", "misconfigured", "failed"}
    /\ ended \in Answers \cup {Served}
    /\ differs \in BOOLEAN /\ calm \in BOOLEAN /\ complete \in BOOLEAN

Idle ==
    /\ pc = "idle" /\ complete = FALSE /\ managed = {} /\ after = 0 /\ listing = <<>>
    /\ todo = {} /\ differs = FALSE /\ verdict = <<>>
    /\ held = [k \in Keys |-> {}] /\ calm = FALSE

Init ==
    /\ storage \in {s \in [Keys -> UNION {Contents(k) : k \in Keys}] :
                       \A k \in Keys : s[k] \in Contents(k)}
    /\ accepted \in SUBSET Publications
    /\ changes = 0 /\ outcome = "never" /\ ended = Served
    /\ Idle
    /\ records = <<>>

(***************************************************************************)
(* Outside the scan                                                        *)
(***************************************************************************)

\* A publisher writes or deletes an object.
Publish(k, v) ==
    /\ storage[k] # v
    /\ storage' = [storage EXCEPT ![k] = v]
    /\ IF pc = "idle" THEN UNCHANGED <<changes, history>>
       ELSE /\ changes < MaxChanges
            /\ changes' = changes + 1
            /\ held' = [held EXCEPT ![k] = @ \cup {v}]
            /\ calm' = FALSE
    /\ UNCHANGED <<accepted, scan, records, result>>

\* A commit accepts a Publication (module Adoption).
Adopt(p) ==
    /\ p \notin accepted
    /\ accepted' = accepted \cup {p}
    /\ UNCHANGED <<storage, changes, scan, records, history, result>>

(***************************************************************************)
(* Scan                                                                    *)
(***************************************************************************)

\* Run: AcceptedManifests, with the options of its caller.
Begin ==
    /\ pc = "idle" /\ Len(records) < MaxScans
    /\ complete' \in BOOLEAN
    /\ pc' = "listing"
    /\ managed' = accepted
    /\ held' = [k \in Keys |-> {storage[k]}]
    /\ calm' = TRUE
    /\ outcome' = "never" /\ ended' = Served
    /\ UNCHANGED <<outside, after, listing, todo, differs, verdict, records>>

\* The keys of the next page of a listing.
Page ==
    LET rest == {k \in Present(storage) : k > after}
    IN  {k \in rest : Cardinality({j \in rest : j < k}) < PageSize}

Truncated == \E k \in Present(storage) : k > after /\ k \notin Page

\* What is listed with the page.
Listed ==
    [k \in Page \cup DOMAIN listing |-> IF k \in Page THEN storage[k] ELSE listing[k]]

\* Faulty variant of ListPage: the first page is taken for the listing.
ListPage_FirstOnly ==
    LET seen == [k \in Page |-> storage[k]]
    IN  /\ pc = "listing"
        /\ listing' = seen
        /\ pc' = "comparing"
        /\ verdict' = [k \in Claimed(managed) \ DOMAIN seen |-> "absent"]
        /\ todo' = Claimed(managed) \cap DOMAIN seen
        /\ UNCHANGED <<outside, complete, managed, after, differs, records, history, result>>

\* Faulty variant of ListPage: accepted objects the listing lacks are not set aside.
ListPage_AllTodo ==
    /\ pc = "listing" /\ ~Truncated
    /\ listing' = Listed
    /\ pc' = "comparing"
    /\ todo' = Claimed(managed)
    /\ UNCHANGED <<outside, complete, managed, after, differs, verdict, records, history, result>>

\* ListObjects: one page, and the next after its last key when there is more.
\* At the end of the listing the accepted objects it lacks are absent.
ListPage ==
    /\ pc = "listing"
    /\ listing' = Listed
    /\ IF Truncated
       THEN /\ after' = Max(Page)
            /\ UNCHANGED <<pc, verdict, todo>>
       ELSE /\ pc' = "comparing"
            /\ verdict' = [k \in Claimed(managed) \ DOMAIN Listed |-> "absent"]
            /\ todo' = Claimed(managed) \cap DOMAIN Listed
            /\ UNCHANGED after
    /\ UNCHANGED <<outside, complete, managed, differs, records, history, result>>

\* The objects are compared in the order of path and key.
First ==
    CHOOSE k \in todo : \A j \in todo :
        \/ OwnerOf(k) < OwnerOf(j)
        \/ OwnerOf(k) = OwnerOf(j) /\ k <= j

\* withinTolerance; 0 is the time of an object that has none.
WithinTolerance(t, u) ==
    IF t = 0 \/ u = 0 THEN t = u ELSE t <= u + 1 /\ u <= t + 1

SameListing(v, a) == v.size = a.size /\ v.etag = a.etag
SameMetadata(v, a) ==
    WithinTolerance(v.modified, a.modified) /\ v.etag = a.etag /\ v.meta = a.meta

Judge(k, finding) ==
    /\ verdict' = [j \in DOMAIN verdict \cup {k} |-> IF j = k THEN finding ELSE verdict[j]]
    /\ todo' = todo \ {k}

\* StatObject no longer finds what the listing saw: absence, not an error.
StatGone ==
    /\ pc = "comparing" /\ todo # {} /\ storage[First] = NoObject
    /\ Judge(First, "absent")
    /\ UNCHANGED <<outside, complete, pc, managed, after, listing, differs, records, history, result>>

\* Listing and metadata against the manifest: without a difference the body is
\* not downloaded, unless a complete reconciliation asks for it.
Stat ==
    /\ pc = "comparing" /\ todo # {} /\ storage[First] # NoObject
    /\ differs' = ~(/\ SameListing(listing[First], Accepted(First))
                    /\ SameMetadata(storage[First], Accepted(First)))
    /\ IF differs' \/ complete
       THEN pc' = "reading" /\ UNCHANGED <<todo, verdict>>
       ELSE Judge(First, "same") /\ UNCHANGED pc
    /\ UNCHANGED <<outside, complete, managed, after, listing, records, history, result>>

\* Faulty variant of Compared: an object gone by now counts as unchanged.
Compared_GoneIsSame(k, got) ==
    IF got = NoObject THEN "same"
    ELSE IF got.body # Accepted(k).body THEN "changed"
    ELSE IF differs THEN "touched" ELSE "same"

\* The bytes decide whether an object is still what was accepted.
Compared(k, got) ==
    IF got = NoObject THEN "absent"
    ELSE IF got.body # Accepted(k).body THEN "changed"
    ELSE IF differs THEN "touched" ELSE "same"

\* ReadObject: a GET of the object as it is by now, NoObject for a 404.
Read ==
    /\ pc = "reading"
    /\ Judge(First, Compared(First, storage[First]))
    /\ pc' = "comparing"
    /\ differs' = FALSE
    /\ UNCHANGED <<outside, complete, managed, after, listing, records, history, result>>

(***************************************************************************)
(* The observation                                                         *)
(***************************************************************************)

Found(p) == {k \in DOMAIN Manifest[p] : verdict[k] # "absent"}

\* Faulty variant of ObservedSize: the size storage has by now, not the listed one.
ObservedSize_Current(p) ==
    IF Found(p) = {} THEN NoSize
    ELSE SizeOf(storage, Found(p) \cap Present(storage))

\* The listed bytes of the objects that are there.
ObservedSize(p) == IF Found(p) = {} THEN NoSize ELSE SizeOf(listing, Found(p))

\* scanPublication
PublicationState(p) ==
    IF Found(p) = {} THEN "missing"
    ELSE IF \E k \in DOMAIN Manifest[p] : verdict[k] # "same" THEN "drifted"
    ELSE "in_sync"

Unclaimed == DOMAIN listing \ Claimed(managed)

\* The result of Scan in its durable form.
Observation ==
    [publications   |-> [p \in managed |->
                           [state |-> PublicationState(p), size |-> ObservedSize(p)]],
     unclaimed      |-> Unclaimed,
     totalBytes     |-> SizeOf(listing, DOMAIN listing),
     acceptedBytes  |-> SizeOf([k \in Claimed(managed) |-> Accepted(k)], Claimed(managed)),
     unclaimedBytes |-> SizeOf(listing, Unclaimed),
     mutationLock   |-> IF Unclaimed # {} \/ \E p \in managed : PublicationState(p) # "in_sync"
                        THEN "global" ELSE "none"]

Rest ==
    /\ pc' = "idle" /\ complete' = FALSE /\ managed' = {} /\ after' = 0 /\ listing' = <<>>
    /\ changes' = 0 /\ todo' = {} /\ differs' = FALSE /\ verdict' = <<>>
    /\ held' = [k \in Keys |-> {}] /\ calm' = FALSE

Ends(error, answer) ==
    /\ outcome' = OutcomeOf(error) /\ ended' = answer
    /\ Rest
    /\ UNCHANGED <<storage, accepted>>

\* Faulty variant of Record: findings that nobody classified do not lock.
Record_NeverLocks ==
    /\ pc = "comparing" /\ todo = {}
    /\ records' = Append(records, [Observation EXCEPT !.mutationLock = "none"])
    /\ Ends("none", Served)

\* RecordObservation: the observation and every result, in one transaction.
Record ==
    /\ pc = "comparing" /\ todo = {}
    /\ records' = Append(records, Observation)
    /\ Ends("none", Served)

\* The error of the request under way, answered by a.
RequestError(a) ==
    CASE pc = "listing" -> ListError(a)
      [] pc = "comparing" /\ todo # {} -> StatError(a)
      [] pc = "reading" -> ReadError(a)
      [] OTHER -> "none"

\* A request is not served, and Run ends with nothing recorded.  404 answers a
\* listing when there is no bucket; for an object it is no error (StatGone, Read).
RequestFails(a) ==
    /\ RequestError(a) # "none"
    /\ a.status = 404 => pc = "listing" /\ Present(storage) = {}
    /\ Ends(RequestError(a), a)
    /\ UNCHANGED records

\* AcceptedManifests or RecordObservation fails.
CatalogFails ==
    /\ \/ pc = "listing" /\ after = 0
       \/ pc = "comparing" /\ todo = {}
    /\ Ends("other", Served)
    /\ UNCHANGED records

\* The process dies; the next one knows of no outcome.
Die ==
    /\ pc # "idle"
    /\ outcome' = "never" /\ ended' = Served
    /\ Rest
    /\ UNCHANGED <<storage, accepted, records>>

-----------------------------------------------------------------------------

Next ==
    \/ \E k \in Keys : \E v \in Contents(k) : Publish(k, v)
    \/ \E p \in Publications : Adopt(p)
    \/ Begin \/ ListPage \/ StatGone \/ Stat \/ Read \/ Record
    \/ \E a \in Answers : RequestFails(a)
    \/ CatalogFails \/ Die

Spec == Init /\ [][Next]_vars

(***************************************************************************)
(* Properties                                                              *)
(***************************************************************************)

Records == Len(records') > Len(records)
New == records'[Len(records')]

\* What an observation of a bucket that never changes has to say.
Reference ==
    LET present == Present(storage)
        Same(k) == /\ storage[k] # NoObject
                   /\ SameListing(storage[k], Accepted(k))
                   /\ SameMetadata(storage[k], Accepted(k))
                   /\ complete => storage[k].body = Accepted(k).body
        StateOf(p) == IF DOMAIN Manifest[p] \cap present = {} THEN "missing"
                      ELSE IF \A k \in DOMAIN Manifest[p] : Same(k) THEN "in_sync"
                      ELSE "drifted"
        inOrder == present \subseteq Claimed(managed) /\ \A k \in Claimed(managed) : Same(k)
    IN  [states |-> [p \in managed |-> StateOf(p)],
         unclaimed |-> present \ Claimed(managed),
         totalBytes |-> SizeOf(storage, present),
         mutationLock |-> IF inOrder THEN "none" ELSE "global"]

\* scan.go:80-83: a scan during which storage stands still records exactly the
\* classification, the usage and the lock that storage calls for.
ExactWhenCalm ==
    [][Records /\ calm =>
         /\ [p \in managed |-> New.publications[p].state] = Reference.states
         /\ New.unclaimed = Reference.unclaimed
         /\ New.totalBytes = Reference.totalBytes
         /\ New.mutationLock = Reference.mutationLock]_vars

\* However storage moves under a scan, nothing it says of a Publication is
\* without a witness: each object of one in sync matched its listing and its
\* metadata at some moment, and each object of a missing one was away at some.
FindingsWitnessed ==
    [][Records => \A p \in managed : \A k \in DOMAIN Manifest[p] :
         /\ New.publications[p].state = "in_sync" =>
              /\ \E v \in held[k] \ {NoObject} : SameListing(v, Accepted(k))
              /\ \E v \in held[k] \ {NoObject} : SameMetadata(v, Accepted(k))
              /\ complete =>
                    \E v \in held[k] \ {NoObject} : v.body = Accepted(k).body
         /\ New.publications[p].state = "missing" => NoObject \in held[k]]_vars

\* observation.go:19-21: the lock is off only if every object that was in the
\* bucket for the whole scan belongs to a Publication, page breaks or not, and
\* every accepted object was there.
UnlockedIsAccounted ==
    [][Records /\ New.mutationLock = "none" =>
         \A k \in Keys :
            /\ NoObject \notin held[k] => k \in Claimed(managed)
            /\ k \in Claimed(managed) => held[k] # {NoObject}]_vars

\* The usage adds up: what the Publications are found to hold and what nobody
\* claims never exceed what the bucket holds.
UsageAddsUp ==
    \A i \in DOMAIN records :
        LET r == records[i]
            sized == {p \in DOMAIN r.publications : r.publications[p].size # NoSize}
        IN  SizeOf(r.publications, sized) + r.unclaimedBytes <= r.totalBytes

\* What reader.go:37-38 calls a transport-level or server failure.
Outage(a) ==
    \/ a = NoAnswer \/ a = [status |-> 200, body |-> "cut"]
    \/ a.status \in {408, 429} \cup 500..599

\* The scan under way is ended by an answer of storage.
StorageEnds == pc # "idle" /\ pc' = "idle" /\ ended' # Served

\* A listing breaks off after its status has arrived.
ListingBreaksOff == pc = "listing" /\ ended'.body = "cut"

\* s3.go:122-136, reader.go:279-291: what an operator's refresh comes to is what
\* the storage status of the manager says of the answer that ended the scan,
\* unless that was a 404 or a success, which a scan and the check take
\* differently.  It comes to "unavailable" for every outage and for nothing else,
\* but for a listing that breaks off: reader.go:137 makes of that what reader.go:41
\* has for a request that storage rejected.
OutcomeAgreesWithStatus ==
    [][StorageEnds =>
         /\ ended'.status \notin {404} \cup 200..299 => outcome' = Check(ended')
         /\ ListingBreaksOff => outcome' = "misconfigured"
         /\ outcome' = "unavailable" <=> Outage(ended') /\ ~ListingBreaksOff]_vars

=============================================================================
