# Page Hub: formal models and proofs

Page Hub adopts a bucket of static pages into a catalog, observes the bucket
from then on, and shows operators what it found. This directory holds TLA+
models of its own logic, the TLC instances that check them, and proofs of the
central results. Line numbers refer to the commit beside this directory;
`PROJECT.json` maps every definition to the lines it stands for.

    tlc -workers 2 -config MCScan.cfg MCScan      # check one instance
    tlapm ObservationService_proofs.tla           # check the proofs of one module

## 1. The system

Three commands of one binary share a SQLite catalog and an S3 bucket that they
only ever read. `migrate` extends the schema; `plan` and `commit` adopt a
batch; `serve` observes and answers HTTP. Publishers write to the bucket
without asking Page Hub.

| Component | State it keeps | Operations | Talks to |
|---|---|---|---|
| Catalog lock, `catalog/lock.go` | the lock path, the flock of the file behind it | `AcquireLock`, `Release` | taken by migrate, commit and serve |
| Migrations and opening, `catalog/catalog.go` | `schema_migrations`, `user_version`, the tables | `Migrate`, `OpenRuntime` | under the lock |
| Declaration, `adoption/declaration.go` | none: rules over a file | `Validate`, `CanonicalURL`, `ProbeURL` | called by plan and commit |
| Plan and commit, `adoption/plan.go`, `commit.go`, `probe.go` | a plan document on disk, the progress of a command | `BuildPlan`, `Verify`, `Commit` | reads bucket and routes, writes the catalog once |
| Accepted records, `catalog/adopt.go` | projects, Publications, manifests, operations | `FindOperation`, `CommitAdoptionBatch` | called by commit |
| Observation service, `observe/service.go` | the scan in flight, the last outcome, two contexts | `Start`, `Refresh`, `State`, the schedule | called by requests and by its own goroutine |
| Scan, `observe/scan.go`, `run.go` | a listing, one finding per accepted object | `Run`, `Scan` | reads manifests and bucket, records one observation |
| Observation records, `catalog/observation.go` | observations and their results | `AcceptedManifests`, `RecordObservation`, `LatestObservation` | called by scan and inventory |
| Storage reader, `storage/reader.go`, and the check of `storage/s3.go` | none | `ListObjects`, `StatObject`, `ReadObject`, `Check`, error classes | the bucket |
| Manager view, `catalog/inventory.go`, `server/inventory.go` | none: joins records and service state | inventory, refresh | catalog and service |
| HTTP boundary, `server/server.go`, `server/preview.go` | none | routing, authorisation, the public reader, previews | the view, the public reader |
| Configuration, `config/config.go` | the settings of a process | `Validate`, `NormalizePublicBaseURL`, `PublicBaseURLFromEnv` | read by serve, plan and commit |
| Life cycle, `cmd/page-hub/main.go` | processes, signals, deferred closes | `runServe`, `runPlan`, `runCommit`, `runMigrate` | everything above |
| Browser client, `web/src/App.tsx` | a refresh request, the inventory on display and the one awaited | polls, refreshes on opening and on a click | the manager's API |
| S3 signing, compatibility check, ids, assets | none to speak of | pure or presentational | |

What is hard here, and where it bites (the full list is `hazards` in
`PROJECT.json`):

* **Concurrency.** Requests and the schedule share one scan
  (`service.go:125-157`); several processes share one lock file whose name and
  inode are separate things (`lock.go:13-44`).
* **Stale reads.** A joiner reads the outcome after it was woken; a commit
  relies on a plan made hours before; a listing is as old as its scan is long;
  the manifests of a scan are read before the listing.
* **Lost and late answers.** The page cancels and repeats its requests, and the
  manager may end and start again between any two of them; an answer holds two
  reads of different moments.
* **Crashes.** Every command may die between any two steps, and commit must be
  repeatable with the same operation ID.
* **Partial failure.** A batch, an observation and a migration are many
  statements that must all hold or all be gone; a listing may break off after
  its status has arrived.
* **One thing in two spellings.** A path is compared as it is written and
  requested as it is decoded; the base URL of a plan is normalized at other
  places than the one its commit is configured with; the check of storage and
  the reader classify one answer in two pieces of code.
* **Liveness.** Joiners wait without a timeout; the schedule has to survive
  failures and to end at shutdown.

What makes each component correct is stated as properties in its module; the
table in section 3 names them.

## 2. The modules

| Module | Models | Correspondence |
|---|---|---|
| `CatalogLock` | lock, `AcquireLock` | One action per system call: `Open`, `Flock`, `Busy` are `acquireFlock`; `Remove`, `Unlock`, `CloseFile` are `Release`; `Die` is `os.Exit` or a kill. `linked` is what the path leads to, `holder[i]` the flock of an inode, `file[p]` what `p` has open. |
| `RefreshContract` | the promise of `Refresh` | An abstract specification: lead, join, end, answer, leave; no mutex, channel or schedule. |
| `ObservationService` | `service.go` as `main.go` wires it | A step is one critical section of `mu` or what lies between two. `Join`, `Lead`, `ScanBegins`, `ScanEnds`/`ScanAborts`, `Finish`, `Wake` are `Refresh`, where a scan begins with the first query of `Run`, which a context that is cancelled by then fails; `Sleep`, `TimerFires`, `SelectTimer`, `SelectDone` the schedule; `Start`, `Shutdown`, `Disconnect` the contexts; `Respond` is `serveRefresh`. `Contract` is the refinement mapping to `RefreshContract`. |
| `Declaration` | `declaration.go` | Pure operators named after the functions; paths and keys are sequences of segments, and what the code asks of characters is membership of a segment in a set. |
| `Config` | `config.go` | `ValidSettings` is `Validate` over the classes of values the code tells apart; `NormalizePublicBaseURL` takes off one slash, as the code does, of up to `MaxSlashes`. |
| `Boundary` | `server.go`, `preview.go` | Extends `Declaration` and `Config`. `Decoded` is what net/http makes of a segment: any segments at all, several where a slash was escaped, but never none. `Handler` is the routing of a decoded path, `Answer` who answers a request and what of the assertion it is told, `Preview` the answer of `servePreview` for what was last observed. |
| `CatalogContract` | the promise of the catalog | An abstract specification of two actions: accept an operation once, as one batch that clashes with nothing; tell the result on record. No command, plan, storage or transaction. |
| `Adoption` | `plan.go`, `commit.go`, `probe.go`, `adopt.go`, `runPlan`, `runCommit` | Extends `Declaration` and `Config`. `BeginPlan`, `List`, `ReadObject`, `Probe`, `WritePlan` are a plan, one storage or HTTP request a step, `at` being where the loops of `BuildPlan` over Publications, objects and probes have got to; `BeginCommit`, `Replay`, `Recheck`, the same three requests, `Approve`, `Accept`, `Report` are a commit. `Stop` is every failure and every death. Each command is configured with a base URL of its own (`FromEnv`). `Contract` is the refinement mapping to `CatalogContract`, by which `Accept` accepts and `Replay` and `Report` tell. |
| `StorageReader` | `reader.go`, `s3.go` | What the listing, the HEAD and the GET make of an answer (`ListError`, `StatError`, `ReadError`), what `OutcomeOf` makes of that, and what `Check` makes of the same answer. An answer is a status and how its body arrived. |
| `Scan` | `run.go`, `scan.go`, `observation.go`, the pages of `reader.go` | `Begin` reads the manifests, `ListPage` one page, `StatGone`/`Stat`/`Read` are `compareObject`'s requests, `Record` is `Result.Record` and its transaction. `RequestFails(a)` is any of the requests with an answer that `StorageReader` makes an error of; `CatalogFails` and `Die` are the other two ways a scan ends early. `Publish` and `Adopt` are everybody else. |
| `Migrations` | `Migrate`, `OpenRuntime` | `Enter` is `AcquireLock`; `ReadHistory` reads and verifies; `ApplyMigration` is one transaction; `ReadUserVersion` and `Open` are `OpenRuntime`'s two reads. |
| `Manager` | `runServe`, `server/inventory.go`, `App.tsx`, with the scan in flight | `AcquireLock` to `Release` and `Exit` are `runServe` with its deferred calls, `Crash` everything else that ends it. `BeginScan` to `EndScan` are a scan as far as the catalog and the clock see it, `AcceptBatch` the commit command, `Latest` the query of `LatestObservation`. `ReadRecords` and `ReadState` are the two reads of `serveInventory`, `RefreshArrives` and `RefreshAnswers` the two ends of `serveRefresh`. `Click`, `Poll`, `Settle`, `SettleFailed`, `Arrive`, `Drop`, `Reload` are the page; `fetch[f]` is an inventory request and what it has read, `current` the one the page awaits, `shown` the newest inventory it has: when a request fails for good the page keeps it, and puts "Inventory is unavailable." in place of the list until the next answer. |

`MC*` modules and `.cfg` files are the instances for TLC. `*_proofs` modules
hold the theorems, each about the module it is named after. Definitions named `X_Something` and marked "Faulty variant"
are plausible bugs in `X`; each is used in place of `X` to confirm that a
property notices it, and no specification refers to them.

How the modules stand to each other: `Adoption` uses the operators of
`Declaration` and `Config`, implements `CatalogContract`, and establishes
(`OwnedOnce`) what `Scan` assumes of manifests (`ManifestAssumption`).
`Boundary` is what accepted declarations come to for a reader: which handler
answers their URLs and where their preview leads. `Scan` takes the errors of its
requests from `StorageReader`. `ObservationService` treats a scan as an outcome;
`Scan` is what happens inside. `Manager` composes the process, the lock and the
catalog it opens, the batches others accept, the scan in flight and a page; of
an observation it keeps the second it was made in and the batches its manifests
cover. `Adoption` and `Scan` do not assume that the lock excludes, because
`CatalogLock` shows when it does not; `Migrations` has both cases; `Manager` has
the lock as it is meant to be, and `ObservationCoversAccepted` is what that is
worth: without it a batch accepted during a scan is reported as unclaimed.

Abstractions, and why they are safe for these properties:

* *Digests.* SHA-256 is taken as free of collisions: a digest is what it is the
  digest of. An object in `Adoption` is one version; in `Scan` it is a record
  of the five things compared (size, ETag, time, other metadata, body).
* *Settings and answers.* A setting, a base URL, an answer of storage is one of
  the classes the code distinguishes: an address is loopback, a socket or
  another; a body arrives, breaks off or is not what was asked for.
* *Transactions.* A SQLite transaction on one database file is one step.
* *Time.* Delays have no length: a timer may fire at any moment. In
  `Manager` the wall clock counts seconds and does not step back.
* *The page's query library.* TanStack Query is modelled as `App.tsx` uses it:
  an invalidation cancels the fetch in flight and starts another, except while
  the page has no data yet, when the fetch in flight is waited for; a failed
  query is sent again, a failed mutation is not.
* *Left out:* names, wording, logs, identifiers and the JSON forms.

History variables (`raced`; `fresh`, `theirs`, `aborted`; `told`, `held`,
`calm`, `ended`; `owing`, `owed`) exist for the properties alone: no guard reads them.

## 3. What the runs check

| Run | Instance | Question and answer |
|---|---|---|
| `lock` | 3 processes, 4 inodes | `ExclusiveUnlessRaced`: exclusive through all interleavings and deaths, except where a Release unlinks the path while another process has the file open. `RemovesOwnFile`: outside that, Release unlinks its own file. `StaleFileNeverBlocks`: a dead process's file shuts nobody out. |
| `lock_race` | 2 processes | *Violated:* `MutualExclusion`. See findings. |
| `service` | schedule and 2 requests, 2 channels, 1 failure | `SingleScan`; `FreshOutcome`: no answer is older than the call; `OnlyShutdownAborts`: a disconnect ends no scan; `DailyOnlyAfterSuccess`; `ContractSteps`: each step is one of the contract's or none of its business. Under fairness: `RefreshReturns`, `ScansGoOn`, `ScheduleStops`, and `KeepsContract`, the contract with its fairness. |
| `joiner_outcome` | as `service`, with 3 channels and 2 failures | *Violated:* `JoinerSharesOutcome`. |
| `failure_retry` | as `joiner_outcome` | *Violated:* `FailureAwaitsRetry`, without a shutdown. |
| `declaration` | all declarations of up to 2 Publications, 4 segments, one with an escaped slash, depth 3; all settings; 14 paths, 3 methods, 6 forms of the assertion header | Against a reference of what a Publication serves, not against the rules themselves. `RoutesOwnedOnce`: no request is served by two Publications. `OutsideManager`: everything accepted lies beneath its project, which is not the manager's name in any letter case, and a request for it comes to the manager only where the project's prefix decodes to that name. `PreviewsItsOwn`: a preview leads to what was asked for, and only when that was found in sync. `AnswersOnlyTheOperator`: under any settings `Validate` accepts. |
| `encoded_routes` | paths of the manager's name and two escapes of it | *Violated:* `RoutesOwnedOnce`. See findings. |
| `adoption` | 2 commands, 4 declarations, 2 operation IDs, 2 objects, 2 versions, an origin in every spelling of up to 2 slashes, one change outside | `OwnedOnce` over all batches; `AcceptedAsApproved`; `KeepsContract`: the refinement of `CatalogContract`, for repeated, raced and dying commits; `AcceptedWasThere`; `FrozenBucketCovered`. |
| `base_url_spelling` | 1 command, an origin with two slashes | *Violated:* `PlanAndCommitAgree`. See findings. |
| `scan` | 3 keys, up to 4 versions, 2 Publications, pages of 1, 2 changes, 6 statuses | `ExactWhenCalm` against a reference classification; `FindingsWitnessed`, `UnlockedIsAccounted`, `UsageAddsUp` when storage moves and batches are accepted under the scan, ordinary and complete. `OutcomeAgreesWithStatus`: a refresh comes to what the storage status says of the same answer, 404 and successes apart, and to "unavailable" for every outage but one, a listing that breaks off. |
| `migrations` | 2 processes, a build, its predecessor and a fork, every recorded history, lock or no lock | `SchemaIsRecorded`, `ExtendsOwnHistory`, `RunsOnOwnSchema`. |
| `manager` | a page with 2 inventory requests, 2 observations, 1 batch, 2 seconds, serve started and ended for ever | `NeverOlder`: the page never replaces an observation by an older one; `RefreshReflected`: after a refresh that succeeded has settled, a loaded page takes no inventory from before it, though two observations may share a second; `UsesStoreUnderLock`: the catalog is read and written under its lock, down to the end of the shutdown; `ObservationCoversAccepted`: what is recorded under the lock was compared with every batch accepted by then. |

Why the bounds are enough to be worth running:

* *lock*: the race takes two processes; a third can take over the path in the
  middle of it. One inode more than processes keeps creation possible. Processes
  come and go for ever: nothing is bounded but their number, and the theorems
  lift that.
* *service*: with the schedule and two requests a scan can be led by each,
  joined by the others and be followed by the next before a joiner wakes.
  Callers come back for ever. Two channels are what it takes for a scan to begin
  while a joiner of the one before has still to wake; all failures are treated
  alike. The theorems lift the numbers of requests, channels and failures.
* *declaration*: a rule looks at the first segment, at the number of segments,
  or at a common prefix of two paths, all of which differ within depth 3. The
  segments spell an ordinary name, the empty one, the reserved one and one that
  is the reserved one once an escaped slash is decoded; the theorems lift depth and segments, and those about `Valid` the number of
  Publications. The settings take every value that
  a condition of `Validate` or of the boundary asks for, the paths reach every
  handler and three kinds of paths that only look reserved, and the assertion
  header is missing, empty, wrong, right, or doubled.
* *encoded_routes*: two spellings of one name are all it takes.
* *adoption*: one outside change can fall between any two requests of either
  command; the declarations collide in object, prefix and nested path, one is
  invalid, one has two projects. `MaxDrift` is the only bound on behaviour. The
  base URL has up to two slashes after the origin, of which one can be taken off
  at a time; more would only leave more. `base_url_spelling` needs no more than
  one command and two slashes.
  The theorems lift the rest.
* *scan*: with pages of one key every listing has a break at every place; two
  changes are what it takes to move an object. The statuses are one of each
  class the code has: 200, another success, a refusal, 404, a retryable client
  error and a server's. `MaxChanges` and `MaxScans` are bounds of the model
  alone; the theorems lift them and the numbers of keys, versions and
  Publications.
* *migrations*: three versions, a fork that agrees on the first, and any subset
  of versions with any checksums as the history found.
* *manager*: of two requests one is awaited and one was cancelled and answers
  late; two observations are an older and a newer one beside none, in one second
  or in two; one batch falls before, between or after. `MaxRecords`,
  `MaxBatches` and `MaxTime` bound the model alone; the theorems lift the three
  of them and the number of requests.

Deadlock is checked everywhere except in the runs of `MCDeclaration`, where a declaration that was judged and settings that were refused have nothing
left to do.

### Fairness

Only `ObservationService` and `RefreshContract` claim liveness. Weak fairness
of `ScanBegins \/ ScanEnds \/ ScanAborts` says a scan that is due begins and
ends: its storage requests are bounded by the client's timeouts. Weak fairness of `Finish`, `Wake`, `Sleep`,
`SelectTimer` and of the schedule's own call says a runnable goroutine runs;
of `TimerFires`, that a timer fires; of `Start`, that `runServe` gets there.
`SelectDone` has strong fairness: with the timer and the cancellation both
ready, Go's `select` picks at random, so it does not pick the timer for ever.
Nobody is obliged to request, to disconnect, or to shut down.

### Observations that are not findings

* While the page has nothing to show, a refresh that settles does not start a
  new fetch but waits for the one in flight, which may have read the catalog
  before. The first inventory may therefore be older than the refresh, and the
  next poll corrects it: `RefreshReflected` speaks of a loaded page.
* `Serve` returns as soon as `Shutdown` begins, so `runServe` closes the
  catalog and releases the lock while a scan may be inside a transaction, which
  may then still commit after `Release`. `UsesStoreUnderLock` says that none
  *begins* without the lock.
* A listing whose body breaks off is classified by the status that came before
  it, 200, and so as a request that storage rejected (`reader.go:137`), though
  `reader.go:37-41` has one class for transport failures and another for
  rejections. The operator is told of a misconfiguration, while the storage
  status says that storage is reachable. `OutcomeAgreesWithStatus` names this
  outage as the one that is not reported as one.
* An answer holds the observation and the refresh state of two moments. No
  property reads `running`: the page may show a refresh as over and lack its
  result until the next poll.
* `/_page-hub` redirects to `/_page-hub/`, at which there is nothing.

### Findings

1. `lock_race`: `Release` unlinks before it unlocks, and `acquireFlock` never
   checks that the path still leads to the file it locked. One process opens
   the path, the holder unlinks it and unlocks, the first process locks the
   orphan, a third creates and locks a new file. The comment at `lock.go:32-34`
   says this order prevents exactly that.
2. `joiner_outcome`: a joiner reads `lastOutcome` in a critical section of its
   own and may return the outcome of a later scan than the one it joined
   (`service.go:121-122` says "joins that scan and returns its outcome"). What
   does hold, and is proved, is `FreshOutcome`.
3. `failure_retry`: a scan that a request leads may fail while the schedule
   sleeps for its day; it is not retried after the retry delay as `main.go:125`
   says. What does hold, and is proved, is `DailyOnlyAfterSuccess`.
4. `encoded_routes`: `validateKeyCharacters` lets a percent sign through, and
   URLs are joined as the paths are written. `b` and `%62` are two prefixes, two
   paths and two objects to `Validate` and to the catalog, and one request to
   the public reader, though `declaration.go:273-274` says that characters are
   rejected "that make exact URL behavior ambiguous". For the same reason
   `%5Fpage-hub` is not the reserved prefix to `validatePrefix` and is the
   manager's to `isReservedPath`, which is asked for the decoded path: the
   project is adopted, and the manager answers its URLs. `declaration.go:220`
   says the name "is reserved for the manager", and `docs/deployment.md:48` that
   Page Hub must reject such a path. An escaped slash, `_page-hub%2Fa`, does the
   same. The trace shows both: two spellings of the manager's name are accepted
   side by side, and the request they share is the manager's. What does hold,
   and is proved, is that two Publications share no request where no two paths
   come to the same request (`RoutesAreOwnedOnce`), and that an escape in the
   prefix is the only way to the manager (`ManagerIsNotServed`).
5. `base_url_spelling`: with two slashes after the origin in
   `PAGE_HUB_PUBLIC_BASE_URL` no plan can be committed. The environment's value
   keeps one of them, a plan made under it none (it is normalized twice), and
   commit compares the two (`commit.go:63`). Planning again, as the message asks
   for, does not help. The comment at `plan.go:231-232` says that plan and commit
   "agree on one definition".

## 4. What is proved

The theorems hold for every value of the constants, under the assumptions the
modules name: the special values (`NoInode`, `NoProc`, `NoChan`, `NoCaller`,
`Schedule`, `NoBuild`, `NoFetch`, `NoOperation`, `NoObject`, `WrongStatus`) are
not members of the sets they stand beside, failures are among the outcomes
`OutcomeOf` has, "failed" with them, every build embeds at least one migration, and a segment
decodes to something, to nothing only if it is empty. `Scan` assumes that a bucket and a
catalog are finite, that a size is a natural number, and that manifests are of
versions of keys, none of them empty, and apart, as `OwnedOnce` proves. No other set is assumed to be finite.

Every invariant and every action property of a passing run is stated by a
theorem.

**`CatalogLock_proofs`**: `TypeCorrect`, `ExclusiveOutsideRaces`,
`StaleFileHarmless`, `ReleaseRemovesOwnFile`. Exclusion is not inductive: it
follows from the name leading to the holder's file, so the invariant `IInv`
adds that a flock belongs to a process that has the file open and is past
`Flock`, that a holder holds the flock of its file, and that, unless `raced`,
whoever is between open and Release has the linked file open. `raced` is what
the last clause gives up while an overlap lasts.

**`ObservationService_proofs`**: `TypeCorrect`, `OneScanAtATime`,
`NeverAnOlderOutcome`, `DisconnectSparesScan`, `DailyCadenceIsEarned`,
`ServiceKeepsContract`. `IInv` ties `running` to the one leader and its
channel, says which goroutine may refer to a channel and when, that a closed
channel is closed for somebody who waits and that such a waiter has an outcome
in `fresh` which includes `lastOutcome`, that a scan runs on the service's
context once it is set, and that goroutines outside `Refresh` carry nothing.
The channel clauses are what the proof turns on: channels are reused, so
without them a joiner could be woken by the close of another scan's channel.
`ServiceKeepsContract` is the safety half of the refinement, one step lemma
per action of the service.

**`Migrations_proofs`**: `TypeCorrect`, `SchemaAlwaysRecorded`,
`RuntimeKeepsSchema`, `MigrateExtendsOwnHistory`. `Migrate` reads the history
once and trusts it afterwards. `IInv` therefore says, of every process at work
and whatever others have recorded since, that what it has still to apply are
the last of its migrations and that those before them are recorded with its
checksums (`MigratingOwn`), and that the recorded versions have no gap while
somebody migrates (`Contiguous`). Then a migration that runs at all runs on
exactly its own predecessors: two migrations of the same version cannot both
find the tables as they need them. `RuntimeKeepsSchema` adds that with the lock
one process is at work (`Alone`) and the version it has read is current.

**`Manager_proofs`**: `TypeCorrect`, `DisplayNeverGoesBack`,
`SettledRefreshIsShown`, `StoreUsedUnderLock`, `RecordedCoversAccepted`. The
rows of observations are in the order of their times (`SortedByTime`), because
one scan runs at a time and the clock does not step back; then the newest by
time and rowid is the last one recorded (`LatestIsLast`). While the lock is
held nobody accepts a batch behind a scan's back (`CoversWhileLocked`). Cancelled requests may hold
anything, so the invariant speaks of the awaited one: what it has read is no
older than what is shown and what is owed (`AwaitsNoOlder`). It stays true when
either grows, because the display grows only when the awaited request is
consumed, and a settled refresh replaces that request by one that has read
nothing. `LockedWhileOpen` is the order of the deferred calls.

**`Declaration_proofs`**: `ProjectsAreApart`, `PublicationsAreApart`, for
declarations of any size over any segments. Two paths that something lies
within are nested one way or the other (`WithinComparable`); a Publication lies
within its project, its objects and its canonical URL within the Publication
(`PublicationIsTree`). So nothing lies within two Publications of one accepted
declaration, whose paths were compared, nor within Publications of two
projects, whose paths were not: a prefix is one segment.

**`MCDeclaration_proofs`**: `RoutesAreOwnedOnce`, `ManagerIsNotServed`,
`PreviewIsItsOwn`, `OnlyTheOperatorIsAnswered`. The inductive invariant is
short: the declaration called valid is `Valid`, the settings served with are
`ValidSettings`, an answer is the one they give. The work is in what `Valid`
implies of requests. Whatever a Publication serves lies within its path
(`ServedWithin`), so two of them serve nothing in common (`ServedByOne`, from
`PublicationsAreApart`), and its first segment is the project's prefix, which is
no name of the manager's (`ServedOutside`). `Validate` compares paths as written
and a reader asks for them decoded. What decoding does to a path is the content of
`Flattened` and `Requested`: a path is still a path, begins as its first segment
is decoded, and is "/" only if it was. So `ManagerIsNotServed` needs no
hypothesis about the segments of a declaration and says what is left to go wrong,
a prefix that decodes to the manager's name; that it does go wrong is finding 4.
Only `RoutesAreOwnedOnce` has a hypothesis, that no two paths come to the same
request: without it `RoutesOwnedOnce` is false, which is the rest of that finding. `PreviewIsItsOwn`
needs none, because the page escapes what it asks for.

**`Adoption_proofs`**: `TypeCorrect`, `NeverClaimedTwice`,
`ApprovedIsAccepted`, `ContractIsKept`. Nobody compares
the objects and routes of a batch with those accepted before; the transaction
looks up prefixes and paths. The invariant therefore keeps, with every
operation on record, that its rows are those of a valid declaration
(`RecordsAreSound`), so that a row of another prefix is apart from all of them
by the theorems of `Declaration_proofs`, and with every command that what it is
about to accept, or has accepted, is what was approved (`Approved`,
`OnRecord`): between the comparison of the digests and the transaction it
changes nothing that the rows are made of. The digest determines the content,
so `Replay`, which compares request hashes, tells the result of its own plan.
`ContractIsKept` is the whole refinement: the contract has no liveness.

`AcceptedWasStored` and `FrozenBucketIsCovered` rest on a second invariant,
`VisitInv`, about what a command has looked at: before its listing it has seen
nothing (`Blind`); from then on what it has read is among what the key has held,
and is all there is while nothing changes (`Watches`); and everything behind its
place in the loops has been read (`Visits`), so a command that is through has
read all it declares. The place is two counters and not a list of requests still
to make, which is how the code has it and what makes the invariant a statement
about indices rather than an induction over the declaration.

`NothingClashes`, `WordIsKept` and `AcceptedStays` are what a reader of any
catalog that keeps `CatalogContract` may rely on; `CommandsInherit` draws the
conclusion for plan and commit.

**`Scan_proofs`**: `ScanTyped`, `OutcomesAgree`, `FindingsAreWitnessed`,
`UnlockedBucketIsAccounted`, `ExactInCalm`, `UsageAlwaysAddsUp`.
`OutcomesAgree` follows from the classification of each kind of request, with the
cut listing as its exception; the others rest on `ScanInvariant`. Storage moves
under the scan, so the invariant speaks of what a key has *held* since the scan began: that includes what it holds and what the
listing saw (`HeldCovers`), a key the listing has passed without naming was away
at some moment (`ListingCovers`), and every verdict has its witnesses
(`VerdictsJustified`, `ReadingJustified`). In calm what was held is what is
there, and verdicts are exact. `Divided` says that an accepted object is either
judged or still to do, whatever batches are accepted meanwhile, so that a scan
which is through has judged all it set out with. `ListingCovers` needs that a
page leaves no gap: the keys it names and its last key bound what it passed
(`PageHasNoGaps`, `TruncatedPage`).

Sums over sets are where induction would be expected. They are reached without:
a function giving every part of a finite set its sum exists (`SumsExist`), it
agrees with the fold (`SumIs`), and it adds up over disjoint parts
(`SumsAddUp`), each shown on a smallest set for which it would fail
(`MinimalSet`). `UsageAlwaysAddsUp` then follows from Publications owning
disjoint objects.

Only model-checked:

* `RefreshReturns`, `ScansGoOn`, `ScheduleStops` and the liveness half of the
  service's `KeepsContract`: they rest on fairness, hence on `ENABLED`, which is
  beyond the prover;
* the runs that expect a violation, which are counterexamples and need no proof.

## 5. What is not modelled

* **The rows of an inventory** (projects, age, quota, URLs): a join and a
  computation over two reads, whose staleness `Manager` has.
* **The manager-status poll and the `check` command**: one storage request
  without state, whose classification is `Check`.
* **The compatibility check**: a sequential command of reads, whose failures are
  the reader's.
* **The listener** (socket files, timeouts, header limits), request signing, ids,
  generated types, embedded assets, formatting in the browser: the operating
  system's, or computation and presentation with no behaviour over time.
* **Development tools and test doubles** (`tools/seedcatalog`,
  `storage/s3test`): not part of the program.
* **SQLite's own durability** and the contents of the tables beyond the rows
  the properties speak of.
* **A clock set back**: `LatestObservation` orders by wall-clock time, and
  `LatestIsLast` then does not hold; nothing in the code says it should.

## 6. Plan

Done: the lock, the service with its contract, declarations with the boundary
behind which they are served, adoption with the contract of the catalog, the
scan with the errors of its requests, migrations, and the manager with the
batches accepted beside it; all their safety properties proved.

1. `ManifestAssumption` of `Scan` as a theorem about the rows `OwnedOnce` speaks
   of, so that the two modules meet in a proof and not in a comment.
2. Lemmas about `StorageReader` beyond the agreement with `Check`: which answers
   can make an outage look like an absence.
3. The rows of an inventory in `Manager`, should they come to hold more than a
   join: each is read by two queries, between which an observation may be
   recorded.
