----------------------------- MODULE Adoption -----------------------------
(***************************************************************************)
(* The plan and commit commands (internal/adoption/plan.go, commit.go) and *)
(* the catalog they accept a batch into (internal/catalog/adopt.go).       *)
(*                                                                         *)
(* A command lists the bucket, then reads the declared objects and probes  *)
(* the declared routes one at a time, while publishers may change storage  *)
(* and routes between any two of those requests.  Commit does all of it    *)
(* again, compares digests, and accepts the batch in one transaction.      *)
(* Several commands run at once, and any of them may die anywhere.         *)
(*                                                                         *)
(* The catalog lock is taken as it is, not as it is meant: it may be       *)
(* granted to a second process (module CatalogLock shows how), so nothing  *)
(* here relies on its being exclusive.                                     *)
(*                                                                         *)
(* Covered: BuildPlan, Verify, Commit, FindOperation, CommitAdoptionBatch, *)
(* a storage or probe request that fails, an SQL statement that fails.     *)
(* An object's body and metadata are one version, a digest is what it is   *)
(* the digest of, a transaction is one step (SQLite), and identifiers and  *)
(* times in a result are left out.                                         *)
(***************************************************************************)
EXTENDS Declaration, Config

CONSTANTS
    Commands,       \* processes that run plan or commit
    Declarations,   \* declaration files, valid or not
    OperationIDs,   \* caller-provided; NoOperation is the empty one
    NoOperation,
    Keys,           \* object keys in the bucket
    Versions,       \* what an object may hold
    NoObject,       \* nothing is stored under a key
    Answers,        \* what a public route may answer with the declared status
    WrongStatus,    \* a route answers with another status
    Origins,        \* the public base URL as commands are configured with it
    NoPlan,         \* a command that has no plan document
    MaxDrift        \* bound on the changes publishers make (model only)

ASSUME AdoptionAssumption ==
    /\ NoOperation \notin OperationIDs
    /\ NoObject \notin Versions /\ WrongStatus \notin Answers
    /\ Origins \subseteq BaseURLs
    /\ Declarations \subseteq DeclarationFiles
    /\ MaxDrift \in Nat

VARIABLES
    \* outside Page Hub
    storage,        \* storage[k]: the object stored under k
    route,          \* what the public routes answer at the moment
    drift,          \* changes made so far
    \* the plan documents the operator keeps
    plans,
    \* commands
    pc, plan, op, decl, origin, listed, found,
    at,             \* at[c]: the Publication and its object or probe BuildPlan is at
    \* the catalog
    publications,   \* accepted rows with their manifest
    operations,     \* operations[o]: the record of a committed operation
    \* history, for the properties only
    told,           \* <<operation ID, digest, result>> of every success reported
    held,           \* held[c][k]: what k has held since c's listing
    calm            \* calm[c]: nothing has changed since c's listing

outside == <<storage, route, drift>>
command == <<pc, plan, op, decl, origin, listed, at, found>>
catalog == <<publications, operations>>
history == <<told, held, calm>>
vars == <<outside, plans, command, catalog, history>>

(***************************************************************************)
(* Declarations and plans                                                  *)
(***************************************************************************)

Pubs(d) == {d.publications[i] : i \in DOMAIN d.publications}
Declared(d) == UNION {ObjectsOf(p) : p \in Pubs(d)}

\* The requests of BuildPlan for one Publication: its objects, then its probes.
Visit(p) ==
    [i \in 1..(Len(p.objects) + Len(p.probes)) |->
        IF i <= Len(p.objects) THEN [read |-> TRUE, key |-> p.objects[i]]
        ELSE [read |-> FALSE, key |-> ProbePath(p, p.probes[i - Len(p.objects)])]]
Start == [pub |-> 1, item |-> 1]

\* PlanContent, and the document with the digest that binds it.  The digest of
\* a content is the content: SHA-256 is taken to be free of collisions.
Content(o, d, f) == [origin |-> o, decl |-> d, objects |-> f.objects, routes |-> f.routes]
Digest(content) == content
Plan(content) == [content |-> content, digest |-> Digest(content)]

\* The rows adoptProjects and CommitAdoptionBatch make of a content: one per
\* Publication, with the manifest of its objects.
Rows(o, content) ==
    {[prefix  |-> p.prefix,
      path    |-> p.path,
      url     |-> CanonicalPath(p),
      op      |-> o,
      objects |-> [k \in ObjectsOf(p) |-> content.objects[k]]] : p \in Pubs(content.decl)}

\* What the operator may hand to commit: a plan document, or one whose content
\* was edited by hand and is another than its digest's.
Documents == {[content |-> d.content, digest |-> e.digest] : d, e \in plans}

\* f with v for k, whether or not k was there.
With(f, k, v) == [x \in DOMAIN f \cup {k} |-> IF x = k THEN v ELSE f[x]]

Nothing == [objects |-> <<>>, routes |-> <<>>]

TypeOK ==
    /\ storage \in [Keys -> Versions \cup {NoObject}]
    /\ route \in Answers \cup {WrongStatus}
    /\ drift \in 0..MaxDrift
    /\ \A d \in plans : d.content.decl \in Declarations /\ d.content.origin \in BaseURLs
    /\ pc \in [Commands -> {"idle", "finding", "listing", "visiting", "accepting",
                            "accepted"}]
    /\ plan \in [Commands -> Documents \cup {NoPlan}]
    /\ op \in [Commands -> OperationIDs \cup {NoOperation}]
    /\ \A c \in Commands : listed[c] \subseteq Keys
    /\ DOMAIN operations \subseteq OperationIDs

Init ==
    /\ storage \in [Keys -> Versions \cup {NoObject}]
    /\ route \in Answers
    /\ drift = 0
    /\ plans = {}
    /\ pc = [c \in Commands |-> "idle"]
    /\ plan = [c \in Commands |-> NoPlan]
    /\ op = [c \in Commands |-> NoOperation]
    /\ decl = [c \in Commands |-> NoPlan]
    /\ origin = [c \in Commands |-> NoPlan]
    /\ listed = [c \in Commands |-> {}]
    /\ at = [c \in Commands |-> Start]
    /\ found = [c \in Commands |-> Nothing]
    /\ publications = {}
    /\ operations = <<>>
    /\ told = {}
    /\ held = [c \in Commands |-> [k \in Keys |-> {}]]
    /\ calm = [c \in Commands |-> FALSE]

(***************************************************************************)
(* Outside Page Hub                                                        *)
(***************************************************************************)

\* A publisher writes or deletes an object.
Publish(k, v) ==
    /\ drift < MaxDrift /\ storage[k] # v
    /\ storage' = [storage EXCEPT ![k] = v]
    /\ drift' = drift + 1
    /\ held' = [c \in Commands |->
                  IF held[c][k] = {} THEN held[c] ELSE [held[c] EXCEPT ![k] = @ \cup {v}]]
    /\ calm' = [c \in Commands |-> FALSE]
    /\ UNCHANGED <<route, plans, command, catalog, told>>

\* The public routes begin to answer differently.
Reroute(a) ==
    /\ drift < MaxDrift /\ route # a
    /\ route' = a
    /\ drift' = drift + 1
    /\ calm' = [c \in Commands |-> FALSE]
    /\ UNCHANGED <<storage, plans, command, catalog, told, held>>

(***************************************************************************)
(* BuildPlan, for plan and for commit                                      *)
(***************************************************************************)

\* The command is over: it has reported, failed, or died where it stood.
Over(c) ==
    /\ pc' = [pc EXCEPT ![c] = "idle"]
    /\ plan' = [plan EXCEPT ![c] = NoPlan]
    /\ op' = [op EXCEPT ![c] = NoOperation]
    /\ decl' = [decl EXCEPT ![c] = NoPlan]
    /\ origin' = [origin EXCEPT ![c] = NoPlan]
    /\ listed' = [listed EXCEPT ![c] = {}]
    /\ at' = [at EXCEPT ![c] = Start]
    /\ found' = [found EXCEPT ![c] = Nothing]
    /\ held' = [held EXCEPT ![c] = [k \in Keys |-> {}]]
    /\ calm' = [calm EXCEPT ![c] = FALSE]

GoTo(c, step) == pc' = [pc EXCEPT ![c] = step]

\* PublicBaseURLFromEnv
FromEnv(o) == NormalizePublicBaseURL(o)

\* An invalid declaration never touches storage: the command ends at once.  The
\* base URL is normalized as it is read, and by BuildPlan.
BeginPlan(c, d, o) ==
    /\ pc[c] = "idle" /\ Valid(d) /\ AcceptsBaseURL(o)
    /\ decl' = [decl EXCEPT ![c] = d]
    /\ origin' = [origin EXCEPT ![c] = NormalizePublicBaseURL(FromEnv(o))]
    /\ GoTo(c, "listing")
    /\ UNCHANGED <<outside, plans, plan, op, listed, at, found, catalog, history>>

\* Faulty variant of List: objects nobody declared do not stop planning.
List_AllowsUnexpected(c) ==
    /\ pc[c] = "listing"
    /\ listed' = [listed EXCEPT ![c] = {k \in Keys : storage[k] # NoObject}]
    /\ at' = [at EXCEPT ![c] = Start]
    /\ held' = [held EXCEPT ![c] = [k \in Keys |-> {storage[k]}]]
    /\ calm' = [calm EXCEPT ![c] = TRUE]
    /\ GoTo(c, "visiting")
    /\ UNCHANGED <<outside, plans, plan, op, decl, origin, found, catalog, told>>

\* ListObjects, and checkNoUnexpectedObjects: the batch covers the bucket.
List(c) ==
    /\ pc[c] = "listing"
    /\ {k \in Keys : storage[k] # NoObject} \subseteq Declared(decl[c])
    /\ listed' = [listed EXCEPT ![c] = {k \in Keys : storage[k] # NoObject}]
    /\ at' = [at EXCEPT ![c] = Start]
    /\ held' = [held EXCEPT ![c] = [k \in Keys |-> {storage[k]}]]
    /\ calm' = [calm EXCEPT ![c] = TRUE]
    /\ GoTo(c, "visiting")
    /\ UNCHANGED <<outside, plans, plan, op, decl, origin, found, catalog, told>>

\* There is a request left, which is the next; and the one after it.
Visiting(c) == pc[c] = "visiting" /\ at[c].pub <= Len(decl[c].publications)
Todo(c) == Visit(decl[c].publications[at[c].pub])[at[c].item]
Onward(c) ==
    LET p == at[c].pub  i == at[c].item
    IN  at' = [at EXCEPT ![c] =
                  IF i < Len(Visit(decl[c].publications[p])) THEN [pub |-> p, item |-> i + 1]
                  ELSE [pub |-> p + 1, item |-> 1]]

\* Faulty variant of ReadObject: the recheck trusts what the plan has on record.
ReadObject_Trusts(c) ==
    /\ Visiting(c) /\ Todo(c).read
    /\ Todo(c).key \in listed[c] /\ (plan[c] # NoPlan \/ storage[Todo(c).key] # NoObject)
    /\ found' = [found EXCEPT ![c].objects = With(@, Todo(c).key,
          IF plan[c] # NoPlan THEN plan[c].content.objects[Todo(c).key]
          ELSE storage[Todo(c).key])]
    /\ Onward(c)
    /\ UNCHANGED <<outside, plans, pc, plan, op, decl, origin, listed, catalog, history>>

\* The next declared object was listed, and its complete body is read.
ReadObject(c) ==
    /\ Visiting(c) /\ Todo(c).read
    /\ Todo(c).key \in listed[c] /\ storage[Todo(c).key] # NoObject
    /\ found' = [found EXCEPT ![c].objects = With(@, Todo(c).key, storage[Todo(c).key])]
    /\ Onward(c)
    /\ UNCHANGED <<outside, plans, pc, plan, op, decl, origin, listed, catalog, history>>

\* The next declared route answers with the declared status.
Probe(c) ==
    /\ Visiting(c) /\ ~Todo(c).read
    /\ route # WrongStatus
    /\ found' = [found EXCEPT ![c].routes = With(@, Todo(c).key, route)]
    /\ Onward(c)
    /\ UNCHANGED <<outside, plans, pc, plan, op, decl, origin, listed, catalog, history>>

Built(c) == pc[c] = "visiting" /\ at[c].pub > Len(decl[c].publications)

\* plan writes the document for the operator to review.
WritePlan(c) ==
    /\ Built(c) /\ plan[c] = NoPlan
    /\ plans' = plans \cup {Plan(Content(origin[c], decl[c], found[c]))}
    /\ Over(c)
    /\ UNCHANGED <<outside, catalog, told>>

(***************************************************************************)
(* Commit                                                                  *)
(***************************************************************************)

RequestHash(o, digest) == <<o, digest>>

\* Faulty variant of BeginCommit: an empty operation ID is let through.
BeginCommit_AnyOperation(c, doc, o, configured) ==
    /\ pc[c] = "idle"
    /\ doc.digest = Digest(doc.content)
    /\ Valid(doc.content.decl)
    /\ AcceptsBaseURL(configured) /\ FromEnv(configured) = doc.content.origin
    /\ plan' = [plan EXCEPT ![c] = doc]
    /\ op' = [op EXCEPT ![c] = o]
    /\ decl' = [decl EXCEPT ![c] = doc.content.decl]
    /\ origin' = [origin EXCEPT ![c] = doc.content.origin]
    /\ GoTo(c, "finding")
    /\ UNCHANGED <<outside, plans, listed, at, found, catalog, history>>

\* The document is intact, its declaration valid, an operation ID given, and
\* the command configured for the public origin of the plan.  AcquireLock and
\* OpenRuntime follow; when they refuse, the command ends (Stop).
BeginCommit(c, doc, o, configured) ==
    /\ pc[c] = "idle"
    /\ doc.digest = Digest(doc.content)
    /\ Valid(doc.content.decl)
    /\ o # NoOperation
    /\ AcceptsBaseURL(configured) /\ FromEnv(configured) = doc.content.origin
    /\ plan' = [plan EXCEPT ![c] = doc]
    /\ op' = [op EXCEPT ![c] = o]
    /\ decl' = [decl EXCEPT ![c] = doc.content.decl]
    /\ origin' = [origin EXCEPT ![c] = doc.content.origin]
    /\ GoTo(c, "finding")
    /\ UNCHANGED <<outside, plans, listed, at, found, catalog, history>>

Success(o, record) == <<o, record.digest, record.result>>

\* Faulty variant of Replay: the request hash is not compared.
Replay_AnyContent(c) ==
    /\ pc[c] = "finding" /\ op[c] \in DOMAIN operations
    /\ told' = told \cup {<<op[c], plan[c].digest, operations[op[c]].result>>}
    /\ Over(c)
    /\ UNCHANGED <<outside, plans, catalog>>

\* FindOperation finds the same request: its durable result is told again.
\* With other content the command fails (Stop).
Replay(c) ==
    /\ pc[c] = "finding" /\ op[c] \in DOMAIN operations
    /\ operations[op[c]].hash = RequestHash(op[c], plan[c].digest)
    /\ told' = told \cup {<<op[c], plan[c].digest, operations[op[c]].result>>}
    /\ Over(c)
    /\ UNCHANGED <<outside, plans, catalog>>

\* FindOperation finds nothing: BuildPlan once more, over the approved content.
Recheck(c) ==
    /\ pc[c] = "finding" /\ op[c] \notin DOMAIN operations
    /\ GoTo(c, "listing")
    /\ origin' = [origin EXCEPT ![c] = NormalizePublicBaseURL(@)]
    /\ UNCHANGED <<outside, plans, plan, op, decl, listed, at, found, catalog, history>>

\* Faulty variant of Approve: what was rechecked is not compared.
Approve_AnyDigest(c) ==
    /\ Built(c) /\ plan[c] # NoPlan
    /\ GoTo(c, "accepting")
    /\ UNCHANGED <<outside, plans, plan, op, decl, origin, listed, at, found,
                   catalog, history>>

\* The recheck found exactly what was approved; with anything else it fails.
Approve(c) ==
    /\ Built(c) /\ plan[c] # NoPlan
    /\ Digest(Content(origin[c], decl[c], found[c])) = plan[c].digest
    /\ GoTo(c, "accepting")
    /\ UNCHANGED <<outside, plans, plan, op, decl, origin, listed, at, found,
                   catalog, history>>

\* normalizeBatchProjects, of the rows of one batch.
Normal(rows) ==
    /\ rows # {}
    /\ \A r \in rows : r.objects # <<>> /\ \A s \in rows : r.path = s.path => r = s

Insert(c, rows) ==
    /\ publications' = publications \cup rows
    /\ operations' = With(operations, op[c],
                          [hash   |-> RequestHash(op[c], plan[c].digest),
                           digest |-> plan[c].digest,
                           result |-> rows])
    /\ GoTo(c, "accepted")
    /\ UNCHANGED <<outside, plans, plan, op, decl, origin, listed, at, found, history>>

\* Faulty variant of Accept: only the publication paths are looked up.
Accept_PathOnly(c) ==
    LET rows == Rows(op[c], Content(origin[c], decl[c], found[c]))
    IN  /\ pc[c] = "accepting" /\ Normal(rows)
        /\ \A r \in rows, s \in publications : r.path # s.path
        /\ op[c] \notin DOMAIN operations
        /\ Insert(c, rows)

\* CommitAdoptionBatch, one transaction: no prefix and no path of the batch is
\* managed and the operation ID is unused, or nothing at all is accepted.
Accept(c) ==
    LET rows == Rows(op[c], Content(origin[c], decl[c], found[c]))
    IN  /\ pc[c] = "accepting" /\ Normal(rows)
        /\ \A r \in rows, s \in publications : r.prefix # s.prefix /\ r.path # s.path
        /\ op[c] \notin DOMAIN operations
        /\ Insert(c, rows)

\* The result reaches the operator.
Report(c) ==
    /\ pc[c] = "accepted"
    /\ told' = told \cup {<<op[c], plan[c].digest, Rows(op[c], Content(origin[c], decl[c], found[c]))>>}
    /\ Over(c)
    /\ UNCHANGED <<outside, plans, catalog>>

\* The command ends without a result: a check or a request failed, or the
\* process died, possibly with its batch accepted and nobody told.
Stop(c) ==
    /\ pc[c] # "idle"
    /\ Over(c)
    /\ UNCHANGED <<outside, plans, catalog, told>>

-----------------------------------------------------------------------------

Step(c) ==
    \/ \E d \in Declarations, o \in Origins : BeginPlan(c, d, o)
    \/ List(c) \/ ReadObject(c) \/ Probe(c) \/ WritePlan(c)
    \/ \E doc \in Documents, o \in OperationIDs \cup {NoOperation}, b \in Origins :
          BeginCommit(c, doc, o, b)
    \/ Replay(c) \/ Recheck(c) \/ Approve(c) \/ Accept(c) \/ Report(c)
    \/ Stop(c)

Next ==
    \/ \E k \in Keys, v \in Versions \cup {NoObject} : Publish(k, v)
    \/ \E a \in Answers \cup {WrongStatus} : Reroute(a)
    \/ \E c \in Commands : Step(c)

Spec == Init /\ [][Next]_vars

(***************************************************************************)
(* Properties                                                              *)
(***************************************************************************)

\* Two rows claim an object, or one lies within the routes of the other.
Clash(r, s) ==
    \/ DOMAIN r.objects \cap DOMAIN s.objects # {}
    \/ Within(r.path, s.path) \/ Within(s.path, r.path)
    \/ Within(r.url, s.url) \/ Within(s.url, r.url)

\* docs/adr/0001: one object belongs to one Publication and active route scopes
\* do not overlap, across all batches ever accepted, whatever ran at once.
OwnedOnce == \A r, s \in publications : r # s => ~Clash(r, s)

\* commit.go:37-45: what is accepted is exactly what an operator approved: the
\* rows of an operation are those of the plan it is recorded with, all of
\* them, and no row is there without its operation.
AcceptedAsApproved ==
    /\ \A r \in publications : r.op \in DOMAIN operations
    /\ \A o \in DOMAIN operations :
          {r \in publications : r.op = o} = Rows(o, operations[o].digest)

\* plan.go:231-232: plan and commit agree on one definition of the public
\* origin, so that no commit is refused for how its setting spells it.
PlanAndCommitAgree ==
    \A d \in plans, o \in Origins : FromEnv(o) = d.content.origin

Contract == INSTANCE CatalogContract

\* The catalog keeps its contract, whatever the commands do: what is accepted is
\* accepted once, as a whole and for good, and an operation ID has one durable
\* result, which whoever is told of a success is told, for the content they
\* asked for.
KeepsContract == Contract!Spec

Accepts(c) == pc[c] = "accepting" /\ pc'[c] = "accepted"

\* commit.go:42-44: every accepted object was in storage, as accepted, at some
\* moment of the recheck that led to the transaction.
AcceptedWasThere ==
    [][\A c \in Commands : Accepts(c) =>
          \A r \in publications' \ publications :
              \A k \in DOMAIN r.objects : r.objects[k] \in held[c][k]]_vars

\* plan.go:195-197: under the write freeze, with nothing changed since the
\* recheck's listing, the batch accepted covers the bucket, object by object.
FrozenBucketCovered ==
    [][\A c \in Commands : Accepts(c) /\ calm[c] =>
          LET new == publications' \ publications
          IN  \A k \in Keys :
                IF storage[k] = NoObject THEN \A r \in new : k \notin DOMAIN r.objects
                ELSE \E r \in new : k \in DOMAIN r.objects /\ r.objects[k] = storage[k]]_vars

=============================================================================
