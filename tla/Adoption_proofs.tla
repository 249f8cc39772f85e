-------------------------- MODULE Adoption_proofs --------------------------
(***************************************************************************)
(* Proofs about Adoption, for any commands, declarations, operation IDs,   *)
(* objects and routes, and any number of changes outside Page Hub.         *)
(***************************************************************************)
EXTENDS Adoption, Declaration_proofs

-----------------------------------------------------------------------------
(* The inductive invariant.                                                *)

DomainsAreCommands ==
    /\ DOMAIN decl = Commands /\ DOMAIN origin = Commands
    /\ DOMAIN listed = Commands /\ DOMAIN found = Commands

\* A command at work has a valid declaration and a base URL.
Working(c) ==
    pc[c] # "idle" => decl[c] \in Declarations /\ Valid(decl[c]) /\ origin[c] \in BaseURLs

\* A commit has an operation ID, and what it is about to accept, or has
\* accepted, is what was approved.
Approved(c) ==
    /\ plan[c] # NoPlan => op[c] \in OperationIDs
    /\ pc[c] \in {"accepting", "accepted"} =>
          /\ op[c] \in OperationIDs
          /\ plan[c].digest = Content(origin[c], decl[c], found[c])

\* What a commit will report is on record.
OnRecord(c) ==
    pc[c] = "accepted" =>
        /\ op[c] \in DOMAIN operations
        /\ operations[op[c]].digest = plan[c].digest
        /\ operations[op[c]].result = Rows(op[c], plan[c].digest)

Sound(c) == Working(c) /\ Approved(c) /\ OnRecord(c)

\* The record of an operation: a valid declaration, and the rows made of it.
RecordsAreSound ==
    \A o \in DOMAIN operations :
        /\ operations[o].hash = RequestHash(o, operations[o].digest)
        /\ operations[o].digest.decl \in Declarations
        /\ Valid(operations[o].digest.decl)
        /\ operations[o].result = Rows(o, operations[o].digest)

CatalogInv == RecordsAreSound /\ AcceptedAsApproved /\ OwnedOnce /\ Contract!ToldIsDurable
CommandInv == DomainsAreCommands /\ \A c \in Commands : Sound(c)
IInv == TypeOK /\ CommandInv /\ CatalogInv

USE AdoptionAssumption

LEMMA Initial == Init => IInv
<1> SUFFICES ASSUME Init PROVE IInv  OBVIOUS
<1> USE DEF Init
<1>1. DOMAIN operations = {}  OBVIOUS
<1>2. TypeOK  BY <1>1 DEF TypeOK, Documents
<1>3. CommandInv
      BY DEF CommandInv, DomainsAreCommands, Sound, Working, Approved, OnRecord
<1>4. CatalogInv
      BY <1>1 DEF CatalogInv, RecordsAreSound, AcceptedAsApproved, OwnedOnce,
                  Contract!ToldIsDurable
<1> QED  BY <1>2, <1>3, <1>4 DEF IInv

-----------------------------------------------------------------------------
(* Rows.                                                                   *)

\* A row is one of a Publication of its declaration.
LEMMA RowIsOfPublication ==
    ASSUME NEW o, NEW content, content.decl \in Declarations, Valid(content.decl),
           NEW r \in Rows(o, content)
    PROVE  \E i \in DOMAIN content.decl.publications :
              LET p == content.decl.publications[i]
              IN  /\ p \in PublicationDeclarations /\ ValidPublication(p)
                  /\ r.op = o /\ r.prefix = p.prefix /\ r.path = p.path
                  /\ r.url = CanonicalPath(p) /\ DOMAIN r.objects = ObjectsOf(p)
                  /\ r = [prefix |-> p.prefix, path |-> p.path, url |-> CanonicalPath(p),
                          op |-> o, objects |-> [k \in ObjectsOf(p) |-> content.objects[k]]]
<1>1. content.decl.publications \in Seq(PublicationDeclarations)  BY DEF DeclarationFiles
<1>2. PICK i \in DOMAIN content.decl.publications :
         r = [prefix |-> content.decl.publications[i].prefix,
              path |-> content.decl.publications[i].path,
              url |-> CanonicalPath(content.decl.publications[i]), op |-> o,
              objects |-> [k \in ObjectsOf(content.decl.publications[i]) |-> content.objects[k]]]
      BY DEF Rows, Pubs
<1>3. content.decl.publications[i] \in PublicationDeclarations  BY <1>1
<1>4. ValidPublication(content.decl.publications[i])  BY DEF Valid
<1> QED  BY <1>2, <1>3, <1>4

\* Rows of Publications that nothing lies within both of do not clash.
LEMMA ApartMeansNoClash ==
    ASSUME NEW p \in PublicationDeclarations, NEW q \in PublicationDeclarations,
           ValidPublication(p), ValidPublication(q),
           \A url \in Paths : ~(Within(url, p.path) /\ Within(url, q.path)),
           NEW r, r.path = p.path, r.url = CanonicalPath(p), DOMAIN r.objects = ObjectsOf(p),
           NEW s, s.path = q.path, s.url = CanonicalPath(q), DOMAIN s.objects = ObjectsOf(q)
    PROVE  ~Clash(r, s)
<1>1. /\ p.path \in Paths /\ q.path \in Paths
      /\ \A k \in ObjectsOf(p) : k \in Paths /\ Within(k, p.path)
      /\ \A k \in ObjectsOf(q) : k \in Paths /\ Within(k, q.path)
      /\ r.url \in Paths /\ Within(r.url, p.path)
      /\ s.url \in Paths /\ Within(s.url, q.path)
      BY PublicationIsTree
<1>2. DOMAIN r.objects \cap DOMAIN s.objects = {}  BY <1>1
<1>3. ~Within(r.path, s.path) /\ ~Within(s.path, r.path)
      BY <1>1 DEF Within
<1>4. ~Within(r.url, s.url)
  <2>1. Within(r.url, s.url) => Within(r.url, q.path)  BY <1>1, WithinTransitive
  <2> QED  BY <1>1, <2>1
<1>5. ~Within(s.url, r.url)
  <2>1. Within(s.url, r.url) => Within(s.url, p.path)  BY <1>1, WithinTransitive
  <2> QED  BY <1>1, <2>1
<1> QED  BY <1>2, <1>3, <1>4, <1>5 DEF Clash

LEMMA RowsOfOneBatch ==
    ASSUME NEW o, NEW content, content.decl \in Declarations, Valid(content.decl),
           NEW r \in Rows(o, content), NEW s \in Rows(o, content), r # s
    PROVE  ~Clash(r, s)
<1> DEFINE pub(i) == content.decl.publications[i]
<1>1. PICK i \in DOMAIN content.decl.publications :
         /\ pub(i) \in PublicationDeclarations /\ ValidPublication(pub(i))
         /\ r.path = pub(i).path /\ r.url = CanonicalPath(pub(i))
         /\ DOMAIN r.objects = ObjectsOf(pub(i))
         /\ r = [prefix |-> pub(i).prefix, path |-> pub(i).path, url |-> CanonicalPath(pub(i)),
                 op |-> o, objects |-> [k \in ObjectsOf(pub(i)) |-> content.objects[k]]]
      BY RowIsOfPublication
<1>2. PICK j \in DOMAIN content.decl.publications :
         /\ pub(j) \in PublicationDeclarations /\ ValidPublication(pub(j))
         /\ s.path = pub(j).path /\ s.url = CanonicalPath(pub(j))
         /\ DOMAIN s.objects = ObjectsOf(pub(j))
         /\ s = [prefix |-> pub(j).prefix, path |-> pub(j).path, url |-> CanonicalPath(pub(j)),
                 op |-> o, objects |-> [k \in ObjectsOf(pub(j)) |-> content.objects[k]]]
      BY RowIsOfPublication
<1>3. i # j  BY <1>1, <1>2
<1>4. content.decl \in DeclarationFiles  OBVIOUS
<1>5. \A url \in Paths : ~(Within(url, pub(i).path) /\ Within(url, pub(j).path))
      BY <1>3, <1>4, PublicationsAreApart
<1> HIDE DEF pub
<1> QED  BY <1>1, <1>2, <1>5, ApartMeansNoClash

LEMMA RowsOfTwoProjects ==
    ASSUME NEW o, NEW content, content.decl \in Declarations, Valid(content.decl),
           NEW u, NEW other, other.decl \in Declarations, Valid(other.decl),
           NEW r \in Rows(o, content), NEW s \in Rows(u, other), r.prefix # s.prefix
    PROVE  ~Clash(r, s) /\ ~Clash(s, r)
<1>1. PICK p \in PublicationDeclarations :
         /\ ValidPublication(p) /\ r.prefix = p.prefix
         /\ r.path = p.path /\ r.url = CanonicalPath(p) /\ DOMAIN r.objects = ObjectsOf(p)
      BY RowIsOfPublication
<1>2. PICK q \in PublicationDeclarations :
         /\ ValidPublication(q) /\ s.prefix = q.prefix
         /\ s.path = q.path /\ s.url = CanonicalPath(q) /\ DOMAIN s.objects = ObjectsOf(q)
      BY RowIsOfPublication
<1>3. \A url \in Paths : ~(Within(url, p.path) /\ Within(url, q.path))
      BY <1>1, <1>2, ProjectsAreApart
<1> QED  BY <1>1, <1>2, <1>3, ApartMeansNoClash

-----------------------------------------------------------------------------
(* The commands.                                                           *)

\* What a command has goes only with it.
LEMMA OverIsClean ==
    ASSUME TypeOK, DomainsAreCommands, NEW c \in Commands, Over(c), plans \subseteq plans'
    PROVE  /\ DomainsAreCommands'
           /\ pc' \in [Commands -> {"idle", "finding", "listing", "visiting", "accepting",
                                    "accepted"}]
           /\ plan' \in [Commands -> Documents' \cup {NoPlan}]
           /\ op' \in [Commands -> OperationIDs \cup {NoOperation}]
           /\ \A b \in Commands : listed'[b] \subseteq Keys
           /\ pc'[c] = "idle" /\ plan'[c] = NoPlan
           /\ \A b \in Commands \ {c} :
                 /\ pc'[b] = pc[b] /\ plan'[b] = plan[b] /\ op'[b] = op[b]
                 /\ decl'[b] = decl[b] /\ origin'[b] = origin[b] /\ found'[b] = found[b]
<1>1. Documents \subseteq Documents'  BY DEF Documents
<1> QED  BY <1>1 DEF TypeOK, DomainsAreCommands, Over

LEMMA TypeStep == ASSUME IInv, [Next]_vars PROVE TypeOK'
<1> USE DEF IInv, CommandInv
<1> DEFINE UnchangedTypes == UNCHANGED <<storage, route, drift, plans, operations>>
<1>1. ASSUME NEW k \in Keys, NEW v \in Versions \cup {NoObject}, Publish(k, v) PROVE TypeOK'
      BY <1>1 DEF Publish, TypeOK, Documents, command, catalog
<1>2. ASSUME NEW a \in Answers \cup {WrongStatus}, Reroute(a) PROVE TypeOK'
      BY <1>2 DEF Reroute, TypeOK, Documents, command, catalog
<1>3. ASSUME NEW c \in Commands, Step(c) PROVE TypeOK'
  <2> USE DEF GoTo, outside, catalog, history
  <2>1. ASSUME NEW d \in Declarations, NEW o \in Origins, BeginPlan(c, d, o) PROVE TypeOK'
        BY <2>1 DEF BeginPlan, TypeOK, Documents
  <2>2. CASE List(c)
        BY <2>2 DEF List, TypeOK, Documents, DomainsAreCommands
  <2>3. CASE ReadObject(c)
        BY <2>3 DEF ReadObject, TypeOK, Documents
  <2>4. CASE Probe(c)
        BY <2>4 DEF Probe, TypeOK, Documents
  <2>5. CASE WritePlan(c)
    <3>1. plans \subseteq plans'  BY <2>5 DEF WritePlan
    <3>2. decl[c] \in Declarations /\ origin[c] \in BaseURLs
          BY <2>5 DEF WritePlan, Built, Sound, Working
    <3>3. \A d \in plans' : d.content.decl \in Declarations /\ d.content.origin \in BaseURLs
          BY <2>5, <3>2 DEF WritePlan, Plan, Content, TypeOK
    <3> QED  BY <2>5, <3>1, <3>3, OverIsClean DEF WritePlan, TypeOK
  <2>6. ASSUME NEW doc \in Documents, NEW o \in OperationIDs \cup {NoOperation},
               NEW b \in Origins, BeginCommit(c, doc, o, b)
        PROVE  TypeOK'
        BY <2>6 DEF BeginCommit, TypeOK, Documents
  <2>7. CASE Replay(c)
        BY <2>7, OverIsClean DEF Replay, TypeOK
  <2>8. CASE Recheck(c)
        BY <2>8 DEF Recheck, TypeOK, Documents
  <2>9. CASE Approve(c)
        BY <2>9 DEF Approve, TypeOK, Documents
  <2>10. CASE Accept(c)
    <3>1. op[c] \in OperationIDs
          BY <2>10 DEF Accept, Sound, Approved
    <3>2. DOMAIN operations' = DOMAIN operations \cup {op[c]}
          BY <2>10 DEF Accept, Insert, With
    <3> QED  BY <2>10, <3>1, <3>2 DEF Accept, Insert, TypeOK, Documents
  <2>11. CASE Report(c)
        BY <2>11, OverIsClean DEF Report, TypeOK
  <2>12. CASE Stop(c)
        BY <2>12, OverIsClean DEF Stop, TypeOK
  <2> QED  BY <1>3, <2>1, <2>2, <2>3, <2>4, <2>5, <2>6, <2>7, <2>8, <2>9, <2>10, <2>11, <2>12
           DEF Step
<1>4. CASE UNCHANGED vars
      BY <1>4 DEF vars, outside, command, catalog, TypeOK, Documents
<1> QED  BY <1>1, <1>2, <1>3, <1>4 DEF Next

\* What BuildPlan and commit leave as it was keeps the commands sound.
LEMMA SoundStays ==
    ASSUME TypeOK, NEW b \in Commands, Sound(b), UNCHANGED operations,
           pc'[b] = pc[b], plan'[b] = plan[b], op'[b] = op[b], decl'[b] = decl[b],
           origin'[b] = origin[b], found'[b] = found[b]
    PROVE  Sound(b)'
BY DEF Sound, Working, Approved, OnRecord, Content

LEMMA BaseURLsNormalize ==
    ASSUME NEW b \in BaseURLs PROVE NormalizePublicBaseURL(b) \in BaseURLs
BY MaxSlashesAssumption DEF BaseURLs, NormalizePublicBaseURL

LEMMA CommandStep == ASSUME IInv, [Next]_vars PROVE CommandInv'
<1> USE DEF IInv, CommandInv
<1>1. ASSUME UNCHANGED <<command, operations>> PROVE CommandInv'
      BY <1>1, SoundStays DEF command, DomainsAreCommands
<1>2. ASSUME NEW c \in Commands, Step(c) PROVE CommandInv'
  <2> USE DEF GoTo, outside, catalog, history
  <2>1. ASSUME UNCHANGED operations, DomainsAreCommands', Sound(c)',
               \A b \in Commands \ {c} :
                 /\ pc'[b] = pc[b] /\ plan'[b] = plan[b] /\ op'[b] = op[b]
                 /\ decl'[b] = decl[b] /\ origin'[b] = origin[b] /\ found'[b] = found[b]
        PROVE  CommandInv'
        BY <2>1, SoundStays
  <2>2. ASSUME Over(c), plans \subseteq plans', UNCHANGED operations PROVE CommandInv'
    <3>1. pc'[c] = "idle" /\ plan'[c] = NoPlan
          BY <2>2, OverIsClean
    <3>2. Sound(c)'
          BY <3>1 DEF Sound, Working, Approved, OnRecord
    <3> QED  BY <2>1, <2>2, <3>2, OverIsClean
  <2>3. ASSUME NEW d \in Declarations, NEW o \in Origins, BeginPlan(c, d, o) PROVE CommandInv'
    <3>1. NormalizePublicBaseURL(FromEnv(o)) \in BaseURLs
          BY BaseURLsNormalize DEF FromEnv
    <3>2. Sound(c)'
          BY <2>3, <3>1 DEF BeginPlan, Sound, Working, Approved, OnRecord, TypeOK,
                            DomainsAreCommands
    <3> QED  BY <2>1, <2>3, <3>2 DEF BeginPlan, DomainsAreCommands, TypeOK
  <2>4. CASE List(c)
    <3>1. Sound(c)'
          BY <2>4 DEF List, Sound, Working, Approved, OnRecord, TypeOK
    <3> QED  BY <2>1, <2>4, <3>1 DEF List, DomainsAreCommands, TypeOK
  <2>5. CASE ReadObject(c)
    <3>1. Sound(c)'
          BY <2>5 DEF ReadObject, Visiting, Sound, Working, Approved, OnRecord
    <3> QED  BY <2>1, <2>5, <3>1 DEF ReadObject, DomainsAreCommands
  <2>6. CASE Probe(c)
    <3>1. Sound(c)'
          BY <2>6 DEF Probe, Visiting, Sound, Working, Approved, OnRecord
    <3> QED  BY <2>1, <2>6, <3>1 DEF Probe, DomainsAreCommands
  <2>7. CASE WritePlan(c)
        BY <2>2, <2>7 DEF WritePlan
  <2>8. ASSUME NEW doc \in Documents, NEW o \in OperationIDs \cup {NoOperation},
               NEW b \in Origins, BeginCommit(c, doc, o, b)
        PROVE  CommandInv'
    <3>1. doc.content.decl \in Declarations /\ doc.content.origin \in BaseURLs
          BY DEF Documents, TypeOK
    <3>2. Sound(c)'
          BY <2>8, <3>1 DEF BeginCommit, Sound, Working, Approved, OnRecord, TypeOK,
                            DomainsAreCommands
    <3> QED  BY <2>1, <2>8, <3>2 DEF BeginCommit, DomainsAreCommands, TypeOK
  <2>9. CASE Replay(c)
        BY <2>2, <2>9 DEF Replay
  <2>10. CASE Recheck(c)
    <3>1. Sound(c)
          OBVIOUS
    <3>2. NormalizePublicBaseURL(origin[c]) \in BaseURLs
          BY <2>10, <3>1, BaseURLsNormalize DEF Recheck, Sound, Working
    <3>3. Sound(c)'
          BY <2>10, <3>1, <3>2 DEF Recheck, Sound, Working, Approved, OnRecord, TypeOK,
                                   DomainsAreCommands
    <3> QED  BY <2>1, <2>10, <3>3 DEF Recheck, DomainsAreCommands, TypeOK
  <2>11. CASE Approve(c)
    <3>1. Sound(c)'
          BY <2>11 DEF Approve, Built, Digest, Content, Sound, Working, Approved, OnRecord,
                       TypeOK
    <3> QED  BY <2>1, <2>11, <3>1 DEF Approve, DomainsAreCommands, TypeOK
  <2>12. CASE Accept(c)
    <3> DEFINE rows == Rows(op[c], Content(origin[c], decl[c], found[c]))
    <3>1. /\ op[c] \in OperationIDs /\ op[c] \notin DOMAIN operations
          /\ plan[c].digest = Content(origin[c], decl[c], found[c])
          BY <2>12 DEF Accept, Sound, Approved
    <3>2. /\ DOMAIN operations' = DOMAIN operations \cup {op[c]}
          /\ operations'[op[c]].digest = plan[c].digest /\ operations'[op[c]].result = rows
          /\ \A o \in DOMAIN operations : o # op[c] => operations'[o] = operations[o]
          BY <2>12 DEF Accept, Insert, With
    <3>3. Sound(c)'
          BY <2>12, <3>1, <3>2 DEF Accept, Insert, Sound, Working, Approved, OnRecord, TypeOK,
                                   Content
    <3>4. ASSUME NEW b \in Commands \ {c} PROVE Sound(b)'
      <4>1. Sound(b) /\ UNCHANGED <<plan, op, decl, origin, found>> /\ pc'[b] = pc[b]
            BY <2>12 DEF Accept, Insert, TypeOK
      <4> QED  BY <3>1, <3>2, <4>1 DEF Sound, Working, Approved, OnRecord, Content
    <3> QED  BY <2>12, <3>3, <3>4 DEF Accept, Insert, DomainsAreCommands
  <2>13. CASE Report(c)
        BY <2>2, <2>13 DEF Report
  <2>14. CASE Stop(c)
        BY <2>2, <2>14 DEF Stop
  <2> QED  BY <1>2, <2>3, <2>4, <2>5, <2>6, <2>7, <2>8, <2>9, <2>10, <2>11, <2>12, <2>13,
              <2>14 DEF Step
<1>3. ASSUME NEW k \in Keys, NEW v \in Versions \cup {NoObject}, Publish(k, v) PROVE CommandInv'
      BY <1>1, <1>3 DEF Publish, catalog
<1>4. ASSUME NEW a \in Answers \cup {WrongStatus}, Reroute(a) PROVE CommandInv'
      BY <1>1, <1>4 DEF Reroute, catalog
<1>5. CASE UNCHANGED vars
      BY <1>1, <1>5 DEF vars, catalog
<1> QED  BY <1>2, <1>3, <1>4, <1>5 DEF Next

-----------------------------------------------------------------------------
(* The catalog.                                                            *)

\* What a commit tells is on record.
LEMMA TellsTheRecord ==
    ASSUME IInv, NEW c \in Commands, Replay(c) \/ Report(c)
    PROVE  /\ op[c] \in DOMAIN operations
           /\ told' = told \cup {Contract!Success(op[c], operations[op[c]])}
           /\ UNCHANGED catalog
<1> USE DEF Contract!Success, catalog
<1>1. CASE Replay(c)
  <2>1. op[c] \in DOMAIN operations /\ operations[op[c]].hash = <<op[c], plan[c].digest>>
        BY <1>1 DEF Replay, RequestHash
  <2>2. operations[op[c]].hash = <<op[c], operations[op[c]].digest>>
        BY <2>1 DEF IInv, CatalogInv, RecordsAreSound, RequestHash
  <2>3. operations[op[c]].digest = plan[c].digest
        BY <2>1, <2>2
  <2> QED  BY <1>1, <2>1, <2>3 DEF Replay
<1>2. CASE Report(c)
  <2>1. Sound(c) /\ pc[c] = "accepted"
        BY <1>2 DEF Report, IInv, CommandInv
  <2>2. plan[c].digest = Content(origin[c], decl[c], found[c])
        BY <2>1 DEF Sound, Approved
  <2> QED  BY <1>2, <2>1, <2>2 DEF Report, Sound, OnRecord
<1> QED  BY <1>1, <1>2

\* The rows that Accept adds, and what they meet.
LEMMA AcceptsOnce ==
    ASSUME IInv, NEW c \in Commands, Accept(c)
    PROVE  LET content == plan[c].digest
               rows == Rows(op[c], content)
           IN  /\ op[c] \in OperationIDs /\ op[c] \notin DOMAIN operations
               /\ content.decl \in Declarations /\ Valid(content.decl)
               /\ rows # {} /\ publications' = publications \cup rows
               /\ DOMAIN operations' = DOMAIN operations \cup {op[c]}
               /\ \A o \in DOMAIN operations : operations'[o] = operations[o]
               /\ operations'[op[c]] = [hash |-> RequestHash(op[c], content),
                                        digest |-> content, result |-> rows]
               /\ \A r \in rows, s \in publications : r # s /\ ~Clash(r, s) /\ ~Clash(s, r)
               /\ UNCHANGED told
<1> DEFINE content == plan[c].digest
           rows == Rows(op[c], content)
<1>1. Sound(c) /\ pc[c] = "accepting"
      BY DEF Accept, IInv, CommandInv
<1>2. op[c] \in OperationIDs /\ content = Content(origin[c], decl[c], found[c])
      BY <1>1 DEF Sound, Approved
<1>3. content.decl \in Declarations /\ Valid(content.decl)
      BY <1>1, <1>2 DEF Sound, Working, Content
<1>4. /\ op[c] \notin DOMAIN operations /\ Normal(rows) /\ Insert(c, rows)
      /\ \A r \in rows, s \in publications : r.prefix # s.prefix /\ r.path # s.path
      BY <1>2 DEF Accept
<1>5. ASSUME NEW r \in rows, NEW s \in publications
      PROVE  r # s /\ ~Clash(r, s) /\ ~Clash(s, r)
  <2> DEFINE other == operations[s.op].digest
  <2>1. s.op \in DOMAIN operations /\ s \in Rows(s.op, other)
        BY DEF IInv, CatalogInv, AcceptedAsApproved
  <2>2. other.decl \in Declarations /\ Valid(other.decl)
        BY <2>1 DEF IInv, CatalogInv, RecordsAreSound
  <2>3. r.prefix # s.prefix
        BY <1>4
  <2> HIDE DEF other
  <2> QED  BY <1>3, <2>1, <2>2, <2>3, RowsOfTwoProjects
<1> QED  BY <1>2, <1>3, <1>4, <1>5 DEF Insert, With, Normal, history

LEMMA CatalogStep == ASSUME IInv, [Next]_vars PROVE CatalogInv'
<1> USE DEF IInv, CatalogInv
<1>1. ASSUME UNCHANGED <<catalog, told>> PROVE CatalogInv'
      BY <1>1 DEF catalog, RecordsAreSound, AcceptedAsApproved, OwnedOnce,
                  Contract!ToldIsDurable
<1>2. ASSUME NEW c \in Commands, Replay(c) \/ Report(c) PROVE CatalogInv'
  <2>1. Contract!ToldIsDurable'
        BY <1>2, TellsTheRecord DEF Contract!ToldIsDurable, Contract!Success, catalog
  <2> QED  BY <1>2, <2>1, TellsTheRecord
           DEF catalog, RecordsAreSound, AcceptedAsApproved, OwnedOnce
<1>3. ASSUME NEW c \in Commands, Accept(c) PROVE CatalogInv'
  <2> DEFINE content == plan[c].digest
             rows == Rows(op[c], content)
             record == [hash |-> RequestHash(op[c], content), digest |-> content, result |-> rows]
  <2>1. /\ op[c] \in OperationIDs /\ op[c] \notin DOMAIN operations
        /\ content.decl \in Declarations /\ Valid(content.decl)
        /\ rows # {} /\ publications' = publications \cup rows
        /\ DOMAIN operations' = DOMAIN operations \cup {op[c]}
        /\ \A o \in DOMAIN operations : operations'[o] = operations[o]
        /\ operations'[op[c]] = record
        /\ \A r \in rows, s \in publications : r # s /\ ~Clash(r, s) /\ ~Clash(s, r)
        /\ UNCHANGED told
        BY <1>3, AcceptsOnce
  <2>2. \A r \in rows : r.op = op[c]
        BY DEF Rows
  <2>3. \A r, s \in rows : r # s => ~Clash(r, s)
        BY <2>1, RowsOfOneBatch
  <2>4. record.hash = RequestHash(op[c], content) /\ record.digest = content /\ record.result = rows
        OBVIOUS
  <2> HIDE DEF content, rows, record
  <2>5. RecordsAreSound'
    <3> SUFFICES ASSUME NEW o \in DOMAIN operations'
                 PROVE  /\ operations'[o].hash = RequestHash(o, operations'[o].digest)
                        /\ operations'[o].digest.decl \in Declarations
                        /\ Valid(operations'[o].digest.decl)
                        /\ operations'[o].result = Rows(o, operations'[o].digest)
        BY DEF RecordsAreSound
    <3>1. CASE o = op[c]  BY <2>1, <2>4, <3>1 DEF rows
    <3>2. CASE o \in DOMAIN operations  BY <2>1, <3>2 DEF RecordsAreSound
    <3> QED  BY <2>1, <3>1, <3>2
  <2>6. AcceptedAsApproved'
    <3>1. \A r \in publications' : r.op \in DOMAIN operations'
          BY <2>1, <2>2 DEF AcceptedAsApproved
    <3>2. ASSUME NEW o \in DOMAIN operations
          PROVE  {r \in publications' : r.op = o} = Rows(o, operations'[o].digest)
      <4>1. {r \in publications' : r.op = o} = {r \in publications : r.op = o}
            BY <2>1, <2>2
      <4> QED  BY <2>1, <4>1 DEF AcceptedAsApproved
    <3>3. {r \in publications' : r.op = op[c]} = rows
          BY <2>1, <2>2 DEF AcceptedAsApproved
    <3>4. rows = Rows(op[c], operations'[op[c]].digest)
          BY <2>1, <2>4 DEF rows
    <3> QED  BY <2>1, <3>1, <3>2, <3>3, <3>4 DEF AcceptedAsApproved
  <2>7. OwnedOnce'
        BY <2>1, <2>3 DEF OwnedOnce
  <2>8. Contract!ToldIsDurable'
        BY <2>1 DEF Contract!ToldIsDurable, Contract!Success
  <2> QED  BY <2>5, <2>6, <2>7, <2>8
<1>4. ASSUME NEW c \in Commands, Step(c), ~Accept(c), ~Replay(c), ~Report(c) PROVE CatalogInv'
      BY <1>1, <1>4 DEF Step, BeginPlan, List, ReadObject, Probe, WritePlan, BeginCommit,
                        Recheck, Approve, Stop, history
<1>5. ASSUME NEW k \in Keys, NEW v \in Versions \cup {NoObject}, Publish(k, v) PROVE CatalogInv'
      BY <1>1, <1>5 DEF Publish
<1>6. ASSUME NEW a \in Answers \cup {WrongStatus}, Reroute(a) PROVE CatalogInv'
      BY <1>1, <1>6 DEF Reroute
<1>7. CASE UNCHANGED vars
      BY <1>1, <1>7 DEF vars, history
<1> QED  BY <1>2, <1>3, <1>4, <1>5, <1>6, <1>7 DEF Next

-----------------------------------------------------------------------------
(* The theorems.                                                           *)

\* Every step of a plan, of a commit or outside keeps the invariant.
LEMMA Invariant == Spec => []IInv
<1>1. IInv /\ [Next]_vars => IInv'
      BY TypeStep, CommandStep, CatalogStep DEF IInv
<1> QED  BY Initial, <1>1, PTL DEF Spec

\* TypeOK: what storage, the plan documents, the commands and the catalog hold
\* is what plan.go, commit.go and adopt.go put there.
THEOREM TypeCorrect == Spec => []TypeOK
BY Invariant, PTL DEF IInv

\* OwnedOnce: no object and no route has two owners in the catalog, over all the
\* batches ever accepted and whatever commands ran at once (adopt.go:98-147): a
\* managed prefix is looked up, and valid declarations of two projects are apart.
THEOREM NeverClaimedTwice == Spec => []OwnedOnce
BY Invariant, PTL DEF IInv, CatalogInv

\* AcceptedAsApproved: the rows of an operation are those of the plan that was
\* approved, all of them, however often and by whomever it was rechecked
\* (commit.go:37-45).
THEOREM ApprovedIsAccepted == Spec => []AcceptedAsApproved
BY Invariant, PTL DEF IInv, CatalogInv

LEMMA StepKeepsContract == ASSUME IInv, [Next]_vars PROVE [Contract!Next]_(Contract!contract)
<1> USE DEF Contract!contract
<1>1. ASSUME NEW c \in Commands, Replay(c) \/ Report(c) PROVE Contract!Next
  <2>1. op[c] \in OperationIDs
        BY <1>1, TellsTheRecord DEF IInv, TypeOK
  <2> QED  BY <1>1, <2>1, TellsTheRecord DEF Contract!Next, Contract!Tell, catalog
<1>2. ASSUME NEW c \in Commands, Accept(c) PROVE Contract!Next
  <2> DEFINE rows == Rows(op[c], plan[c].digest)
             record == [hash |-> RequestHash(op[c], plan[c].digest),
                        digest |-> plan[c].digest, result |-> rows]
  <2>1. /\ op[c] \in OperationIDs /\ op[c] \notin DOMAIN operations
        /\ plan[c].digest.decl \in Declarations /\ Valid(plan[c].digest.decl)
        /\ rows # {} /\ publications' = publications \cup rows
        /\ DOMAIN operations' = DOMAIN operations \cup {op[c]}
        /\ \A o \in DOMAIN operations : operations'[o] = operations[o]
        /\ operations'[op[c]] = record
        /\ \A r \in rows, s \in publications : r # s /\ ~Clash(r, s) /\ ~Clash(s, r)
        /\ UNCHANGED told
        BY <1>2, AcceptsOnce
  <2>2. record.result = rows /\ \A r, s \in rows : r # s => ~Clash(r, s)
        BY <2>1, RowsOfOneBatch
  <2> HIDE DEF rows, record
  <2>3. rows \cap publications = {}
        BY <2>1
  <2>4. \A r \in rows, s \in publications' : r # s => ~Clash(r, s) /\ ~Clash(s, r)
        BY <2>1, <2>2
  <2>5. operations'[op[c]].result = rows
        BY <2>1, <2>2
  <2> QED  BY <2>1, <2>3, <2>4, <2>5 DEF Contract!Next, Contract!AcceptOnce
<1>3. ASSUME UNCHANGED <<catalog, told>> PROVE UNCHANGED Contract!contract
      BY <1>3 DEF catalog
<1>4. ASSUME NEW c \in Commands, Step(c), ~Accept(c), ~Replay(c), ~Report(c)
      PROVE  UNCHANGED Contract!contract
      BY <1>3, <1>4 DEF Step, BeginPlan, List, ReadObject, Probe, WritePlan, BeginCommit,
                        Recheck, Approve, Stop, history
<1>5. ASSUME NEW k \in Keys, NEW v \in Versions \cup {NoObject}, Publish(k, v)
      PROVE  UNCHANGED Contract!contract
      BY <1>3, <1>5 DEF Publish
<1>6. ASSUME NEW a \in Answers \cup {WrongStatus}, Reroute(a)
      PROVE  UNCHANGED Contract!contract
      BY <1>3, <1>6 DEF Reroute
<1>7. CASE UNCHANGED vars
      BY <1>3, <1>7 DEF vars, history
<1> QED  BY <1>1, <1>2, <1>4, <1>5, <1>6, <1>7 DEF Next

\* KeepsContract: the commands, as plan.go, commit.go and adopt.go have them,
\* implement the contract of the catalog: with WordIsKept and AcceptedStays below,
\* whoever was told of a success was told what is on record for good.
THEOREM ContractIsKept == Spec => KeepsContract
<1>1. Init => Contract!Init
      BY DEF Init, Contract!Init
<1> QED  BY <1>1, Invariant, StepKeepsContract, PTL DEF Spec, KeepsContract, Contract!Spec

-----------------------------------------------------------------------------
(* What follows from the contract of the catalog, whoever keeps it.        *)

LEMMA ContractBegins == Contract!Init => Contract!NeverClash /\ Contract!ToldIsDurable
BY DEF Contract!Init, Contract!NeverClash, Contract!ToldIsDurable

\* Only an operation that is new changes what is on record.
LEMMA OperationsGrow ==
    ASSUME [Contract!Next]_(Contract!contract)
    PROVE  \A o \in DOMAIN operations :
              o \in DOMAIN operations' /\ operations'[o] = operations[o]
BY DEF Contract!Next, Contract!AcceptOnce, Contract!Tell, Contract!contract

LEMMA ContractKeepsApart ==
    ASSUME Contract!NeverClash, [Contract!Next]_(Contract!contract)
    PROVE  Contract!NeverClash'
<1>1. CASE publications' = publications  BY <1>1 DEF Contract!NeverClash
<1>2. ASSUME NEW o \in OperationIDs, Contract!AcceptOnce(o) PROVE Contract!NeverClash'
  <2> DEFINE rows == operations'[o].result
  <2>1. publications' = publications \cup rows  BY <1>2 DEF Contract!AcceptOnce
  <2>2. ASSUME NEW r \in rows, NEW s \in publications', r # s
        PROVE  ~Clash(r, s) /\ ~Clash(s, r)
        BY <1>2, <2>2 DEF Contract!AcceptOnce
  <2> HIDE DEF rows
  <2> QED  BY <2>1, <2>2 DEF Contract!NeverClash
<1> QED  BY <1>1, <1>2 DEF Contract!Next, Contract!Tell, Contract!contract

LEMMA ContractKeepsWord ==
    ASSUME Contract!ToldIsDurable, [Contract!Next]_(Contract!contract)
    PROVE  Contract!ToldIsDurable'
<1>1. CASE told' = told
      BY <1>1, OperationsGrow DEF Contract!ToldIsDurable, Contract!Success
<1>2. ASSUME NEW o \in OperationIDs, Contract!Tell(o) PROVE Contract!ToldIsDurable'
  <2>1. Contract!Success(o, operations[o])[1] = o  BY DEF Contract!Success
  <2> QED  BY <1>2, <2>1 DEF Contract!Tell, Contract!ToldIsDurable
<1> QED  BY <1>1, <1>2 DEF Contract!Next, Contract!AcceptOnce, Contract!contract

\* NeverClash: of everything ever accepted no two rows claim one object or one
\* route (docs/adr/0001, adopt.go).
THEOREM NothingClashes == Contract!Spec => []Contract!NeverClash
BY ContractBegins, ContractKeepsApart, PTL DEF Contract!Spec

\* ToldIsDurable: a success, told once or replayed to a retry, is told as the
\* catalog has it on record, at any later time too (commit.go:89-100).
THEOREM WordIsKept == Contract!Spec => []Contract!ToldIsDurable
BY ContractBegins, ContractKeepsWord, PTL DEF Contract!Spec

\* AcceptedForGood: no step withdraws a row or changes the record of an
\* operation (adopt.go).
THEOREM AcceptedStays == Contract!Spec => Contract!AcceptedForGood
<1>1. [Contract!Next]_(Contract!contract) =>
         [/\ publications \subseteq publications'
          /\ \A o \in DOMAIN operations :
                o \in DOMAIN operations' /\ operations'[o] = operations[o]]_(Contract!contract)
      BY OperationsGrow DEF Contract!Next, Contract!AcceptOnce, Contract!Tell, Contract!contract
<1> QED  BY <1>1, PTL DEF Contract!Spec, Contract!AcceptedForGood

\* What the contract is worth: whatever commands run at once, fail, die and are
\* repeated, nothing accepted clashes, what an operator was told of a success is
\* on record for good, and no record is changed (adopt.go, commit.go:81-117).
THEOREM CommandsInherit ==
    Spec => /\ []Contract!NeverClash /\ []Contract!ToldIsDurable
            /\ Contract!AcceptedForGood
BY ContractIsKept, NothingClashes, WordIsKept, AcceptedStays, PTL DEF KeepsContract

-----------------------------------------------------------------------------
(* What a command has seen of storage.                                     *)

PubsOf(c) == decl[c].publications

VisitShape ==
    /\ DOMAIN held = Commands /\ DOMAIN calm = Commands /\ DOMAIN at = Commands
    /\ \A c \in Commands :
          /\ DOMAIN held[c] = Keys
          /\ found[c] = [objects |-> found[c].objects, routes |-> found[c].routes]

\* Before its listing a command has seen nothing.
Blind(c) ==
    pc[c] \in {"idle", "finding", "listing"} =>
        DOMAIN found[c].objects = {} /\ calm[c] = FALSE

\* From its listing on a command follows what every key has held, and what it
\* has read is part of that, and all of it while nothing has changed.
Watches(c) ==
    pc[c] \in {"visiting", "accepting", "accepted"} =>
        /\ \A k \in Keys : storage[k] \in held[c][k]
        /\ \A k \in DOMAIN found[c].objects :
              k \in Keys /\ found[c].objects[k] \in held[c][k] \ {NoObject}
        /\ calm[c] =>
              /\ \A k \in DOMAIN found[c].objects : found[c].objects[k] = storage[k]
              /\ \A k \in Keys : storage[k] # NoObject => k \in Declared(decl[c])

\* What lies behind a command in its visit has been read.
Visits(c) ==
    /\ pc[c] = "visiting" =>
          /\ at[c].pub \in Nat \ {0} /\ at[c].item \in Nat \ {0}
          /\ at[c] = [pub |-> at[c].pub, item |-> at[c].item]
          /\ \A i \in DOMAIN PubsOf(c) :
                i < at[c].pub => ObjectsOf(PubsOf(c)[i]) \subseteq DOMAIN found[c].objects
          /\ at[c].pub \in DOMAIN PubsOf(c) =>
                /\ at[c].item <= Len(Visit(PubsOf(c)[at[c].pub]))
                /\ \A j \in DOMAIN PubsOf(c)[at[c].pub].objects :
                      j < at[c].item =>
                         PubsOf(c)[at[c].pub].objects[j] \in DOMAIN found[c].objects
    /\ pc[c] \in {"accepting", "accepted"} => Declared(decl[c]) \subseteq DOMAIN found[c].objects

VisitInv == VisitShape /\ \A c \in Commands : Blind(c) /\ Watches(c) /\ Visits(c)

LEMMA InitialVisit == Init => VisitInv
BY DEF Init, Nothing, VisitInv, VisitShape, Blind, Watches, Visits

\* A command that is over has seen nothing.
LEMMA OverSeesNothing ==
    ASSUME IInv, VisitInv, NEW c \in Commands, Over(c)
    PROVE  /\ VisitShape' /\ (Blind(c) /\ Watches(c) /\ Visits(c))'
           /\ \A b \in Commands \ {c} :
                 /\ pc'[b] = pc[b] /\ decl'[b] = decl[b] /\ found'[b] = found[b]
                 /\ held'[b] = held[b] /\ calm'[b] = calm[b] /\ at'[b] = at[b]
<1> USE DEF IInv, TypeOK, CommandInv, DomainsAreCommands, VisitInv, VisitShape
<1>1. /\ DOMAIN held' = Commands /\ DOMAIN calm' = Commands /\ DOMAIN at' = Commands
      /\ pc'[c] = "idle" /\ found'[c] = Nothing /\ calm'[c] = FALSE
      /\ held'[c] = [k \in Keys |-> {}]
      /\ \A b \in Commands \ {c} :
                 /\ pc'[b] = pc[b] /\ decl'[b] = decl[b] /\ found'[b] = found[b]
                 /\ held'[b] = held[b] /\ calm'[b] = calm[b] /\ at'[b] = at[b]
  BY DEF Over
<1>2. DOMAIN found'[c].objects = {}
  BY <1>1 DEF Nothing
<1>3. VisitShape'
  BY <1>1 DEF Nothing
<1>4. (Blind(c) /\ Watches(c) /\ Visits(c))'
  BY <1>1, <1>2 DEF Blind, Watches, Visits
<1> QED  BY <1>1, <1>3, <1>4

\* What a command has seen it has seen while others work.
LEMMA VisitStays ==
    ASSUME NEW b \in Commands, Blind(b), Watches(b), Visits(b),
           UNCHANGED storage, pc'[b] = pc[b], decl'[b] = decl[b], found'[b] = found[b],
           held'[b] = held[b], calm'[b] = calm[b], at'[b] = at[b]
    PROVE  (Blind(b) /\ Watches(b) /\ Visits(b))'
BY DEF Blind, Watches, Visits, PubsOf

LEMMA LengthOfFunction ==
    ASSUME NEW n \in Nat, NEW S, NEW f \in [1..n -> S]
    PROVE  Len(f) = n
OBVIOUS

\* A visit is that of the objects, then of the probes.
LEMMA VisitOf ==
    ASSUME NEW p \in PublicationDeclarations
    PROVE  /\ p.objects \in Seq(Seq(Segments)) /\ Len(p.objects) \in Nat
           /\ Len(Visit(p)) \in Nat /\ Len(Visit(p)) >= Len(p.objects)
           /\ ValidPublication(p) => Len(Visit(p)) >= 1
           /\ \A i \in 1..Len(Visit(p)) :
                 /\ Visit(p)[i].read <=> i <= Len(p.objects)
                 /\ Visit(p)[i].read => Visit(p)[i].key = p.objects[i]
<1> DEFINE n == Len(p.objects)  m == Len(p.probes)
           what(i) == IF i <= n THEN [read |-> TRUE, key |-> p.objects[i]]
                      ELSE [read |-> FALSE, key |-> ProbePath(p, p.probes[i - n])]
<1>1. p.objects \in Seq(Seq(Segments)) /\ p.probes \in Seq([path : Seq(Segments), status : Int])
  BY DEF PublicationDeclarations
<1>2. n \in Nat /\ m \in Nat
  BY <1>1
<1>3. Visit(p) = [i \in 1..(n + m) |-> what(i)]
  BY DEF Visit
<1>4. ValidPublication(p) => n >= 1
  BY <1>1 DEF ValidPublication
<1>5. \A i \in 1..(n + m) : /\ what(i).read <=> i <= n
                            /\ what(i).read => what(i).key = p.objects[i]
  OBVIOUS
<1> HIDE DEF what
<1>6. \A i \in 1..(n + m) : Visit(p)[i] = what(i)
  BY <1>3
<1>7. Len(Visit(p)) = n + m
  <2> HIDE DEF n, m
  <2>1. n + m \in Nat
    BY <1>2
  <2>2. Visit(p) \in [1..(n + m) -> {what(i) : i \in 1..(n + m)}]
    BY <1>3
  <2> QED  BY <2>1, <2>2, LengthOfFunction
<1> HIDE DEF m
<1> QED  BY <1>1, <1>2, <1>4, <1>5, <1>6, <1>7

\* Where a command that visits is, and what it does next.
LEMMA WhereItIs ==
    ASSUME IInv, VisitInv, NEW c \in Commands, Visiting(c)
    PROVE  LET p == PubsOf(c)[at[c].pub]
           IN  /\ pc[c] = "visiting" /\ PubsOf(c) \in Seq(PublicationDeclarations)
               /\ at[c].pub \in DOMAIN PubsOf(c) /\ at[c].pub \in Nat \ {0}
               /\ at[c].item \in Nat \ {0} /\ at[c].item <= Len(Visit(p))
               /\ p \in PublicationDeclarations
               /\ \A i \in DOMAIN PubsOf(c) : PubsOf(c)[i] \in PublicationDeclarations
                                              /\ ValidPublication(PubsOf(c)[i])
               /\ Todo(c).read <=> at[c].item <= Len(p.objects)
               /\ Todo(c).read => /\ at[c].item \in DOMAIN p.objects
                                  /\ Todo(c).key = p.objects[at[c].item]
<1> DEFINE p == PubsOf(c)[at[c].pub]
<1>1. Working(c) /\ Visits(c) /\ pc[c] = "visiting"
  BY DEF IInv, CommandInv, VisitInv, Visiting, Sound
<1>2. PubsOf(c) \in Seq(PublicationDeclarations)
  BY <1>1 DEF Working, DeclarationFiles, PubsOf
<1>3. \A i \in DOMAIN PubsOf(c) : PubsOf(c)[i] \in PublicationDeclarations
                                  /\ ValidPublication(PubsOf(c)[i])
  BY <1>1, <1>2 DEF Working, Valid, PubsOf
<1>4. /\ at[c].pub \in DOMAIN PubsOf(c) /\ at[c].pub \in Nat \ {0}
      /\ at[c].item \in Nat \ {0} /\ at[c].item <= Len(Visit(p))
  BY <1>1, <1>2 DEF Visits, Visiting, PubsOf
<1>5. p \in PublicationDeclarations
  BY <1>3, <1>4
<1>6. Todo(c) = Visit(p)[at[c].item]
  BY DEF Todo, PubsOf
<1>7. /\ Todo(c).read <=> at[c].item <= Len(p.objects)
      /\ Todo(c).read => Todo(c).key = p.objects[at[c].item]
      /\ p.objects \in Seq(Seq(Segments))
  BY <1>4, <1>5, <1>6, VisitOf
<1>8. Todo(c).read => at[c].item \in DOMAIN p.objects
  <2> HIDE DEF p
  <2> QED  BY <1>4, <1>7
<1> QED  BY <1>1, <1>2, <1>3, <1>4, <1>5, <1>7, <1>8

\* Going on from an object that has been read, or from a probe, leaves no object
\* behind.
LEMMA OnwardLeavesNone ==
    ASSUME IInv, VisitInv, NEW c \in Commands, Visiting(c), Onward(c),
           UNCHANGED <<pc, decl>>, DOMAIN found[c].objects \subseteq DOMAIN found'[c].objects,
           Todo(c).read => Todo(c).key \in DOMAIN found'[c].objects
    PROVE  Visits(c)'
<1> DEFINE p == at[c].pub
           i == at[c].item
           pub == PubsOf(c)[p]
<1>1. /\ pc[c] = "visiting" /\ PubsOf(c) \in Seq(PublicationDeclarations)
      /\ p \in DOMAIN PubsOf(c) /\ p \in Nat \ {0} /\ i \in Nat \ {0} /\ i <= Len(Visit(pub))
      /\ pub \in PublicationDeclarations
      /\ \A n \in DOMAIN PubsOf(c) : PubsOf(c)[n] \in PublicationDeclarations
                                     /\ ValidPublication(PubsOf(c)[n])
      /\ Todo(c).read <=> i <= Len(pub.objects)
      /\ Todo(c).read => Todo(c).key = pub.objects[i]
  BY WhereItIs
<1>2. /\ \A n \in DOMAIN PubsOf(c) : n < p => ObjectsOf(PubsOf(c)[n]) \subseteq DOMAIN found'[c].objects
      /\ \A j \in DOMAIN pub.objects : j < i => pub.objects[j] \in DOMAIN found'[c].objects
  BY <1>1 DEF VisitInv, Visits
<1>3. /\ pub.objects \in Seq(Seq(Segments)) /\ Len(pub.objects) \in Nat
      /\ Len(Visit(pub)) \in Nat /\ Len(Visit(pub)) >= Len(pub.objects)
  BY <1>1, VisitOf
<1>4. \A n \in DOMAIN PubsOf(c) : Len(Visit(PubsOf(c)[n])) \in Nat /\ Len(Visit(PubsOf(c)[n])) >= 1
  BY <1>1, VisitOf
<1>5. \A j \in DOMAIN pub.objects : j <= i => pub.objects[j] \in DOMAIN found'[c].objects
  <2> HIDE DEF pub
  <2> QED  BY <1>1, <1>2, <1>3
<1>6. PubsOf(c)' = PubsOf(c) /\ pc'[c] = "visiting" /\ DOMAIN at = Commands
  BY <1>1 DEF PubsOf, VisitInv, VisitShape
<1>7. at'[c] = IF i < Len(Visit(pub)) THEN [pub |-> p, item |-> i + 1]
               ELSE [pub |-> p + 1, item |-> 1]
  BY <1>6 DEF Onward, PubsOf
<1>8. CASE i < Len(Visit(pub))
  <2>1. at'[c].pub = p /\ at'[c].item = i + 1 /\ at'[c] = [pub |-> at'[c].pub, item |-> at'[c].item]
    BY <1>7, <1>8
  <2>2. \A j \in DOMAIN pub.objects : j < i + 1 => pub.objects[j] \in DOMAIN found'[c].objects
    <3> HIDE DEF pub
    <3> QED  BY <1>1, <1>3, <1>5
  <2>3. i + 1 <= Len(Visit(pub)) /\ i + 1 \in Nat \ {0}
    BY <1>1, <1>3, <1>8
  <2> QED  BY <1>1, <1>2, <1>6, <2>1, <2>2, <2>3 DEF Visits
<1>9. CASE ~(i < Len(Visit(pub)))
  <2>1. at'[c].pub = p + 1 /\ at'[c].item = 1 /\ at'[c] = [pub |-> at'[c].pub, item |-> at'[c].item]
    BY <1>7, <1>9
  <2>2. \A j \in DOMAIN pub.objects : j <= i
    <3> HIDE DEF pub
    <3> QED  BY <1>1, <1>3, <1>9
  <2>3. ObjectsOf(pub) \subseteq DOMAIN found'[c].objects
    BY <1>5, <2>2 DEF ObjectsOf
  <2>4. \A n \in DOMAIN PubsOf(c) : n < p + 1 => n < p \/ n = p
    BY <1>1
  <2>5. \A n \in DOMAIN PubsOf(c) : n < p + 1 => ObjectsOf(PubsOf(c)[n]) \subseteq DOMAIN found'[c].objects
    BY <1>2, <2>3, <2>4
  <2>6. p + 1 \in DOMAIN PubsOf(c) =>
          /\ 1 <= Len(Visit(PubsOf(c)[p + 1]))
          /\ \A j \in DOMAIN PubsOf(c)[p + 1].objects : ~(j < 1)
    <3> SUFFICES ASSUME p + 1 \in DOMAIN PubsOf(c)
                 PROVE  /\ 1 <= Len(Visit(PubsOf(c)[p + 1]))
                        /\ \A j \in DOMAIN PubsOf(c)[p + 1].objects : ~(j < 1)
      OBVIOUS
    <3>1. PubsOf(c)[p + 1] \in PublicationDeclarations
      BY <1>1
    <3>2. PubsOf(c)[p + 1].objects \in Seq(Seq(Segments))
      BY <3>1, VisitOf
    <3> QED  BY <1>4, <3>2
  <2> QED  BY <1>1, <1>6, <2>1, <2>5, <2>6 DEF Visits
<1> QED  BY <1>8, <1>9

\* Every step keeps what commands have seen.
LEMMA VisitStep == ASSUME IInv, VisitInv, [Next]_vars PROVE VisitInv'
<1> USE DEF IInv, VisitInv, CommandInv
<1>0. /\ DOMAIN pc = Commands /\ DOMAIN decl = Commands /\ DOMAIN found = Commands
      /\ DOMAIN held = Commands /\ DOMAIN calm = Commands /\ DOMAIN at = Commands
      /\ DOMAIN storage = Keys
      BY DEF TypeOK, DomainsAreCommands, VisitShape
<1>1. ASSUME UNCHANGED <<storage, pc, decl, found, held, calm, at>> PROVE VisitInv'
      BY <1>1, VisitStays DEF VisitShape
<1>2. ASSUME NEW c \in Commands, Step(c) PROVE VisitInv'
  <2>1. ASSUME UNCHANGED storage, VisitShape', (Blind(c) /\ Watches(c) /\ Visits(c))',
               \A b \in Commands \ {c} :
                 /\ pc'[b] = pc[b] /\ decl'[b] = decl[b] /\ found'[b] = found[b]
                 /\ held'[b] = held[b] /\ calm'[b] = calm[b] /\ at'[b] = at[b]
        PROVE  VisitInv'
    <3>1. \A b \in Commands \ {c} : (Blind(b) /\ Watches(b) /\ Visits(b))'
          BY <2>1, VisitStays
    <3> QED  BY <2>1, <3>1
  <2>2. ASSUME Over(c), UNCHANGED storage PROVE VisitInv'
        BY <2>1, <2>2, OverSeesNothing
  <2>3. ASSUME pc[c] \in {"idle", "finding"}, pc'[c] \in {"finding", "listing"},
               UNCHANGED <<storage, found, held, calm, at>>, DOMAIN pc' = Commands,
               \A b \in Commands \ {c} : pc'[b] = pc[b] /\ decl'[b] = decl[b]
        PROVE  VisitInv'
    <3>1. (Blind(c) /\ Watches(c) /\ Visits(c))'
          BY <2>3 DEF Blind, Watches, Visits
    <3>2. VisitShape'
          BY <2>3 DEF VisitShape
    <3> QED  BY <2>1, <2>3, <3>1, <3>2
  <2>4. ASSUME NEW d \in Declarations, NEW o \in Origins, BeginPlan(c, d, o) PROVE VisitInv'
        BY <1>0, <2>3, <2>4 DEF BeginPlan, GoTo, outside, history
  <2>5. ASSUME NEW doc \in Documents, NEW o \in OperationIDs \cup {NoOperation},
               NEW b \in Origins, BeginCommit(c, doc, o, b)
        PROVE  VisitInv'
        BY <1>0, <2>3, <2>5 DEF BeginCommit, GoTo, outside, history
  <2>6. CASE Recheck(c)
        BY <1>0, <2>3, <2>6 DEF Recheck, GoTo, outside, history
  <2>7. CASE List(c)
    <3>1. /\ pc[c] = "listing" /\ pc'[c] = "visiting" /\ at'[c] = Start /\ calm'[c] = TRUE
          /\ held'[c] = [k \in Keys |-> {storage[k]}]
          /\ {k \in Keys : storage[k] # NoObject} \subseteq Declared(decl[c])
          /\ UNCHANGED <<storage, decl, found>>
          /\ DOMAIN held' = Commands /\ DOMAIN calm' = Commands /\ DOMAIN at' = Commands
          /\ \A b \in Commands \ {c} : /\ pc'[b] = pc[b] /\ held'[b] = held[b]
                                       /\ calm'[b] = calm[b] /\ at'[b] = at[b]
          BY <1>0, <2>7 DEF List, GoTo, outside
    <3>2. VisitShape'
          BY <3>1 DEF VisitShape
    <3>3. DOMAIN found[c].objects = {}
          BY <3>1 DEF Blind
    <3>4. Blind(c)' /\ Watches(c)'
          BY <3>1, <3>3 DEF Blind, Watches
    <3>5. Visits(c)'
      <4>1. decl[c] \in DeclarationFiles /\ Valid(decl[c])
            BY <3>1 DEF Sound, Working
      <4>2. /\ PubsOf(c) \in Seq(PublicationDeclarations)
            /\ \A i \in DOMAIN PubsOf(c) : ValidPublication(PubsOf(c)[i])
            BY <4>1 DEF DeclarationFiles, PubsOf, Valid
      <4>3. 1 \in DOMAIN PubsOf(c) =>
              /\ 1 <= Len(Visit(PubsOf(c)[1]))
              /\ \A j \in DOMAIN PubsOf(c)[1].objects : ~(j < 1)
        <5> SUFFICES ASSUME 1 \in DOMAIN PubsOf(c)
                     PROVE  /\ 1 <= Len(Visit(PubsOf(c)[1]))
                            /\ \A j \in DOMAIN PubsOf(c)[1].objects : ~(j < 1)
          OBVIOUS
        <5>1. PubsOf(c)[1] \in PublicationDeclarations /\ ValidPublication(PubsOf(c)[1])
              BY <4>2
        <5>2. Len(Visit(PubsOf(c)[1])) >= 1 /\ PubsOf(c)[1].objects \in Seq(Seq(Segments))
              /\ Len(Visit(PubsOf(c)[1])) \in Nat
              BY <5>1, VisitOf
        <5> QED  BY <5>2
      <4>4. \A i \in DOMAIN PubsOf(c) : ~(i < 1)
            BY <4>2
      <4>5. PubsOf(c)' = PubsOf(c) /\ at'[c].pub = 1 /\ at'[c].item = 1
            /\ at'[c] = [pub |-> 1, item |-> 1]
            BY <3>1 DEF PubsOf, Start
      <4> QED  BY <3>1, <4>3, <4>4, <4>5 DEF Visits
    <3> QED  BY <2>1, <3>1, <3>2, <3>4, <3>5
  <2>8. ASSUME Visiting(c), Onward(c), UNCHANGED <<storage, pc, decl, held, calm>>,
               DOMAIN found' = Commands,
               found'[c] = [objects |-> found'[c].objects, routes |-> found'[c].routes],
               \A b \in Commands \ {c} : found'[b] = found[b],
               DOMAIN found[c].objects \subseteq DOMAIN found'[c].objects,
               \A k \in DOMAIN found'[c].objects :
                  /\ k \in Keys /\ found'[c].objects[k] # NoObject
                  /\ \/ k \in DOMAIN found[c].objects /\ found'[c].objects[k] = found[c].objects[k]
                     \/ found'[c].objects[k] = storage[k],
               Todo(c).read => Todo(c).key \in DOMAIN found'[c].objects
        PROVE  VisitInv'
    <3>1. pc[c] = "visiting" /\ Watches(c)
          BY <2>8 DEF Visiting
    <3>2. DOMAIN at' = Commands /\ \A b \in Commands \ {c} : at'[b] = at[b]
          BY <1>0, <2>8 DEF Onward
    <3>3. VisitShape'
          BY <2>8, <3>2 DEF VisitShape
    <3>4. Blind(c)'
          BY <2>8, <3>1 DEF Blind
    <3>5. Watches(c)'
          BY <2>8, <3>1 DEF Watches
    <3>6. Visits(c)'
          BY <2>8, OnwardLeavesNone
    <3> QED  BY <2>1, <2>8, <3>2, <3>3, <3>4, <3>5, <3>6
  <2>9. CASE ReadObject(c)
    <3> DEFINE k == Todo(c).key
    <3>1. /\ Visiting(c) /\ Onward(c) /\ Todo(c).read /\ k \in listed[c] /\ storage[k] # NoObject
          /\ UNCHANGED <<storage, pc, decl, held, calm>>
          /\ found' = [found EXCEPT ![c].objects = With(@, k, storage[k])]
          BY <2>9 DEF ReadObject, outside, history
    <3>2. k \in Keys
          BY <3>1 DEF TypeOK
    <3> HIDE DEF k
    <3>3. found[c] = [objects |-> found[c].objects, routes |-> found[c].routes]
          BY DEF VisitShape
    <3>4. /\ DOMAIN found' = Commands /\ \A b \in Commands \ {c} : found'[b] = found[b]
          /\ found'[c] = [objects |-> With(found[c].objects, k, storage[k]),
                          routes |-> found[c].routes]
          BY <1>0, <3>1, <3>3
    <3>5. /\ found'[c] = [objects |-> found'[c].objects, routes |-> found'[c].routes]
          /\ found'[c].objects = With(found[c].objects, k, storage[k])
          BY <3>4
    <3>6. /\ DOMAIN found'[c].objects = DOMAIN found[c].objects \cup {k}
          /\ found'[c].objects[k] = storage[k]
          /\ \A x \in DOMAIN found[c].objects : x # k => found'[c].objects[x] = found[c].objects[x]
          BY <3>5 DEF With
    <3>7. \A x \in DOMAIN found[c].objects : x \in Keys /\ found[c].objects[x] # NoObject
          BY <3>1 DEF Watches, Visiting
    <3> QED  BY <2>8, <3>1, <3>2, <3>4, <3>5, <3>6, <3>7 DEF k
  <2>10. CASE Probe(c)
    <3>1. /\ Visiting(c) /\ Onward(c) /\ ~Todo(c).read
          /\ UNCHANGED <<storage, pc, decl, held, calm>>
          /\ found' = [found EXCEPT ![c].routes = With(@, Todo(c).key, route)]
          BY <2>10 DEF Probe, outside, history
    <3>2. found[c] = [objects |-> found[c].objects, routes |-> found[c].routes]
          BY DEF VisitShape
    <3>3. /\ DOMAIN found' = Commands /\ \A b \in Commands \ {c} : found'[b] = found[b]
          /\ found'[c] = [objects |-> found[c].objects,
                          routes |-> With(found[c].routes, Todo(c).key, route)]
          BY <1>0, <3>1, <3>2
    <3>4. /\ found'[c] = [objects |-> found'[c].objects, routes |-> found'[c].routes]
          /\ found'[c].objects = found[c].objects
          BY <3>3
    <3>5. \A x \in DOMAIN found[c].objects : x \in Keys /\ found[c].objects[x] # NoObject
          BY <3>1 DEF Watches, Visiting
    <3> QED  BY <2>8, <3>1, <3>3, <3>4, <3>5
  <2>11. CASE WritePlan(c)
        BY <2>2, <2>11 DEF WritePlan, outside
  <2>12. CASE Replay(c) \/ Report(c) \/ Stop(c)
        BY <2>2, <2>12 DEF Replay, Report, Stop, outside
  <2>13. CASE Approve(c)
    <3>1. /\ Built(c) /\ pc'[c] = "accepting" /\ UNCHANGED <<storage, decl, found, held, calm, at>>
          /\ \A b \in Commands \ {c} : pc'[b] = pc[b]
          BY <1>0, <2>13 DEF Approve, GoTo, outside, history
    <3>2. decl[c] \in DeclarationFiles /\ Visits(c) /\ Watches(c)
          BY <3>1 DEF Built, Sound, Working
    <3>3. PubsOf(c) \in Seq(PublicationDeclarations)
          BY <3>2 DEF DeclarationFiles, PubsOf
    <3>4. \A i \in DOMAIN PubsOf(c) : ObjectsOf(PubsOf(c)[i]) \subseteq DOMAIN found[c].objects
          BY <3>1, <3>2, <3>3 DEF Built, Visits, PubsOf
    <3>5. Declared(decl[c]) \subseteq DOMAIN found[c].objects
          BY <3>4 DEF Declared, Pubs, PubsOf
    <3>6. (Blind(c) /\ Watches(c) /\ Visits(c))'
          BY <3>1, <3>2, <3>5 DEF Blind, Watches, Visits, Built
    <3>7. VisitShape'
          BY <3>1 DEF VisitShape
    <3> QED  BY <2>1, <3>1, <3>6, <3>7
  <2>14. CASE Accept(c)
    <3>1. /\ pc[c] = "accepting" /\ pc'[c] = "accepted"
          /\ UNCHANGED <<storage, decl, found, held, calm, at>>
          /\ \A b \in Commands \ {c} : pc'[b] = pc[b]
          BY <1>0, <2>14 DEF Accept, Insert, GoTo, outside, history
    <3>2. (Blind(c) /\ Watches(c) /\ Visits(c))'
          BY <3>1 DEF Blind, Watches, Visits
    <3>3. VisitShape'
          BY <3>1 DEF VisitShape
    <3> QED  BY <2>1, <3>1, <3>2, <3>3
  <2> QED  BY <1>2, <2>4, <2>5, <2>6, <2>7, <2>9, <2>10, <2>11, <2>12, <2>13, <2>14 DEF Step
<1>3. ASSUME NEW k \in Keys, NEW v \in Versions \cup {NoObject}, Publish(k, v) PROVE VisitInv'
  <2>1. /\ UNCHANGED <<pc, decl, found, at>> /\ calm' = [c \in Commands |-> FALSE]
        /\ storage'[k] = v /\ \A x \in Keys \ {k} : storage'[x] = storage[x]
        /\ held' = [c \in Commands |->
                  IF held[c][k] = {} THEN held[c] ELSE [held[c] EXCEPT ![k] = @ \cup {v}]]
        BY <1>0, <1>3 DEF Publish, command
  <2>2. \A c \in Commands : /\ DOMAIN held'[c] = Keys
                            /\ \A x \in Keys \ {k} : held'[c][x] = held[c][x]
                            /\ held[c][k] # {} => held'[c][k] = held[c][k] \cup {v}
                            /\ held[c][k] = {} => held'[c][k] = {}
        BY <2>1 DEF VisitShape
  <2>3. ASSUME NEW c \in Commands PROVE (Blind(c) /\ Watches(c) /\ Visits(c))'
    <3>1. Blind(c)' /\ Visits(c)'
          BY <2>1 DEF Blind, Visits, PubsOf
    <3>2. Watches(c)'
          BY <2>1, <2>2 DEF Watches
    <3> QED  BY <3>1, <3>2
  <2>4. VisitShape'
        BY <2>1, <2>2 DEF VisitShape
  <2> QED  BY <2>3, <2>4
<1>4. ASSUME NEW a \in Answers \cup {WrongStatus}, Reroute(a) PROVE VisitInv'
  <2>1. UNCHANGED <<storage, pc, decl, found, at, held>> /\ calm' = [c \in Commands |-> FALSE]
        BY <1>4 DEF Reroute, command
  <2>2. \A c \in Commands : (Blind(c) /\ Watches(c) /\ Visits(c))'
        BY <2>1 DEF Blind, Watches, Visits, PubsOf
  <2> QED  BY <2>1, <2>2 DEF VisitShape
<1>5. CASE UNCHANGED vars
      BY <1>1, <1>5 DEF vars, outside, command, history
<1> QED  BY <1>2, <1>3, <1>4, <1>5 DEF Next

\* Every plan and commit follows what storage has held since its listing.
LEMMA VisitInvariant == Spec => []VisitInv
<1>1. IInv /\ VisitInv /\ [Next]_vars => VisitInv'
      BY VisitStep
<1> QED  BY InitialVisit, <1>1, Invariant, PTL DEF Spec

\* A step to "accepted" is the transaction of that command, and its rows are new.
LEMMA AcceptsAdds ==
    ASSUME IInv, VisitInv, [Next]_vars, NEW c \in Commands, Accepts(c)
    PROVE  /\ publications' \ publications = Rows(op[c], Content(origin[c], decl[c], found[c]))
           /\ Watches(c) /\ Declared(decl[c]) \subseteq DOMAIN found[c].objects
<1> USE DEF IInv, CommandInv
<1>1. DOMAIN pc = Commands /\ pc[c] = "accepting" /\ pc'[c] = "accepted"
      BY DEF Accepts, TypeOK
<1>2. pc' # pc
      BY <1>1
<1>3. PICK b \in Commands : Step(b)
      BY <1>2 DEF Next, vars, command, Publish, Reroute
<1>4. Accept(b) /\ b = c
  <2>1. ~Over(b)
        BY <1>1 DEF Over
  <2>2. Accept(b)
        BY <1>1, <1>3, <2>1 DEF Step, BeginPlan, List, ReadObject, Probe, WritePlan, BeginCommit,
                                Replay, Recheck, Approve, Report, Stop, GoTo
  <2> QED  BY <1>1, <2>2 DEF Accept, Insert, GoTo
<1> DEFINE rows == Rows(op[c], plan[c].digest)
<1>5. /\ publications' = publications \cup rows
      /\ \A r \in rows, s \in publications : r # s
      BY <1>4, AcceptsOnce
<1>6. plan[c].digest = Content(origin[c], decl[c], found[c])
      BY <1>1 DEF Sound, Approved
<1>7. publications' \ publications = rows
  <2> HIDE DEF rows
  <2> QED  BY <1>5
<1> QED  BY <1>1, <1>6, <1>7 DEF VisitInv, Visits

\* The objects of a row of a content.
LEMMA ObjectsOfRow ==
    ASSUME NEW o, NEW content, NEW r \in Rows(o, content)
    PROVE  /\ DOMAIN r.objects \subseteq Declared(content.decl)
           /\ \A k \in DOMAIN r.objects : r.objects[k] = content.objects[k]
BY DEF Rows, Declared

\* Every declared object is in a row.
LEMMA RowOfObject ==
    ASSUME NEW o, NEW content, NEW k \in Declared(content.decl)
    PROVE  \E r \in Rows(o, content) : k \in DOMAIN r.objects /\ r.objects[k] = content.objects[k]
<1>1. PICK p \in Pubs(content.decl) : k \in ObjectsOf(p)
      BY DEF Declared
<1> DEFINE r == [prefix |-> p.prefix, path |-> p.path, url |-> CanonicalPath(p), op |-> o,
                 objects |-> [x \in ObjectsOf(p) |-> content.objects[x]]]
<1>2. r \in Rows(o, content)
      BY DEF Rows
<1>3. k \in DOMAIN r.objects /\ r.objects[k] = content.objects[k]
      BY <1>1
<1> QED  BY <1>2, <1>3

\* AcceptedWasThere: every accepted object was in storage, as accepted, at some
\* moment of the recheck that led to the transaction (commit.go:42-44).
THEOREM AcceptedWasStored == Spec => AcceptedWasThere
<1> DEFINE WasThere ==
      \A c \in Commands : Accepts(c) =>
          \A r \in publications' \ publications :
              \A k \in DOMAIN r.objects : r.objects[k] \in held[c][k]
<1>1. ASSUME IInv, VisitInv, [Next]_vars PROVE WasThere
  <2> SUFFICES ASSUME NEW c \in Commands, Accepts(c), NEW r \in publications' \ publications,
                      NEW k \in DOMAIN r.objects
               PROVE  r.objects[k] \in held[c][k]
      OBVIOUS
  <2> DEFINE content == Content(origin[c], decl[c], found[c])
  <2>1. /\ r \in Rows(op[c], content) /\ Watches(c)
        /\ Declared(decl[c]) \subseteq DOMAIN found[c].objects
        BY <1>1, AcceptsAdds
  <2>2. content.decl = decl[c] /\ content.objects = found[c].objects
        BY DEF Content
  <2>3. k \in DOMAIN found[c].objects /\ r.objects[k] = found[c].objects[k]
    <3> HIDE DEF content
    <3> QED  BY <2>1, <2>2, ObjectsOfRow
  <2> QED  BY <1>1, <2>1, <2>3 DEF Watches, Accepts
<1>2. IInv /\ VisitInv /\ [Next]_vars => [WasThere]_vars
      BY <1>1
<1> QED  BY <1>2, Invariant, VisitInvariant, PTL DEF Spec, AcceptedWasThere

\* FrozenBucketCovered: under the write freeze the batch accepted covers the
\* bucket, object by object (plan.go:195-197).
THEOREM FrozenBucketIsCovered == Spec => FrozenBucketCovered
<1> DEFINE Covers ==
      \A c \in Commands : Accepts(c) /\ calm[c] =>
          LET new == publications' \ publications
          IN  \A k \in Keys :
                IF storage[k] = NoObject THEN \A r \in new : k \notin DOMAIN r.objects
                ELSE \E r \in new : k \in DOMAIN r.objects /\ r.objects[k] = storage[k]
<1>1. ASSUME IInv, VisitInv, [Next]_vars PROVE Covers
  <2> SUFFICES ASSUME NEW c \in Commands, Accepts(c), calm[c], NEW k \in Keys
               PROVE  /\ storage[k] = NoObject =>
                            \A r \in publications' \ publications : k \notin DOMAIN r.objects
                      /\ storage[k] # NoObject =>
                            \E r \in publications' \ publications :
                               k \in DOMAIN r.objects /\ r.objects[k] = storage[k]
      OBVIOUS
  <2> DEFINE content == Content(origin[c], decl[c], found[c])
             rows == Rows(op[c], content)
  <2>1. /\ publications' \ publications = rows /\ Watches(c)
        /\ Declared(decl[c]) \subseteq DOMAIN found[c].objects
        BY <1>1, AcceptsAdds
  <2>2. content.decl = decl[c] /\ content.objects = found[c].objects
        BY DEF Content
  <2>3. /\ \A x \in DOMAIN found[c].objects : found[c].objects[x] = storage[x]
                                              /\ found[c].objects[x] # NoObject
        /\ storage[k] # NoObject => k \in Declared(decl[c])
        BY <2>1 DEF Watches, Accepts
  <2> HIDE DEF content
  <2>4. ASSUME storage[k] = NoObject, NEW r \in rows PROVE k \notin DOMAIN r.objects
        BY <2>1, <2>2, <2>3, <2>4, ObjectsOfRow
  <2>5. ASSUME storage[k] # NoObject
        PROVE  \E r \in rows : k \in DOMAIN r.objects /\ r.objects[k] = storage[k]
    <3>1. k \in Declared(content.decl) /\ content.objects[k] = storage[k]
          BY <2>1, <2>2, <2>3, <2>5
    <3> QED  BY <3>1, RowOfObject
  <2> HIDE DEF rows
  <2> QED  BY <2>1, <2>4, <2>5
<1>2. IInv /\ VisitInv /\ [Next]_vars => [Covers]_vars
      BY <1>1
<1> QED  BY <1>2, Invariant, VisitInvariant, PTL DEF Spec, FrozenBucketCovered

=============================================================================
