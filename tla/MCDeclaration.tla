--------------------------- MODULE MCDeclaration ---------------------------
(***************************************************************************)
(* Declaration.Validate over every declaration of up to two Publications   *)
(* that the segments below can spell, checked against what an accepted     *)
(* declaration is for, in the catalog and behind the boundary of the       *)
(* manager; and the boundary itself, for every setting Validate accepts    *)
(* and every kind of request.                                              *)
(***************************************************************************)
EXTENDS Boundary, SequencesExt

CONSTANTS
    PathSegments,   \* the segments the candidate paths are made of
    MaxDepth,       \* and how many a path has at most
    Unconfigured    \* no manager has been started

ASSUME MCDeclarationAssumption ==
    /\ PathSegments \subseteq Segments
    /\ MaxDepth \in Nat
    /\ {"n", "exact_file", "fallback"} \subseteq STRING

\* net/url, on the segments of the instances that hold a percent escape: of a
\* character of the manager's name, or of a slash.
MCDecoded ==
    [s \in Segments |->
        CASE s \in {"%5Fpage-hub", "_page%2Dhub"} -> <<"_page-hub">>
          [] s = "_page-hub%2Fa" -> <<"_page-hub", "a">>
          [] OTHER -> <<s>>]

VARIABLES
    decl, verdict,      \* a declaration, and what Validate says of it
    config, exchange    \* the settings of a manager, and a request it answered

vars == <<decl, verdict, config, exchange>>

CandidatePaths == BoundedSeq(PathSegments, MaxDepth) \ {<<>>}

Probe == [path |-> <<EmptySegment>>, status |-> 200]

\* Publications of one object, which is also the entry point: boundaries and
\* routes are about where the paths lie, not about how many objects there are.
Candidates ==
    {[prefix |-> x, name |-> "n", path |-> p, mode |-> m, objects |-> <<k>>,
      entry |-> k, probes |-> <<Probe>>] :
        x \in {q \in CandidatePaths : Len(q) = 1 \/ q = <<q[1], q[1]>>},
        p \in CandidatePaths, k \in CandidatePaths, m \in {"exact_file", "fallback"}}

\* Every handler, missing routes, and paths that only look reserved.
URLs ==
    {Apis[a] : a \in DOMAIN Apis} \cup
    {<<EmptySegment>>, <<ManagerRoot>>, <<ManagerRoot, EmptySegment>>,
     <<ManagerRoot, "assets", "a">>, <<ManagerRoot, "preview", "a">>,
     <<ManagerRoot, "api", "v1", "a">>, <<"_PAGE-HUB", "healthz">>, <<"a">>, <<"a", ManagerRoot>>}

Requests ==
    [url : URLs, method : {"GET", "HEAD", "POST"},
     assertion : {<<>>, <<"">>, <<"wrong">>, <<"right">>, <<"wrong", "right">>, <<"right", "right">>}]

NoExchange == [request |-> <<>>, answer |-> [by |-> "nobody", told |-> <<>>]]

\* Each Publication is first judged alone; pairs are made of those that pass.
Init ==
    /\ \/ decl \in {<<p>> : p \in Candidates} /\ config = Unconfigured
       \/ decl = <<>> /\ config \in Settings
    /\ verdict = "pending"
    /\ exchange = NoExchange

Asked == [version |-> 1, publications |-> decl]

Validate ==
    /\ verdict = "pending" /\ config = Unconfigured
    /\ verdict' = IF Valid(Asked) THEN "valid" ELSE "rejected"
    /\ UNCHANGED <<decl, config, exchange>>

\* The operator adds a second Publication to a declaration that was accepted.
Extend ==
    /\ verdict = "valid" /\ Len(decl) = 1
    /\ \E p \in Candidates :
          ValidPublication(p) /\ decl' = Append(decl, p)
    /\ verdict' = "pending"
    /\ UNCHANGED <<config, exchange>>

\* serve reads its settings.
Configure ==
    /\ verdict = "pending" /\ config # Unconfigured
    /\ verdict' = IF ValidSettings(config) THEN "serving" ELSE "refused"
    /\ UNCHANGED <<decl, config, exchange>>

Serve ==
    /\ verdict = "serving"
    /\ \E r \in Requests : exchange' = [request |-> r, answer |-> Answer(config, r)]
    /\ UNCHANGED <<decl, verdict, config>>

Next == Validate \/ Extend \/ Configure \/ Serve

Spec == Init /\ [][Next]_vars

-----------------------------------------------------------------------------

\* The path of the request a public URL comes to: net/http decodes what the URL
\* spells.
AsRequested(url) == FlattenSeq([i \in DOMAIN url |-> Decoded[url[i]]])

\* The URLs a Publication serves: everything at or beneath its canonical path,
\* and its own objects.
Serves(p, url) == Within(url, CanonicalPath(p)) \/ url \in ObjectsOf(p)

\* declaration.go:96-99, 273-274: every object and every public route can be
\* assigned to exactly one Publication of an accepted declaration: no two of
\* them serve URLs that come to the same request.
RoutesOwnedOnce ==
    verdict = "valid" =>
        \A i, j \in DOMAIN decl : i # j =>
            LET mine == {AsRequested(url) : url \in {u \in CandidatePaths : Serves(decl[i], u)}}
                other == {AsRequested(url) : url \in {u \in CandidatePaths : Serves(decl[j], u)}}
            IN  mine \cap other = {}

\* declaration.go:215-229, server.go:216-218: everything an accepted Publication
\* serves lies beneath the prefix of its project, which is the manager's name in
\* no letter case; and the manager answers in place of the public reader only
\* where that prefix hides the name behind an escape.
OutsideManager ==
    verdict = "valid" =>
        \A i \in DOMAIN decl : \A url \in CandidatePaths :
            Serves(decl[i], url) =>
                /\ <<url[1]>> = decl[i].prefix /\ url[1] \notin Reserved
                /\ Handler(AsRequested(url)) # "public" =>
                      Decoded[url[1]] # <<url[1]>> /\ Decoded[url[1]][1] = ManagerRoot

\* preview.go:27-30, docs/publication-operation-contracts.md:49-50: the preview
\* of a declared path is the preview of that Publication and of no other: it
\* leads to its canonical URL exactly when that Publication was found in sync,
\* whatever is the matter with the others; with the catalog unreadable, or
\* nothing observed yet, it leads nowhere.  The page escapes each segment of the
\* path (Inventory.tsx:38), so that it is decoded to what was declared.
PreviewsItsOwn ==
    verdict = "valid" =>
        \A i \in DOMAIN decl, readable \in BOOLEAN :
        \A state \in [DOMAIN decl -> {"in_sync", "drifted", "unobserved"}] :
            LET preview == Preview(readable, decl, state, decl[i].path)
            IN  IF readable /\ state[i] = "in_sync"
                THEN /\ preview = [status |-> 302, to |-> CanonicalPath(decl[i])]
                     /\ \A j \in DOMAIN decl : Serves(decl[j], preview.to) => i = j
                ELSE preview.status = IF readable THEN 409 ELSE 503

\* config.go:135-158, server.go:189-214: with any settings a manager can serve
\* with, its handlers answer nobody but the operator, who has the one assertion
\* configured or sits at the machine; and the public reader is never told one.
AnswersOnlyTheOperator ==
    LET by == exchange.answer.by
        atTheMachine == config.bypass /\ config.listen # "any host"
    IN  /\ by \in Handlers \ {"public"} =>
              atTheMachine \/ (exchange.request.assertion = <<config.value>> /\ config.value # "")
        /\ by = "public" => exchange.answer.told = <<>>
=============================================================================
