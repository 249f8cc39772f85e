------------------------------ MODULE Boundary ------------------------------
(***************************************************************************)
(* The boundary between the manager and the public reader                  *)
(* (internal/server/server.go, preview.go): which handler a request comes  *)
(* to, whom the manager's handlers answer, and where the preview of a      *)
(* Publication leads, under the settings module Config accepts.            *)
(*                                                                         *)
(* The path of a request is the sequence of its segments after net/http    *)
(* has decoded it; "/" is the sequence of one empty segment.               *)
(*                                                                         *)
(* Not covered: the bodies of answers (Manager has the inventory's), the   *)
(* embedded assets, and the listener.                                      *)
(***************************************************************************)
EXTENDS Declaration, Config

CONSTANTS
    ManagerRoot,    \* "_page-hub", in exactly these letters
    Decoded         \* Decoded[s]: the path s is with its percent escapes decoded
                    \* (net/url); an escaped slash parts it into segments

\* An escape stands for a character: only nothing is decoded to nothing.
ASSUME BoundaryAssumption ==
    /\ ManagerRoot \in Reserved
    /\ Decoded \in [Segments -> Seq(Segments) \ {<<>>}]
    /\ \A s \in Segments : Decoded[s] = <<EmptySegment>> => s = EmptySegment

(***************************************************************************)
(* Routes                                                                  *)
(***************************************************************************)

\* isReservedPath
IsReservedPath(url) == url = <<EmptySegment>> \/ url[1] = ManagerRoot

Apis ==
    [status    |-> <<ManagerRoot, "api", "v1", "status">>,
     inventory |-> <<ManagerRoot, "api", "v1", "inventory">>,
     refresh   |-> <<ManagerRoot, "api", "v1", "refresh">>,
     health    |-> <<ManagerRoot, "healthz">>,
     ready     |-> <<ManagerRoot, "readyz">>]

Handlers == {"public", "shell", "root", "asset", "preview", "nothing"} \cup DOMAIN Apis

\* serveHTTP and the routes of serveManager.  The redirect of "/_page-hub" leads
\* to "/_page-hub/", at which there is nothing.
Handler(url) ==
    CASE ~IsReservedPath(url) -> "public"
      [] url = <<EmptySegment>> -> "shell"
      [] url = <<ManagerRoot>> -> "root"
      [] Beneath(url, <<ManagerRoot, "assets">>) -> "asset"
      [] Beneath(url, <<ManagerRoot, "preview">>) -> "preview"
      [] \E a \in DOMAIN Apis : url = Apis[a] -> CHOOSE a \in DOMAIN Apis : url = Apis[a]
      [] OTHER -> "nothing"

\* allowMethods; a redirect and a missing route do not ask.
Allows(handler, method) ==
    CASE handler \in {"root", "nothing", "public"} -> TRUE
      [] handler = "refresh" -> method = "POST"
      [] OTHER -> method \in {"GET", "HEAD"}

\* authorized; r.assertion holds every value of the assertion header.
Authorized(c, r) ==
    \/ c.bypass
    \/ /\ Len(r.assertion) = 1 /\ r.assertion[1] # ""
       /\ r.assertion[1] = c.value

\* Who answers a request, and what it is told of the caller's assertion:
\* serveManager asks authorized first, a signed-out page is sent to the login
\* (writeUnauthorized), and servePublic takes the assertion off the request.
Answer(c, r) ==
    LET handler == Handler(r.url) IN
    IF handler = "public" THEN [by |-> "public", told |-> <<>>]
    ELSE IF Authorized(c, r) THEN
        [by |-> IF Allows(handler, r.method) THEN handler ELSE "method", told |-> r.assertion]
    ELSE IF handler = "shell" /\ c.login # "" /\ Allows(handler, r.method)
    THEN [by |-> "login", told |-> r.assertion]
    ELSE [by |-> "unauthorized", told |-> r.assertion]

(***************************************************************************)
(* Previews                                                                *)
(***************************************************************************)

\* validPublicationPath
ValidPublicationPath(path) == path # <<EmptySegment>> /\ CleanSegments(path)

\* The page a preview warns with, instead of a redirect.
Warning(status) == [status |-> status, to |-> <<>>]

\* Faulty variant of Preview: every Publication is addressed by its path.
Preview_ByPath(readable, pubs, state, path) ==
    LET known == {i \in DOMAIN pubs : pubs[i].path = path}
        i == CHOOSE i \in known : TRUE
    IN  IF ~ValidPublicationPath(path) THEN Warning(404)
        ELSE IF ~readable THEN Warning(503)
        ELSE IF known = {} THEN Warning(404)
        ELSE IF state[i] # "in_sync" THEN Warning(409)
        ELSE [status |-> 302, to |-> pubs[i].path]

\* servePreview: pubs are the catalogued Publications, when the catalog can be
\* read, and state what the latest observation says of each.  There is a public
\* base URL, Validate sees to it; the target is what follows it.
Preview(readable, pubs, state, path) ==
    LET known == {i \in DOMAIN pubs : pubs[i].path = path}
        i == CHOOSE i \in known : TRUE
    IN  IF ~ValidPublicationPath(path) THEN Warning(404)
        ELSE IF ~readable THEN Warning(503)
        ELSE IF known = {} THEN Warning(404)
        ELSE IF state[i] # "in_sync" THEN Warning(409)
        ELSE [status |-> 302, to |-> CanonicalPath(pubs[i])]

=============================================================================
