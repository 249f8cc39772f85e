---------------------------- MODULE Declaration ----------------------------
(***************************************************************************)
(* The rules an adoption declaration must meet before Page Hub touches     *)
(* storage or the catalog (internal/adoption/declaration.go), and what     *)
(* they are for: every object and every public route belongs to at most    *)
(* one Publication, and none to the manager.                               *)
(*                                                                         *)
(* A path, an object key and a URL path are sequences of segments, what    *)
(* strings.Split(s, "/") makes of them; a trailing slash is an empty last  *)
(* segment.  What the code asks of the characters of a segment is which of *)
(* the sets below it belongs to.                                           *)
(*                                                                         *)
(* Not covered: display names beyond their being equal, and the wording of *)
(* a rejection.                                                            *)
(***************************************************************************)
EXTENDS Integers, Sequences, FiniteSets

CONSTANTS
    Segments,       \* what may stand between two slashes
    EmptySegment,   \* nothing
    DotSegments,    \* "." and ".."
    Hidden,         \* begin with a dot
    Reserved,       \* "_page-hub" in any letter case
    Blank,          \* nothing but white space
    Unclean         \* contain a control character, '?' or '#'

ASSUME SegmentAssumption ==
    /\ EmptySegment \in Blank
    /\ DotSegments \subseteq Hidden
    /\ Hidden \cup Reserved \cup Blank \cup Unclean \subseteq Segments

\* Declarations as they are decoded, before anything is asked of them.
PublicationDeclarations ==
    [prefix : Seq(Segments), name : STRING, path : Seq(Segments), mode : STRING,
     objects : Seq(Seq(Segments)), entry : Seq(Segments),
     probes : Seq([path : Seq(Segments), status : Int])]
DeclarationFiles == [version : Int, publications : Seq(PublicationDeclarations)]

RoutingModes == {"exact_file", "directory_index", "fallback"}

\* b lies beneath a: strings.HasPrefix(b, a + "/").
Beneath(b, a) == Len(b) > Len(a) /\ \A i \in 1..Len(a) : b[i] = a[i]

Within(b, a) == b = a \/ Beneath(b, a)

\* validatePathSegments
CleanSegments(path) ==
    \A i \in 1..Len(path) : path[i] # EmptySegment /\ path[i] \notin DotSegments

\* validateKeyCharacters
CleanCharacters(path) ==
    /\ \A i \in 1..Len(path) : path[i] \notin Unclean
    /\ ~(Len(path) = 1 /\ path[1] \in Blank)

\* Faulty variant of ValidPrefix: the manager's name is not reserved.
ValidPrefix_Unreserved(prefix) ==
    /\ prefix # <<EmptySegment>>
    /\ prefix[1] \notin Hidden
    /\ Len(prefix) = 1
    /\ CleanCharacters(prefix)

\* validatePrefix
ValidPrefix(prefix) ==
    /\ prefix # <<EmptySegment>>
    /\ ~(Len(prefix) = 1 /\ prefix[1] \in Reserved)
    /\ prefix[1] \notin Hidden
    /\ Len(prefix) = 1
    /\ CleanCharacters(prefix)

\* validatePath
ValidPath(prefix, path) ==
    \/ path = prefix
    \/ /\ Beneath(path, prefix)
       /\ CleanSegments(path) /\ CleanCharacters(path)

\* validateObjectKey
ValidObjectKey(path, key) ==
    \/ key = path
    \/ /\ Beneath(key, path)
       /\ CleanSegments(key) /\ CleanCharacters(key)

\* validateProbePath; the empty path is the sequence of one empty segment.
ValidProbePath(path) ==
    path = <<EmptySegment>> \/ (CleanSegments(path) /\ CleanCharacters(path))

\* validateProbes, of a sequence of [path, status]
ValidProbes(probes) ==
    /\ probes # <<>>
    /\ \A i \in DOMAIN probes :
          /\ probes[i].status \in 100..599
          /\ ValidProbePath(probes[i].path)
          /\ \A j \in DOMAIN probes : probes[i].path = probes[j].path => i = j

\* PublicationDeclaration.Validate
ValidPublication(p) ==
    /\ ValidPrefix(p.prefix)
    /\ ValidPath(p.prefix, p.path)
    /\ p.mode \in RoutingModes
    /\ p.objects # <<>>
    /\ p.mode = "exact_file" => Len(p.objects) = 1
    /\ \A i \in DOMAIN p.objects :
          /\ ValidObjectKey(p.path, p.objects[i])
          /\ \A j \in DOMAIN p.objects : p.objects[i] = p.objects[j] => i = j
    /\ \E i \in DOMAIN p.objects : p.objects[i] = p.entry
    /\ ValidProbes(p.probes)

ObjectsOf(p) == {p.objects[i] : i \in DOMAIN p.objects}

\* Faulty variant of CheckBoundaries: only identical paths are rejected.
CheckBoundaries_EqualOnly(pubs) ==
    \A i, j \in DOMAIN pubs : i < j => pubs[i].path # pubs[j].path

\* checkBoundaries: no path is, or lies beneath, another.
CheckBoundaries(pubs) ==
    \A i, j \in DOMAIN pubs : i < j =>
        /\ pubs[i].path # pubs[j].path
        /\ ~Beneath(pubs[j].path, pubs[i].path)
        /\ ~Beneath(pubs[i].path, pubs[j].path)

\* Declaration.Validate
Valid(d) ==
    /\ d.version = 1
    /\ d.publications # <<>>
    /\ \A i \in DOMAIN d.publications : ValidPublication(d.publications[i])
    /\ \A i, j \in DOMAIN d.publications : i < j =>
          /\ ObjectsOf(d.publications[i]) \cap ObjectsOf(d.publications[j]) = {}
          /\ d.publications[i].prefix = d.publications[j].prefix =>
                d.publications[i].name = d.publications[j].name
    /\ CheckBoundaries(d.publications)

\* CanonicalURL, below the public base URL
CanonicalPath(p) == IF p.mode = "exact_file" THEN p.entry ELSE p.path

\* ProbeURL, below the public base URL
ProbePath(p, probe) ==
    IF probe.path = <<EmptySegment>> THEN CanonicalPath(p)
    ELSE CanonicalPath(p) \o probe.path

=============================================================================
