------------------------- MODULE Declaration_proofs -------------------------
(***************************************************************************)
(* Proofs about Declaration, for any segments and declarations of any      *)
(* size: whatever lies within a Publication that Validate accepts lies     *)
(* within that Publication alone.                                          *)
(***************************************************************************)
EXTENDS Declaration, SequenceTheorems, TLAPS

Paths == Seq(Segments)

LEMMA WithinTransitive ==
    ASSUME NEW a \in Paths, NEW b \in Paths, NEW c \in Paths, Within(c, b), Within(b, a)
    PROVE  Within(c, a)
<1>1. CASE c = b \/ b = a  BY <1>1 DEF Within
<1>2. CASE Beneath(c, b) /\ Beneath(b, a)
  <2>1. Len(a) \in Nat /\ Len(b) \in Nat /\ Len(c) \in Nat  BY LenProperties DEF Paths
  <2>2. Len(c) > Len(a)  BY <1>2, <2>1 DEF Beneath
  <2>3. ASSUME NEW i \in 1..Len(a) PROVE c[i] = a[i]
        BY <1>2, <2>1 DEF Beneath
  <2> QED  BY <2>2, <2>3 DEF Within, Beneath
<1> QED  BY <1>1, <1>2 DEF Within

\* Two paths something lies within are nested one way or the other.
LEMMA WithinComparable ==
    ASSUME NEW a \in Paths, NEW b \in Paths, NEW c \in Paths, Within(c, a), Within(c, b)
    PROVE  Within(a, b) \/ Within(b, a)
<1>1. CASE c = a \/ c = b  BY <1>1 DEF Within
<1>2. CASE Beneath(c, a) /\ Beneath(c, b)
  <2>1. Len(a) \in Nat /\ Len(b) \in Nat /\ Len(c) \in Nat  BY LenProperties DEF Paths
  <2>2. CASE Len(a) > Len(b)
        BY <1>2, <2>1, <2>2 DEF Within, Beneath
  <2>3. CASE Len(b) > Len(a)
        BY <1>2, <2>1, <2>3 DEF Within, Beneath
  <2>4. CASE Len(a) = Len(b)
    <3>1. \A i \in 1..Len(a) : a[i] = b[i]  BY <1>2, <2>4 DEF Beneath
    <3>2. a = b  BY <2>4, <3>1, SeqEqual DEF Paths
    <3> QED  BY <3>2 DEF Within
  <2> QED  BY <2>1, <2>2, <2>3, <2>4
<1> QED  BY <1>1, <1>2 DEF Within

\* What a Publication that is valid by itself consists of lies within its path,
\* and its path within its project.
LEMMA PublicationIsTree ==
    ASSUME NEW p \in PublicationDeclarations, ValidPublication(p)
    PROVE  /\ p.path \in Paths /\ Within(p.path, p.prefix)
           /\ p.prefix \in Paths /\ Len(p.prefix) = 1
           /\ \A k \in ObjectsOf(p) : k \in Paths /\ Within(k, p.path)
           /\ CanonicalPath(p) \in Paths /\ Within(CanonicalPath(p), p.path)
<1>1. /\ p.path \in Paths /\ p.prefix \in Paths /\ p.entry \in Paths
      /\ p.objects \in Seq(Paths)
      BY DEF PublicationDeclarations, Paths
<1>2. Len(p.prefix) = 1  BY DEF ValidPublication, ValidPrefix
<1>3. Within(p.path, p.prefix)  BY DEF ValidPublication, ValidPath, Within
<1>4. \A k \in ObjectsOf(p) : k \in Paths /\ Within(k, p.path)
  <2>1. SUFFICES ASSUME NEW i \in DOMAIN p.objects
                 PROVE  p.objects[i] \in Paths /\ Within(p.objects[i], p.path)
        BY DEF ObjectsOf
  <2>2. p.objects[i] \in Paths  BY <1>1
  <2>3. ValidObjectKey(p.path, p.objects[i])  BY DEF ValidPublication
  <2> QED  BY <2>2, <2>3 DEF ValidObjectKey, Within
<1>5. p.entry \in ObjectsOf(p)  BY DEF ValidPublication, ObjectsOf
<1>6. CanonicalPath(p) \in Paths /\ Within(CanonicalPath(p), p.path)
      BY <1>1, <1>4, <1>5 DEF CanonicalPath, Within
<1> QED  BY <1>1, <1>2, <1>3, <1>4, <1>6

\* validatePrefix and validatePath: Publications of different projects are apart,
\* also when they were never compared (declaration.go:215-245).
THEOREM ProjectsAreApart ==
    ASSUME NEW p \in PublicationDeclarations, NEW q \in PublicationDeclarations,
           ValidPublication(p), ValidPublication(q), p.prefix # q.prefix,
           NEW url \in Paths
    PROVE  ~(Within(url, p.path) /\ Within(url, q.path))
<1>1. SUFFICES ASSUME Within(url, p.path), Within(url, q.path) PROVE FALSE
      OBVIOUS
<1>2. /\ p.path \in Paths /\ p.prefix \in Paths /\ Within(p.path, p.prefix)
      /\ q.path \in Paths /\ q.prefix \in Paths /\ Within(q.path, q.prefix)
      /\ Len(p.prefix) = 1 /\ Len(q.prefix) = 1
      BY PublicationIsTree
<1>3. Within(url, p.prefix) /\ Within(url, q.prefix)
      BY <1>1, <1>2, WithinTransitive
<1>4. Within(p.prefix, q.prefix) \/ Within(q.prefix, p.prefix)
      BY <1>2, <1>3, WithinComparable
<1>5. p.prefix = q.prefix  BY <1>2, <1>4 DEF Within, Beneath
<1> QED  BY <1>5

\* Declaration.Validate: no two Publications of an accepted declaration have a
\* path, an object or a route in common, nested paths included
\* (declaration.go:96-99).
THEOREM PublicationsAreApart ==
    ASSUME NEW d \in DeclarationFiles, Valid(d),
           NEW i \in DOMAIN d.publications, NEW j \in DOMAIN d.publications, i # j,
           NEW url \in Paths
    PROVE  ~(Within(url, d.publications[i].path) /\ Within(url, d.publications[j].path))
<1> DEFINE p == d.publications[i]
           q == d.publications[j]
<1>1. SUFFICES ASSUME Within(url, p.path), Within(url, q.path) PROVE FALSE
      OBVIOUS
<1>2. d.publications \in Seq(PublicationDeclarations)  BY DEF DeclarationFiles
<1>3. p \in PublicationDeclarations /\ q \in PublicationDeclarations  BY <1>2
<1>4. p.path \in Paths /\ q.path \in Paths  BY <1>3 DEF PublicationDeclarations, Paths
<1>5. Within(p.path, q.path) \/ Within(q.path, p.path)
      BY <1>1, <1>4, WithinComparable
<1>6. i \in Nat /\ j \in Nat  BY <1>2, LenProperties
<1>7. /\ p.path # q.path /\ ~Beneath(p.path, q.path) /\ ~Beneath(q.path, p.path)
  <2>1. CheckBoundaries(d.publications)  BY DEF Valid
  <2>2. i < j \/ j < i  BY <1>6
  <2> QED  BY <2>1, <2>2 DEF CheckBoundaries
<1> QED  BY <1>5, <1>7 DEF Within

=============================================================================
