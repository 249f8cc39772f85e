------------------------ MODULE MCDeclaration_proofs ------------------------
(***************************************************************************)
(* Proofs about what an accepted declaration leads to, and about whom a    *)
(* manager answers, for any segments, any decoding of them, and candidate  *)
(* paths of any depth.                                                     *)
(***************************************************************************)
EXTENDS MCDeclaration, Declaration_proofs, FiniteSetTheorems, WellFoundedInduction

-----------------------------------------------------------------------------
(* What becomes of a path when its escapes are decoded.                    *)

\* Numbers that are not none have a least.
LEMMA LeastOf ==
    ASSUME NEW S \in SUBSET Nat, S # {}
    PROVE  \E m \in S : \A k \in S : m <= k
<1>1. PICK n \in S : TRUE
      OBVIOUS
<1> DEFINE below == {k \in S : k <= n}
           T == {1..k : k \in below}
<1>2. IsFiniteSet(1..n)  BY <1>1, FS_Interval
<1>3. T \in SUBSET FiniteSubsetsOf(1..n) /\ T # {}
  <2>1. \A k \in below : 1..k \in SUBSET (1..n)  BY <1>1
  <2>2. T \in SUBSET SUBSET (1..n)  BY <2>1
  <2>3. n \in below  BY <1>1
  <2> HIDE DEF below
  <2>4. T # {}  BY <2>3
  <2> HIDE DEF T
  <2> QED  BY <1>2, <2>2, <2>4, FS_FiniteSubsetsOfFinite
<1>4. PICK t \in T : \A u \in T : <<u, t>> \notin StrictSubsetOrdering(1..n)
  <2>1. IsWellFoundedOn(StrictSubsetOrdering(1..n), FiniteSubsetsOf(1..n))
        BY FS_StrictSubsetOrderingWellFounded
  <2> HIDE DEF T
  <2> QED  BY <1>3, <2>1, WFMin
<1>5. PICK m \in below : t = 1..m
      OBVIOUS
<1>6. ASSUME NEW k \in S, k < m PROVE FALSE
  <2>1. k \in below /\ m \in S /\ m <= n  BY <1>1, <1>5, <1>6
  <2>2. 1..k \in T  BY <2>1
  <2>3. m \in 1..m /\ m \notin 1..k /\ 1..k \subseteq 1..m  BY <1>6, <2>1
  <2>4. 1..k \subseteq 1..n /\ 1..m \subseteq 1..n  BY <1>1, <1>6, <2>1
  <2> HIDE DEF T, below
  <2> QED  BY <1>4, <1>5, <2>2, <2>3, <2>4 DEF StrictSubsetOrdering
<1>7. m \in S /\ \A k \in S : m <= k  BY <1>5, <1>6
<1> QED  BY <1>7

\* f[n] is the first n of the sequences ss, one after the other.
Flattens(f, n, ss) ==
    f = [i \in 1..n |-> IF i = 1 THEN ss[1] ELSE f[i - 1] \o ss[i]]

LEMMA SomethingFlattens ==
    ASSUME NEW ss, NEW n \in Nat
    PROVE  \E f : Flattens(f, n, ss)
<1> DEFINE bad == {m \in Nat : ~\E f : Flattens(f, m, ss)}
<1>1. SUFFICES ASSUME bad # {} PROVE FALSE
      OBVIOUS
<1>2. PICK m \in bad : \A k \in bad : m <= k
  <2>1. bad \in SUBSET Nat  OBVIOUS
  <2> HIDE DEF bad
  <2> QED  BY <1>1, <2>1, LeastOf
<1>3. m # 0
  <2>1. Flattens([i \in 1..0 |-> ss], 0, ss)  BY DEF Flattens
  <2> QED  BY <2>1
<1>4. PICK f : Flattens(f, m - 1, ss)
      BY <1>2, <1>3
<1> DEFINE g == [i \in 1..m |-> IF i = 1 THEN ss[1] ELSE f[i - 1] \o ss[i]]
<1>5. \A i \in 1..(m - 1) : g[i] = f[i]
  <2> SUFFICES ASSUME NEW i \in 1..(m - 1) PROVE g[i] = f[i]
      OBVIOUS
  <2>1. i \in 1..m  BY <1>2
  <2> QED  BY <1>4, <2>1 DEF Flattens
<1>6. ASSUME NEW i \in 1..m, i # 1 PROVE f[i - 1] = g[i - 1]
  <2>1. i - 1 \in 1..(m - 1)  BY <1>2, <1>6
  <2> QED  BY <1>5, <2>1
<1>7. Flattens(g, m, ss)
  <2> HIDE DEF bad
  <2> DEFINE h == [i \in 1..m |-> IF i = 1 THEN ss[1] ELSE g[i - 1] \o ss[i]]
  <2>1. \A i \in 1..m : g[i] = h[i]  BY <1>6
  <2>2. g = h  BY <2>1
  <2> QED  BY <2>2 DEF Flattens
<1> QED  BY <1>7

\* Sequences that are not empty make one that is no shorter, and begins as the
\* first of them does; a single one is what it was.
LEMMA Flattened ==
    ASSUME NEW T, NEW ss \in Seq(Seq(T) \ {<<>>}), ss # <<>>
    PROVE  /\ FlattenSeq(ss) \in Seq(T) /\ Len(FlattenSeq(ss)) >= Len(ss)
           /\ FlattenSeq(ss)[1] = ss[1][1]
           /\ Len(ss) = 1 => FlattenSeq(ss) = ss[1]
<1> DEFINE n == Len(ss)
           Good(f, i) == f[i] \in Seq(T) /\ Len(f[i]) >= i /\ f[i][1] = ss[1][1]
<1>1. n \in Nat /\ n >= 1 /\ n # 0  OBVIOUS
<1>2. \A i \in 1..n : ss[i] \in Seq(T) /\ Len(ss[i]) >= 1  OBVIOUS
<1>3. PICK f : Flattens(f, n, ss) /\ FlattenSeq(ss) = f[n]
  <2>1. \E f : Flattens(f, n, ss)  BY <1>1, SomethingFlattens
  <2> DEFINE F == CHOOSE f : f = [i \in 1..Len(ss) |-> IF i = 1 THEN ss[i] ELSE f[i - 1] \o ss[i]]
  <2>2. F = [i \in 1..Len(ss) |-> IF i = 1 THEN ss[i] ELSE F[i - 1] \o ss[i]]
    <3>1. \E f : f = [i \in 1..Len(ss) |-> IF i = 1 THEN ss[i] ELSE f[i - 1] \o ss[i]]
      <4>1. PICK f : Flattens(f, n, ss)  BY <2>1
      <4>2. f = [i \in 1..Len(ss) |-> IF i = 1 THEN ss[i] ELSE f[i - 1] \o ss[i]]
            BY <4>1 DEF Flattens
      <4> QED  BY <4>2
    <3> QED  BY <3>1, Zenon
  <2>3. FlattenSeq(ss) = F[n]  BY <1>1, Zenon DEF FlattenSeq
  <2>4. Flattens(F, n, ss)
    <3> HIDE DEF F
    <3> QED  BY <2>2 DEF Flattens
  <2> HIDE DEF F
  <2> QED  BY <2>3, <2>4
<1>4. f[1] = ss[1] /\ \A i \in 2..n : f[i] = f[i - 1] \o ss[i]
  <2> HIDE DEF n
  <2>1. \A i \in 1..n : f[i] = IF i = 1 THEN ss[1] ELSE f[i - 1] \o ss[i]
    <3> DEFINE h == [i \in 1..n |-> IF i = 1 THEN ss[1] ELSE f[i - 1] \o ss[i]]
    <3>1. f = h  BY <1>3 DEF Flattens
    <3>2. \A i \in 1..n : h[i] = IF i = 1 THEN ss[1] ELSE f[i - 1] \o ss[i]
          OBVIOUS
    <3> HIDE DEF h
    <3> QED  BY <3>1, <3>2
  <2>2. 1 \in 1..n /\ \A i \in 2..n : i \in 1..n /\ i # 1  BY <1>1
  <2> QED  BY <2>1, <2>2
<1>5. \A i \in 1..n : Good(f, i)
  <2> DEFINE bad == {i \in 1..n : ~Good(f, i)}
  <2>1. SUFFICES ASSUME bad # {} PROVE FALSE
        OBVIOUS
  <2>2. PICK m \in bad : \A k \in bad : m <= k
    <3>1. bad \in SUBSET Nat  BY <1>1
    <3> HIDE DEF bad
    <3> QED  BY <2>1, <3>1, LeastOf
  <2>3. CASE m = 1
        BY <1>1, <1>2, <1>4, <2>2, <2>3
  <2>4. CASE m # 1
    <3>1. m - 1 \in 1..n /\ m \in 2..n /\ m - 1 \notin bad  BY <1>1, <2>2, <2>4
    <3>2. f[m - 1] \in Seq(T) /\ Len(f[m - 1]) >= m - 1 /\ f[m - 1][1] = ss[1][1]
          BY <3>1
    <3>3. f[m] = f[m - 1] \o ss[m] /\ ss[m] \in Seq(T) /\ Len(ss[m]) >= 1
          BY <1>2, <1>4, <3>1
    <3>4. /\ f[m] \in Seq(T) /\ Len(f[m]) = Len(f[m - 1]) + Len(ss[m])
          /\ \A j \in 1..Len(f[m - 1]) : f[m][j] = f[m - 1][j]
      <4>1. \A a, b \in Seq(T) : /\ a \o b \in Seq(T) /\ Len(a \o b) = Len(a) + Len(b)
                                /\ \A j \in 1..Len(a) : (a \o b)[j] = a[j]
            OBVIOUS
      <4> DEFINE a == f[m - 1]
                 b == ss[m]
      <4>2. a \in Seq(T) /\ b \in Seq(T) /\ f[m] = a \o b  BY <3>2, <3>3
      <4> HIDE DEF a, b, bad
      <4>3. /\ f[m] \in Seq(T) /\ Len(f[m]) = Len(a) + Len(b)
            /\ \A j \in 1..Len(a) : f[m][j] = a[j]
            BY <4>1, <4>2
      <4> QED  BY <4>3 DEF a, b
    <3>5. 1 \in 1..Len(f[m - 1])  BY <3>1, <3>2
    <3>6. f[m][1] = ss[1][1]  BY <3>2, <3>4, <3>5
    <3>7. Len(f[m]) >= m
      <4> DEFINE k == Len(f[m - 1])
                 l == Len(ss[m])
      <4>1. k \in Nat /\ l \in Nat /\ m \in Nat  BY <2>2, <3>2, <3>3
      <4>2. Len(f[m]) = k + l /\ k >= m - 1 /\ l >= 1  BY <3>2, <3>3, <3>4
      <4> HIDE DEF k, l, bad
      <4> QED  BY <4>1, <4>2
    <3> QED  BY <2>2, <3>4, <3>6, <3>7
  <2> QED  BY <2>3, <2>4
<1>6. Good(f, n)  BY <1>1, <1>5
<1>7. n = 1 => FlattenSeq(ss) = ss[1]  BY <1>3, <1>4
<1> QED  BY <1>3, <1>6, <1>7

\* Decoded, a path is still a path, begins as its first segment is decoded, and
\* is "/" only if it was.
LEMMA Requested ==
    ASSUME NEW url \in Paths, url # <<>>
    PROVE  /\ AsRequested(url)[1] = Decoded[url[1]][1]
           /\ AsRequested(url) = <<EmptySegment>> => url[1] = EmptySegment
<1> DEFINE ss == [i \in DOMAIN url |-> Decoded[url[i]]]
<1>1. DOMAIN url = 1..Len(url) /\ Len(url) \in Nat /\ Len(url) >= 1
      BY DEF Paths
<1>2. \A i \in 1..Len(url) : url[i] \in Segments  BY DEF Paths
<1>3. ss \in Seq(Seq(Segments) \ {<<>>}) /\ Len(ss) = Len(url)
  <2>1. ss \in [1..Len(url) -> Seq(Segments) \ {<<>>}]
        BY <1>1, <1>2, BoundaryAssumption
  <2> HIDE DEF ss
  <2> QED  BY <1>1, <2>1, IsASeq
<1>4. ss[1] = Decoded[url[1]] /\ url[1] \in Segments
      BY <1>1, <1>2
<1> HIDE DEF ss
<1>5. /\ FlattenSeq(ss) \in Seq(Segments) /\ Len(FlattenSeq(ss)) >= Len(ss)
      /\ FlattenSeq(ss)[1] = ss[1][1]
      /\ Len(ss) = 1 => FlattenSeq(ss) = ss[1]
  <2>1. ss # <<>>  BY <1>1, <1>3
  <2> QED  BY <1>3, <2>1, Flattened
<1>6. AsRequested(url) = FlattenSeq(ss)  BY DEF AsRequested, ss
<1>7. ASSUME AsRequested(url) = <<EmptySegment>> PROVE url[1] = EmptySegment
  <2>1. Len(FlattenSeq(ss)) = 1  BY <1>6, <1>7
  <2>2. Len(ss) = 1  BY <1>1, <1>3, <1>5, <2>1
  <2>3. Decoded[url[1]] = <<EmptySegment>>  BY <1>4, <1>5, <1>6, <1>7, <2>2
  <2> QED  BY <1>4, <2>3, BoundaryAssumption
<1> QED  BY <1>4, <1>5, <1>6, <1>7

-----------------------------------------------------------------------------
(* The inductive invariant.                                                *)

DeclarationJudged ==
    /\ decl \in Seq(Candidates)
    /\ verdict = "valid" => Valid(Asked)

SettingsJudged ==
    /\ config \in Settings \cup {Unconfigured}
    /\ verdict = "serving" => config \in Settings /\ ValidSettings(config)

\* An answer is the one a manager gives under settings it can serve with.
AnswerGiven ==
    \/ exchange = NoExchange
    \/ /\ verdict = "serving"
       /\ \E r \in Requests : exchange = [request |-> r, answer |-> Answer(config, r)]

IInv == DeclarationJudged /\ SettingsJudged /\ AnswerGiven

LEMMA CandidatesArePaths == CandidatePaths \subseteq Paths
<1>1. SUFFICES ASSUME NEW q \in BoundedSeq(PathSegments, MaxDepth) PROVE q \in Seq(Segments)
      BY DEF CandidatePaths, Paths
<1>2. PICK m \in 0..MaxDepth : q \in [1..m -> PathSegments]  BY DEF BoundedSeq, SeqOf
<1>3. m \in Nat  BY MCDeclarationAssumption
<1>4. q \in [1..m -> Segments]  BY <1>2, MCDeclarationAssumption
<1> QED  BY <1>3, <1>4, IsASeq

LEMMA RecordIsDeclaration ==
    ASSUME NEW A, NEW B, NEW C, NEW T, NEW x \in A, NEW p \in A, NEW k \in A,
           NEW n \in T, NEW m \in T, NEW objects \in B, NEW probes \in C
    PROVE  [prefix |-> x, name |-> n, path |-> p, mode |-> m, objects |-> objects,
            entry |-> k, probes |-> probes]
           \in [prefix : A, name : T, path : A, mode : T, objects : B, entry : A, probes : C]
OBVIOUS

LEMMA CandidatesAreDeclarations == Candidates \subseteq PublicationDeclarations
<1>1. EmptySegment \in Segments  BY SegmentAssumption
<1>2. Probe \in [path : Seq(Segments), status : Int]  BY <1>1 DEF Probe
<1> HIDE DEF Probe
<1>3. SUFFICES ASSUME NEW c \in Candidates PROVE c \in PublicationDeclarations
      OBVIOUS
<1>4. PICK x \in CandidatePaths, p \in CandidatePaths, k \in CandidatePaths,
           m \in {"exact_file", "fallback"} :
        c = [prefix |-> x, name |-> "n", path |-> p, mode |-> m, objects |-> <<k>>,
             entry |-> k, probes |-> <<Probe>>]
  <2> DEFINE made(x, p, k, m) ==
          [prefix |-> x, name |-> "n", path |-> p, mode |-> m, objects |-> <<k>>,
           entry |-> k, probes |-> <<Probe>>]
  <2>1. c \in {made(x, p, k, m) :
                  x \in {q \in CandidatePaths : Len(q) = 1 \/ q = <<q[1], q[1]>>},
                  p \in CandidatePaths, k \in CandidatePaths, m \in {"exact_file", "fallback"}}
        BY DEF Candidates
  <2> HIDE DEF made
  <2>2. \E x \in CandidatePaths, p \in CandidatePaths, k \in CandidatePaths,
           m \in {"exact_file", "fallback"} : c = made(x, p, k, m)
        BY <2>1
  <2> QED  BY <2>2 DEF made
<1>5. x \in Seq(Segments) /\ p \in Seq(Segments) /\ k \in Seq(Segments)
      BY CandidatesArePaths DEF Paths
<1>6. "n" \in STRING /\ m \in STRING  BY MCDeclarationAssumption, Zenon
<1>7. <<k>> \in Seq(Seq(Segments))  BY <1>5
<1>8. <<Probe>> \in Seq([path : Seq(Segments), status : Int])  BY <1>2
<1> QED  BY <1>4, <1>5, <1>6, <1>7, <1>8, RecordIsDeclaration, Zenon DEF PublicationDeclarations

LEMMA AskedIsDeclaration ==
    ASSUME decl \in Seq(Candidates)
    PROVE  Asked \in DeclarationFiles
<1>1. decl \in Seq(PublicationDeclarations)  BY CandidatesAreDeclarations
<1> QED  BY <1>1 DEF Asked, DeclarationFiles

LEMMA IInvHolds == Spec => []IInv
<1>1. Init => IInv
  <2>1. ASSUME NEW p \in Candidates PROVE <<p>> \in Seq(Candidates)  OBVIOUS
  <2>2. <<>> \in Seq(Candidates)  OBVIOUS
  <2> QED  BY <2>1, <2>2 DEF Init, IInv, DeclarationJudged, SettingsJudged, AnswerGiven
<1>2. IInv /\ [Next]_vars => IInv'
  <2> SUFFICES ASSUME IInv, [Next]_vars PROVE IInv'  OBVIOUS
  <2> USE DEF IInv
  <2>1. CASE Validate
        BY <2>1 DEF Validate, DeclarationJudged, SettingsJudged, AnswerGiven, Asked
  <2>2. CASE Extend
    <3>1. PICK p \in Candidates : decl' = Append(decl, p)  BY <2>2 DEF Extend
    <3>2. decl' \in Seq(Candidates)  BY <3>1 DEF DeclarationJudged
    <3> QED  BY <2>2, <3>2 DEF Extend, DeclarationJudged, SettingsJudged, AnswerGiven
  <2>3. CASE Configure
        BY <2>3 DEF Configure, DeclarationJudged, SettingsJudged, AnswerGiven, Asked
  <2>4. CASE Serve
        BY <2>4 DEF Serve, DeclarationJudged, SettingsJudged, AnswerGiven, Asked
  <2>5. CASE UNCHANGED vars
        BY <2>5 DEF vars, DeclarationJudged, SettingsJudged, AnswerGiven, Asked
  <2> QED  BY <2>1, <2>2, <2>3, <2>4, <2>5 DEF Next
<1> QED  BY <1>1, <1>2, PTL DEF Spec

-----------------------------------------------------------------------------
(* What an accepted declaration serves.                                    *)

\* What is known of a Publication once its declaration was accepted.
LEMMA AcceptedPublication ==
    ASSUME DeclarationJudged, verdict = "valid", NEW i \in DOMAIN decl
    PROVE  decl[i] \in PublicationDeclarations /\ ValidPublication(decl[i])
<1>1. decl[i] \in Candidates  BY DEF DeclarationJudged
<1>2. Valid(Asked)  BY DEF DeclarationJudged
<1> QED  BY <1>1, <1>2, CandidatesAreDeclarations DEF Valid, Asked

\* What a Publication serves lies within its path, and within its prefix.
LEMMA ServedWithin ==
    ASSUME NEW p \in PublicationDeclarations, ValidPublication(p),
           NEW url \in Paths, Serves(p, url)
    PROVE  Within(url, p.path) /\ Within(url, p.prefix)
<1>1. Within(url, p.path)
      BY PublicationIsTree, WithinTransitive DEF Serves
<1>2. Within(url, p.prefix)
      BY <1>1, PublicationIsTree, WithinTransitive
<1> QED  BY <1>1, <1>2

\* No two Publications of an accepted declaration serve one URL.
LEMMA ServedByOne ==
    ASSUME DeclarationJudged, verdict = "valid", NEW i \in DOMAIN decl, NEW j \in DOMAIN decl,
           NEW url \in Paths, Within(url, decl[i].path), Within(url, decl[j].path)
    PROVE  i = j
<1>1. Asked \in DeclarationFiles /\ Valid(Asked)
      BY AskedIsDeclaration DEF DeclarationJudged
<1>2. Asked.publications = decl  BY DEF Asked
<1> QED  BY <1>1, <1>2, PublicationsAreApart

\* What a Publication serves lies beneath a prefix that is not reserved, and
\* comes to the manager only by what is escaped in it.
LEMMA ServedOutside ==
    ASSUME NEW p \in PublicationDeclarations, ValidPublication(p),
           NEW url \in Paths, Within(url, p.prefix)
    PROVE  /\ <<url[1]>> = p.prefix /\ url[1] \notin Reserved
           /\ Handler(AsRequested(url)) # "public" =>
                 Decoded[url[1]] # <<url[1]>> /\ Decoded[url[1]][1] = ManagerRoot
<1>1. p.prefix \in Paths /\ Len(p.prefix) = 1  BY PublicationIsTree
<1>2. p.prefix = <<p.prefix[1]>> /\ p.prefix[1] \in Segments  BY <1>1 DEF Paths
<1>3. Len(url) \in Nat /\ Len(url) >= 1 /\ url[1] = p.prefix[1]
      BY <1>1 DEF Within, Beneath, Paths
<1>4. p.prefix[1] \notin Reserved /\ p.prefix[1] # EmptySegment
      BY <1>1, SegmentAssumption DEF ValidPublication, ValidPrefix, CleanCharacters
<1>5. ASSUME Handler(AsRequested(url)) # "public"
      PROVE  Decoded[url[1]] # <<url[1]>> /\ Decoded[url[1]][1] = ManagerRoot
  <2>1. IsReservedPath(AsRequested(url))
    <3> DEFINE asked == AsRequested(url)
    <3> SUFFICES ASSUME ~IsReservedPath(asked) PROVE FALSE
        OBVIOUS
    <3> HIDE DEF asked
    <3>1. asked # <<EmptySegment>> /\ asked[1] # ManagerRoot  BY DEF IsReservedPath
    <3>2. ~Beneath(asked, <<ManagerRoot, "assets">>) /\ ~Beneath(asked, <<ManagerRoot, "preview">>)
          BY <3>1 DEF Beneath
    <3>3. ~\E a \in DOMAIN Apis : asked = Apis[a]
      <4>1. \A a \in DOMAIN Apis : Apis[a][1] = ManagerRoot  BY DEF Apis
      <4> QED  BY <3>1, <4>1
    <3>4. asked # <<ManagerRoot>>  BY <3>1
    <3>5. Handler(asked) = "public"  BY <3>1, <3>2, <3>3, <3>4 DEF Handler
    <3> QED  BY <1>5, <3>5 DEF asked
  <2>2. url # <<>>  BY <1>3
  <2>3. Decoded[url[1]][1] = ManagerRoot
        BY <1>3, <1>4, <2>1, <2>2, Requested DEF IsReservedPath
  <2>4. <<url[1]>>[1] # ManagerRoot  BY <1>3, <1>4, BoundaryAssumption
  <2> QED  BY <2>3, <2>4
<1> QED  BY <1>2, <1>3, <1>4, <1>5

\* Where no two paths come to one request, two accepted Publications never serve
\* URLs that do (declaration.go:96-99, 273-274).  Validate asks nothing of the
\* escapes in a path, so it is the paths that have to be spelled apart.
THEOREM RoutesAreOwnedOnce ==
    ASSUME \A u, v \in CandidatePaths : AsRequested(u) = AsRequested(v) => u = v
    PROVE  Spec => []RoutesOwnedOnce
<1>1. IInv => RoutesOwnedOnce
  <2>1. SUFFICES ASSUME DeclarationJudged, verdict = "valid",
                        NEW i \in DOMAIN decl, NEW j \in DOMAIN decl, i # j,
                        NEW u \in CandidatePaths, Serves(decl[i], u),
                        NEW v \in CandidatePaths, Serves(decl[j], v),
                        AsRequested(u) = AsRequested(v)
                 PROVE  FALSE
        BY DEF IInv, RoutesOwnedOnce
  <2>2. u \in Paths /\ v \in Paths  BY CandidatesArePaths
  <2>3. u = v  BY <2>1
  <2>4. Within(u, decl[i].path) /\ Within(u, decl[j].path)
        BY <2>1, <2>2, <2>3, AcceptedPublication, ServedWithin
  <2> QED  BY <2>1, <2>2, <2>4, ServedByOne
<1> QED  BY <1>1, IInvHolds, PTL

\* Whatever escapes a declaration holds, everything an accepted Publication
\* serves lies beneath a prefix that is not the manager's name, and the manager
\* answers for it only where that prefix is decoded to its name
\* (declaration.go:215-229, server.go:216-218).
THEOREM ManagerIsNotServed == Spec => []OutsideManager
<1>1. IInv => OutsideManager
  <2>1. SUFFICES ASSUME DeclarationJudged, verdict = "valid", NEW i \in DOMAIN decl,
                        NEW url \in CandidatePaths, Serves(decl[i], url)
                 PROVE  /\ <<url[1]>> = decl[i].prefix /\ url[1] \notin Reserved
                        /\ Handler(AsRequested(url)) # "public" =>
                              /\ Decoded[url[1]] # <<url[1]>>
                              /\ Decoded[url[1]][1] = ManagerRoot
        BY DEF IInv, OutsideManager
  <2>2. url \in Paths  BY CandidatesArePaths
  <2>3. decl[i] \in PublicationDeclarations /\ ValidPublication(decl[i])
        BY <2>1, AcceptedPublication
  <2>4. Within(url, decl[i].prefix)  BY <2>1, <2>2, <2>3, ServedWithin
  <2> QED  BY <2>2, <2>3, <2>4, ServedOutside
<1> QED  BY <1>1, IInvHolds, PTL

\* The preview of a declared path leads to the canonical URL of that Publication,
\* served by it alone, exactly when it is in sync (preview.go:27-80).
THEOREM PreviewIsItsOwn == Spec => []PreviewsItsOwn
<1>1. ASSUME DeclarationJudged, verdict = "valid", NEW i \in DOMAIN decl, NEW readable \in BOOLEAN,
             NEW state \in [DOMAIN decl -> {"in_sync", "drifted", "unobserved"}]
      PROVE  LET preview == Preview(readable, decl, state, decl[i].path)
             IN  IF readable /\ state[i] = "in_sync"
                 THEN /\ preview = [status |-> 302, to |-> CanonicalPath(decl[i])]
                      /\ \A j \in DOMAIN decl : Serves(decl[j], preview.to) => i = j
                 ELSE preview.status = IF readable THEN 409 ELSE 503
  <2> DEFINE path == decl[i].path
             to == CanonicalPath(decl[i])
  <2>1. decl[i] \in PublicationDeclarations /\ ValidPublication(decl[i])
        BY <1>1, AcceptedPublication
  <2>2. /\ path \in Paths /\ Within(path, decl[i].prefix)
        /\ to \in Paths /\ Within(to, path)
        /\ decl[i].prefix \in Paths /\ Len(decl[i].prefix) = 1
        BY <2>1, PublicationIsTree
  <2>3. ValidPublicationPath(path)
    <3>1. CleanSegments(path)
      <4>1. CASE path = decl[i].prefix
        <5>1. path[1] # EmptySegment /\ path[1] \notin DotSegments /\ Len(path) = 1
              BY <2>1, <2>2, <4>1, SegmentAssumption
              DEF ValidPublication, ValidPrefix, CleanCharacters
        <5> QED  BY <5>1 DEF CleanSegments
      <4>2. CASE path # decl[i].prefix
            BY <2>1, <4>2 DEF ValidPublication, ValidPath
      <4> QED  BY <4>1, <4>2
    <3>2. path # <<EmptySegment>>
      <4>1. Len(<<EmptySegment>>) = 1 /\ <<EmptySegment>>[1] = EmptySegment  OBVIOUS
      <4>2. ~CleanSegments(<<EmptySegment>>)  BY <4>1 DEF CleanSegments
      <4> HIDE DEF path
      <4> QED  BY <3>1, <4>2
    <3> QED  BY <3>1, <3>2 DEF ValidPublicationPath
  <2>4. {j \in DOMAIN decl : decl[j].path = path} = {i}
    <3>1. Within(path, path)  BY DEF Within
    <3>2. ASSUME NEW j \in DOMAIN decl, decl[j].path = path PROVE j = i
          BY <1>1, <2>2, <3>1, <3>2, ServedByOne
    <3> QED  BY <3>2
  <2>5. Preview(readable, decl, state, path) =
            IF ~readable THEN Warning(503)
            ELSE IF state[i] # "in_sync" THEN Warning(409)
            ELSE [status |-> 302, to |-> CanonicalPath(decl[i])]
    <3>1. (CHOOSE j \in {i} : TRUE) = i  OBVIOUS
    <3>2. decl[i] = decl[i]  OBVIOUS
    <3> HIDE DEF path, to
    <3> QED  BY <2>3, <2>4, <3>1 DEF Preview
  <2>6. ASSUME NEW j \in DOMAIN decl, Serves(decl[j], to) PROVE i = j
    <3>1. Within(to, decl[j].path)
          BY <1>1, <2>2, <2>6, AcceptedPublication, ServedWithin
    <3> QED  BY <1>1, <2>2, <3>1, ServedByOne
  <2> QED  BY <2>5, <2>6 DEF Warning
<1>2. IInv => PreviewsItsOwn
      BY <1>1, Zenon DEF IInv, PreviewsItsOwn
<1> QED  BY <1>2, IInvHolds, PTL

-----------------------------------------------------------------------------
(* Whom a manager answers.                                                 *)

\* Whoever is answered by a handler of the manager is authorized.
LEMMA AnsweredAreAuthorized ==
    ASSUME NEW c, NEW r, Answer(c, r).by \in Handlers \ {"public"}
    PROVE  Authorized(c, r)
<1>1. \A h \in {"login", "unauthorized"} : h \notin Handlers
      BY DEF Handlers, Apis
<1> HIDE DEF Handlers
<1> QED  BY <1>1 DEF Answer

LEMMA PublicIsToldNothing ==
    ASSUME NEW c, NEW r, Answer(c, r).by = "public"
    PROVE  Answer(c, r).told = <<>>
BY DEF Answer

\* With any settings Validate accepts, the manager's handlers answer nobody but
\* the operator, and the public reader is told no assertion (config.go:135-158,
\* server.go:189-232).
THEOREM OnlyTheOperatorIsAnswered == Spec => []AnswersOnlyTheOperator
<1>1. ASSUME SettingsJudged, verdict = "serving", NEW r \in Requests, Authorized(config, r)
      PROVE  \/ config.bypass /\ config.listen # "any host"
             \/ r.assertion = <<config.value>> /\ config.value # ""
  <2>1. config \in Settings /\ ValidSettings(config)  BY <1>1 DEF SettingsJudged
  <2>2. CASE config.bypass
        BY <2>1, <2>2 DEF ValidSettings, IsLoopbackListener
  <2>3. CASE ~config.bypass
    <3>1. /\ Len(r.assertion) = 1 /\ r.assertion[1] # ""
          /\ r.assertion[1] = config.value
          BY <1>1, <2>3 DEF Authorized
    <3> DEFINE told == {"", "wrong", "right"}
    <3>2. r.assertion \in Seq(told)
      <4>1. /\ <<>> \in Seq(told) /\ <<"">> \in Seq(told)
            /\ <<"wrong">> \in Seq(told) /\ <<"right">> \in Seq(told)
            /\ <<"wrong", "right">> \in Seq(told) /\ <<"right", "right">> \in Seq(told)
            OBVIOUS
      <4>2. \/ r.assertion = <<>> \/ r.assertion = <<"">>
            \/ r.assertion = <<"wrong">> \/ r.assertion = <<"right">>
            \/ r.assertion = <<"wrong", "right">> \/ r.assertion = <<"right", "right">>
            BY Zenon DEF Requests
      <4> HIDE DEF told
      <4> QED  BY <4>1, <4>2, Zenon
    <3> HIDE DEF told
    <3>3. r.assertion = <<r.assertion[1]>>
      <4>1. \A a \in Seq(told) : Len(a) = 1 => a = <<a[1]>>  OBVIOUS
      <4> QED  BY <3>1, <3>2, <4>1, Zenon
    <3> QED  BY <3>1, <3>3
  <2> QED  BY <2>2, <2>3
<1>2. IInv => AnswersOnlyTheOperator
  <2>1. SUFFICES ASSUME IInv PROVE AnswersOnlyTheOperator  OBVIOUS
  <2>2. CASE exchange = NoExchange
    <3>1. "nobody" \notin Handlers  BY DEF Handlers, Apis
    <3>2. exchange.answer.by = "nobody"  BY <2>2 DEF NoExchange
    <3> QED  BY <3>1, <3>2 DEF AnswersOnlyTheOperator
  <2>3. CASE exchange # NoExchange
    <3>1. verdict = "serving"  BY <2>1, <2>3 DEF IInv, AnswerGiven
    <3>2. PICK r \in Requests : exchange = [request |-> r, answer |-> Answer(config, r)]
          BY <2>1, <2>3 DEF IInv, AnswerGiven
    <3>3. exchange.request = r /\ exchange.answer = Answer(config, r)  BY <3>2
    <3>4. ASSUME exchange.answer.by \in Handlers \ {"public"}
          PROVE  \/ config.bypass /\ config.listen # "any host"
                 \/ r.assertion = <<config.value>> /\ config.value # ""
          BY <1>1, <2>1, <3>1, <3>3, <3>4, AnsweredAreAuthorized DEF IInv
    <3>5. ASSUME exchange.answer.by = "public" PROVE exchange.answer.told = <<>>
          BY <3>3, <3>5, PublicIsToldNothing
    <3> QED  BY <3>3, <3>4, <3>5 DEF AnswersOnlyTheOperator
  <2> QED  BY <2>2, <2>3
<1> QED  BY <1>2, IInvHolds, PTL

=============================================================================
