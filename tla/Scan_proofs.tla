---------------------------- MODULE Scan_proofs ----------------------------
(***************************************************************************)
(* Proofs about module Scan: whatever the manifests, the versions an       *)
(* object may hold and the size of a page, and however storage moves       *)
(* between two requests, an observation is exact when nothing moved,       *)
(* claims nothing of a Publication that storage did not show, and leaves   *)
(* the lock off only over a bucket that is accounted for.                  *)
(***************************************************************************)
EXTENDS Scan, FiniteSetTheorems, TLAPS

(***************************************************************************)
(* Finite sets, and the sums over them                                     *)
(***************************************************************************)

\* A set of finite sets has one of which no other is a proper part.
LEMMA MinimalSet ==
    ASSUME NEW S, IsFiniteSet(S), NEW T \in SUBSET SUBSET S, T # {}
    PROVE  \E t \in T : \A u \in T : u \subseteq t => u = t
<1>1. IsWellFoundedOn(StrictSubsetOrdering(S), FiniteSubsetsOf(S))
  BY FS_StrictSubsetOrderingWellFounded
<1>2. T \subseteq FiniteSubsetsOf(S)
  BY FS_FiniteSubsetsOfFinite
<1>3. PICK t \in T : \A u \in T : <<u, t>> \notin StrictSubsetOrdering(S)
  BY <1>1, <1>2, WFMin
<1> QED  BY <1>3 DEF StrictSubsetOrdering

\* A strict order on a finite set has a minimal element.
LEMMA MinimalElement ==
    ASSUME NEW S, IsFiniteSet(S), S # {}, NEW R,
           \A x \in S : <<x, x>> \notin R,
           \A x, y, z \in S : <<x, y>> \in R /\ <<y, z>> \in R => <<x, z>> \in R
    PROVE  \E x \in S : \A y \in S : <<y, x>> \notin R
<1> DEFINE down(x) == {y \in S : <<y, x>> \in R}
           T == {down(x) : x \in S}
<1>1. T \in SUBSET SUBSET S /\ T # {}
  <2>1. \A x \in S : down(x) \subseteq S
    OBVIOUS
  <2> HIDE DEF down
  <2> QED  BY <2>1
<1>2. PICK t \in T : \A u \in T : u \subseteq t => u = t
  <2> HIDE DEF T
  <2> QED  BY <1>1, MinimalSet
<1>3. PICK x \in S : t = down(x)
  OBVIOUS
<1>4. ASSUME NEW y \in S, <<y, x>> \in R
      PROVE  FALSE
  <2>1. down(y) \subseteq down(x) /\ y \in down(x) /\ y \notin down(y)
    BY <1>4
  <2>2. down(y) \in T
    OBVIOUS
  <2> HIDE DEF down, T
  <2> QED  BY <2>1, <2>2, <1>2, <1>3
<1> QED  BY <1>4

\* Max finds the greatest of finitely many numbers.
LEMMA MaxIsGreatest ==
    ASSUME NEW S, IsFiniteSet(S), S # {}, S \subseteq Nat
    PROVE  Max(S) \in S /\ \A k \in S : k <= Max(S)
<1> DEFINE R == {e \in S \X S : e[2] < e[1]}
<1>1. /\ \A x \in S : <<x, x>> \notin R
      /\ \A x, y, z \in S : <<x, y>> \in R /\ <<y, z>> \in R => <<x, z>> \in R
  OBVIOUS
<1>2. \A x, y \in S : <<y, x>> \notin R => x >= y
  OBVIOUS
<1> HIDE DEF R
<1>3. \E x \in S : \A y \in S : x >= y
  BY <1>1, <1>2, MinimalElement
<1> QED  BY <1>3 DEF Max

\* g gives each part of D the sum of what f gives to its members.
Sums(g, f, D) ==
    /\ g \in [SUBSET D -> Nat] /\ g[{}] = 0
    /\ \A s \in SUBSET D : \A x \in s : g[s] = f[x] + g[s \ {x}]

\* There are such sums, in whatever order they are made.
LEMMA SumsExist ==
    ASSUME NEW D, IsFiniteSet(D), NEW f \in [D -> Nat]
    PROVE  \E g : Sums(g, f, D)
<1> DEFINE bad == {t \in SUBSET D : ~\E g : Sums(g, f, t)}
<1>1. SUFFICES ASSUME bad # {} PROVE FALSE
  OBVIOUS
<1>2. PICK t \in bad : \A u \in bad : u \subseteq t => u = t
  <2>1. bad \in SUBSET SUBSET D  OBVIOUS
  <2> HIDE DEF bad
  <2> QED  BY <1>1, <2>1, MinimalSet
<1>3. t # {}
  <2>1. Sums([s \in SUBSET {} |-> 0], f, {})
    BY DEF Sums
  <2> QED  BY <2>1
<1>4. PICK x \in t : TRUE
  BY <1>3
<1> DEFINE rest == t \ {x}
<1>5. PICK g : Sums(g, f, rest)
  <2>1. rest \in SUBSET D /\ rest \subseteq t /\ rest # t
    BY <1>4
  <2>2. rest \notin bad
    BY <1>2, <2>1
  <2> HIDE DEF rest
  <2> QED  BY <2>1, <2>2
<1> DEFINE h == [s \in SUBSET t |-> IF x \in s THEN f[x] + g[s \ {x}] ELSE g[s]]
<1>6. f[x] \in Nat /\ \A s \in SUBSET rest : g[s] \in Nat
  BY <1>4, <1>5 DEF Sums
<1>7. \A s \in SUBSET t : s \ {x} \in SUBSET rest /\ (x \notin s => s \in SUBSET rest)
  OBVIOUS
<1>8. h \in [SUBSET t -> Nat] /\ h[{}] = 0
  <2>1. ASSUME NEW s \in SUBSET t PROVE h[s] \in Nat
    BY <1>6, <1>7
  <2>2. h[{}] = 0
    BY <1>5 DEF Sums
  <2> QED  BY <2>1, <2>2
<1>9. ASSUME NEW s \in SUBSET t, NEW y \in s PROVE h[s] = f[y] + h[s \ {y}]
  <2>0. f[y] \in Nat  OBVIOUS
  <2>1. CASE y = x
    BY <2>1
  <2>2. CASE y # x /\ x \in s
    <3>1. (s \ {x}) \ {y} = (s \ {y}) \ {x}
      OBVIOUS
    <3>2. g[s \ {x}] = f[y] + g[(s \ {x}) \ {y}]
      <4>1. s \ {x} \in SUBSET rest /\ y \in s \ {x}
        BY <2>2
      <4> HIDE DEF rest
      <4> QED  BY <1>5, <4>1 DEF Sums
    <3>3. h[s] = f[x] + g[s \ {x}] /\ h[s \ {y}] = f[x] + g[(s \ {y}) \ {x}]
      BY <2>2
    <3>4. g[(s \ {x}) \ {y}] \in Nat /\ g[s \ {x}] \in Nat
      BY <1>6, <1>7
    <3>5. f[x] \in Nat
      BY <1>6
    <3> DEFINE a == g[s \ {x}]
               b == g[(s \ {x}) \ {y}]
    <3>6. h[s] = f[x] + a /\ h[s \ {y}] = f[x] + b /\ a = f[y] + b /\ a \in Nat /\ b \in Nat
      BY <3>1, <3>2, <3>3, <3>4
    <3> HIDE DEF h, rest, a, b
    <3> QED  BY <3>5, <3>6, <2>0
  <2>3. CASE x \notin s
    <3>1. s \in SUBSET rest /\ s \ {y} \in SUBSET rest /\ h[s] = g[s] /\ h[s \ {y}] = g[s \ {y}]
      BY <2>3
    <3> HIDE DEF h, rest
    <3> QED  BY <3>1, <1>5 DEF Sums
  <2> QED  BY <2>1, <2>2, <2>3
<1>10. Sums(h, f, t)
  <2> HIDE DEF h
  <2> QED  BY <1>8, <1>9 DEF Sums
<1> QED  BY <1>10

\* What SumFunction folds is the sum, in whatever order it chooses.
LEMMA SumIs ==
    ASSUME NEW D, IsFiniteSet(D), NEW f \in [D -> Nat], NEW g, Sums(g, f, D)
    PROVE  SumFunction(f) = g[D]
<1> DEFINE next(h, s) ==
             IF s = {} THEN 0
             ELSE LET x == CHOOSE x \in s : TRUE IN f[x] + h[s \ {x}]
           iter == CHOOSE h : h = [s \in SUBSET D |-> next(h, s)]
<1>1. g = [s \in SUBSET D |-> next(g, s)]
  <2>1. \A s \in SUBSET D : g[s] = next(g, s)
    BY DEF Sums
  <2>2. g = [s \in SUBSET D |-> g[s]]
    BY DEF Sums
  <2> HIDE DEF next
  <2> QED  BY <2>1, <2>2
<1>2. iter = [s \in SUBSET D |-> next(iter, s)]
  <2> HIDE DEF next
  <2> QED  BY <1>1
<1>3. \A s \in SUBSET D : iter[s] = next(iter, s)
  <2> HIDE DEF next, iter
  <2> QED  BY <1>2
<1> DEFINE bad == {s \in SUBSET D : iter[s] # g[s]}
<1>4. bad = {}
  <2>1. SUFFICES ASSUME bad # {} PROVE FALSE
    OBVIOUS
  <2>2. PICK t \in bad : \A u \in bad : u \subseteq t => u = t
    <3>1. bad \in SUBSET SUBSET D  OBVIOUS
    <3> HIDE DEF bad
    <3> QED  BY <2>1, <3>1, MinimalSet
  <2> HIDE DEF iter
  <2>3. t # {}
    BY <1>3 DEF Sums
  <2> DEFINE x == CHOOSE x \in t : TRUE
  <2>4. x \in t
    BY <2>3
  <2>5. iter[t] = f[x] + iter[t \ {x}]
    BY <1>3, <2>3
  <2> HIDE DEF x
  <2>6. g[t] = f[x] + g[t \ {x}]
    BY <2>4 DEF Sums
  <2>7. iter[t \ {x}] = g[t \ {x}]
    BY <2>2, <2>4
  <2> QED  BY <2>5, <2>6, <2>7
<1>5. iter[D] = g[D]
  <2> HIDE DEF iter
  <2> QED  BY <1>4
<1>6. SumFunction(f) = iter[D]
  <2>1. DOMAIN f = D  OBVIOUS
  <2> QED  BY <2>1 DEF SumFunction, SumFunctionOnSet, FoldFunctionOnSet, MapThenFoldSet
<1> QED  BY <1>5, <1>6

\* The sum over two sets apart is that of the one and that of the other.
LEMMA SumsAddUp ==
    ASSUME NEW D, IsFiniteSet(D), NEW f \in [D -> Nat], NEW g, Sums(g, f, D),
           NEW A \in SUBSET D, NEW B \in SUBSET D, A \cap B = {}
    PROVE  g[A \cup B] = g[A] + g[B]
<1> DEFINE bad == {b \in SUBSET B : g[A \cup b] # g[A] + g[b]}
<1>1. SUFFICES ASSUME bad # {} PROVE FALSE
  OBVIOUS
<1>2. PICK t \in bad : \A u \in bad : u \subseteq t => u = t
  <2>1. bad \in SUBSET SUBSET D  OBVIOUS
  <2> HIDE DEF bad
  <2> QED  BY <1>1, <2>1, MinimalSet
<1>3. \A s \in SUBSET D : g[s] \in Nat
  BY DEF Sums
<1>4. t # {}
  <2>1. A \cup {} = A  OBVIOUS
  <2>2. g[A] \in Nat /\ g[{}] = 0  BY <1>3 DEF Sums
  <2> QED  BY <2>1, <2>2
<1>5. PICK x \in t : TRUE
  BY <1>4
<1>6. (A \cup t) \ {x} = A \cup (t \ {x})
  OBVIOUS
<1>7. g[A \cup t] = f[x] + g[A \cup (t \ {x})] /\ g[t] = f[x] + g[t \ {x}]
  BY <1>6 DEF Sums
<1>8. g[A \cup (t \ {x})] = g[A] + g[t \ {x}]
  BY <1>2, <1>5
<1>9. f[x] \in Nat /\ g[A] \in Nat /\ g[t \ {x}] \in Nat
  BY <1>3
<1>10. g[A \cup t] = g[A] + g[t]
  BY <1>7, <1>8, <1>9
<1> QED  BY <1>10

(***************************************************************************)
(* What the operators of the model come to                                 *)
(***************************************************************************)

\* The sets the constants are from.
LEMMA ConstantFacts ==
    /\ Keys \subseteq Nat \ {0} /\ IsFiniteSet(Keys) /\ Publications \subseteq Nat
    /\ PageSize \in Nat \ {0} /\ MaxChanges \in Nat
    /\ \A k \in Keys : NoObject \notin Versions[k]
BY ScanAssumption

\* A key belongs to the one Publication that names it.
LEMMA OwnerIsUnique ==
    ASSUME NEW p \in Publications, NEW k \in DOMAIN Manifest[p]
    PROVE  OwnerOf(k) = p /\ Accepted(k) = Manifest[p][k] /\ k \in Keys
<1>1. \A q \in Publications : k \in DOMAIN Manifest[q] => q = p
  BY ManifestAssumption
<1>2. OwnerOf(k) = p
  BY <1>1 DEF OwnerOf
<1> QED  BY <1>2, ManifestAssumption DEF Accepted

LEMMA ClaimedAreKeys ==
    ASSUME NEW pubs \in SUBSET Publications
    PROVE  Claimed(pubs) \subseteq Keys /\ \A k \in Claimed(pubs) : OwnerOf(k) \in pubs
BY OwnerIsUnique DEF Claimed

\* There is a first among accepted objects.
LEMMA FirstIsToDo ==
    ASSUME todo \subseteq Claimed(managed), managed \subseteq Publications, todo # {}
    PROVE  First \in todo
<1>1. todo \subseteq Keys /\ IsFiniteSet(todo)
  BY ClaimedAreKeys, ConstantFacts, FS_Subset
<1>2. \A k \in todo : k \in Nat /\ OwnerOf(k) \in Nat
  BY <1>1, ClaimedAreKeys, ConstantFacts
<1> DEFINE R == {e \in todo \X todo :
                   \/ OwnerOf(e[1]) < OwnerOf(e[2])
                   \/ OwnerOf(e[1]) = OwnerOf(e[2]) /\ e[1] < e[2]}
<1>3. \A x \in todo : <<x, x>> \notin R
  BY <1>2
<1>4. ASSUME NEW x \in todo, NEW y \in todo, NEW z \in todo, <<x, y>> \in R, <<y, z>> \in R
      PROVE  <<x, z>> \in R
  BY <1>2, <1>4
<1>5. ASSUME NEW x \in todo, NEW y \in todo, <<y, x>> \notin R
      PROVE  OwnerOf(x) < OwnerOf(y) \/ (OwnerOf(x) = OwnerOf(y) /\ x <= y)
  BY <1>2, <1>5
<1> HIDE DEF R
<1>6. \E x \in todo : \A y \in todo : <<y, x>> \notin R
  BY <1>1, <1>3, <1>4, MinimalElement
<1>7. \E x \in todo : \A y \in todo :
          OwnerOf(x) < OwnerOf(y) \/ (OwnerOf(x) = OwnerOf(y) /\ x <= y)
  BY <1>5, <1>6
<1> QED  BY <1>7 DEF First

\* The first object stays the first while the list stays.
LEMMA FirstStays ==
    ASSUME todo' = todo
    PROVE  First' = First
BY DEF First

\* A page is finite and holds keys behind the last one that are there.
LEMMA PageIsFinite ==
    Page \subseteq {k \in Present(storage) : k > after} /\ IsFiniteSet(Page)
<1>1. Page \subseteq Keys
  BY DEF Page, Present
<1> QED  BY <1>1, ConstantFacts, FS_Subset DEF Page

\* A page has no gaps: no key before one of its keys is left out.
LEMMA PageHasNoGaps ==
    ASSUME after \in Nat, NEW m \in Page, NEW k \in Present(storage), k > after, k <= m
    PROVE  k \in Page
<1> DEFINE rest == {j \in Present(storage) : j > after}
           Before(x) == {j \in rest : j < x}
<1>1. rest \subseteq Nat /\ IsFiniteSet(rest) /\ k \in rest /\ m \in rest
  BY ConstantFacts, FS_Subset DEF Present, Page
<1> HIDE DEF rest
<1>2. \A j \in rest : j < k => j < m
  BY <1>1
<1>3. /\ Before(k) \subseteq Before(m)
      /\ IsFiniteSet(Before(m))
  <2>1. Before(m) \subseteq rest
    OBVIOUS
  <2> QED  BY <1>1, <1>2, <2>1, FS_Subset
<1>4. Cardinality(Before(m)) < PageSize
  BY DEF Page, rest
<1>5. Cardinality(Before(k)) < PageSize
  <2> HIDE DEF Before
  <2>1. /\ Cardinality(Before(k)) <= Cardinality(Before(m))
        /\ Cardinality(Before(k)) \in Nat /\ Cardinality(Before(m)) \in Nat
    BY <1>3, FS_Subset, FS_CardinalityType
  <2> QED  BY <2>1, <1>4, ConstantFacts
<1> QED  BY <1>1, <1>5 DEF Page, rest

\* A listing that goes on gets a page, whose last key is behind the one before.
LEMMA TruncatedPage ==
    ASSUME after \in Nat, Truncated
    PROVE  /\ Max(Page) \in Page /\ Max(Page) \in Keys /\ Max(Page) > after
           /\ \A k \in Page : k <= Max(Page)
           /\ \A k \in Present(storage) : k > after /\ k <= Max(Page) => k \in Page
<1> DEFINE rest == {j \in Present(storage) : j > after}
           R == {e \in rest \X rest : e[1] < e[2]}
<1>1. rest \subseteq Keys /\ rest \subseteq Nat /\ IsFiniteSet(rest) /\ rest # {}
  BY ConstantFacts, FS_Subset DEF Present, Truncated
<1>2. /\ \A x \in rest : <<x, x>> \notin R
      /\ \A x, y, z \in rest : <<x, y>> \in R /\ <<y, z>> \in R => <<x, z>> \in R
  BY <1>1
<1>3. \A x, y \in rest : <<y, x>> \notin R => ~(y < x)
  OBVIOUS
<1>4. PICK x \in rest : \A y \in rest : ~(y < x)
  <2> HIDE DEF rest, R
  <2> QED  BY <1>1, <1>2, <1>3, MinimalElement
<1>5. {j \in rest : j < x} = {}
  BY <1>4
<1>6. Cardinality({j \in rest : j < x}) < PageSize
  BY <1>5, FS_EmptySet, ConstantFacts
<1>7. x \in Page
  BY <1>6 DEF Page
<1>8. Page \subseteq rest /\ IsFiniteSet(Page)
  BY PageIsFinite
<1> HIDE DEF rest
<1>9. Max(Page) \in Page /\ \A k \in Page : k <= Max(Page)
  BY <1>1, <1>7, <1>8, MaxIsGreatest
<1> QED  BY <1>1, <1>8, <1>9, PageHasNoGaps DEF rest

-----------------------------------------------------------------------------
(***************************************************************************)
(* The inductive invariant                                                 *)
(***************************************************************************)

\* The variables that TypeOK leaves free: functions have their domains, the rows
\* are a sequence, what is listed was stored.
Shape ==
    /\ DOMAIN storage = Keys /\ DOMAIN held = Keys
    /\ \E X : records \in Seq(X)
    /\ \A k \in DOMAIN listing : listing[k] \in Contents(k) \ {NoObject}

\* Between scans nothing is left of the last one.
Settled ==
    pc = "idle" =>
        /\ managed = {} /\ after = 0 /\ DOMAIN listing = {} /\ todo = {}
        /\ differs = FALSE /\ DOMAIN verdict = {} /\ calm = FALSE

\* What a key held includes what it holds and what the listing saw of it.
HeldCovers ==
    pc # "idle" =>
        /\ \A k \in Keys : storage[k] \in held[k]
        /\ \A k \in DOMAIN listing : listing[k] \in held[k]
        /\ calm => \A k \in Keys : held[k] = {storage[k]}

\* A key the listing has passed without naming it was away at some moment.
PassedOver(k) == k \notin DOMAIN listing => NoObject \in held[k]
ListingCovers ==
    /\ pc = "listing" =>
           /\ \A k \in DOMAIN listing : k <= after
           /\ \A k \in Keys : k <= after => PassedOver(k)
    /\ pc \in {"comparing", "reading"} => \A k \in Keys : PassedOver(k)

\* An accepted object is judged or still to do, and a reading has its object.
Divided ==
    /\ pc \in {"idle", "listing"} => todo = {} /\ DOMAIN verdict = {}
    /\ pc \in {"comparing", "reading"} =>
           /\ todo \cup DOMAIN verdict = Claimed(managed)
           /\ todo \cap DOMAIN verdict = {}
    /\ pc = "reading" => todo # {}

ListingWitness(k) == \E v \in held[k] \ {NoObject} : SameListing(v, Accepted(k))
MetadataWitness(k) == \E v \in held[k] \ {NoObject} : SameMetadata(v, Accepted(k))
BodyWitness(k) == \E v \in held[k] \ {NoObject} : v.body = Accepted(k).body

\* The object k, holding v, is what was accepted, as far as this scan looks.
SameAll(k, v) ==
    /\ v # NoObject /\ SameListing(v, Accepted(k)) /\ SameMetadata(v, Accepted(k))
    /\ complete => v.body = Accepted(k).body

\* Every verdict has its witnesses, and is right when nothing has changed.
Justified(k) ==
    /\ verdict[k] = "absent" => NoObject \in held[k]
    /\ verdict[k] # "absent" => k \in DOMAIN listing
    /\ verdict[k] = "same" =>
           ListingWitness(k) /\ MetadataWitness(k) /\ (complete => BodyWitness(k))
    /\ calm /\ verdict[k] \in {"touched", "changed"} => ~SameAll(k, storage[k])
VerdictsJustified == \A k \in DOMAIN verdict : Justified(k)

\* What the listing and the HEAD said of the object now downloaded.
ReadingJustified ==
    pc = "reading" =>
        /\ ~differs => complete /\ ListingWitness(First) /\ MetadataWitness(First)
        /\ differs /\ calm => ~SameAll(First, storage[First])

IInv ==
    /\ TypeOK /\ Shape /\ Settled /\ HeldCovers /\ ListingCovers /\ Divided
    /\ VerdictsJustified /\ ReadingJustified

\* A scan may begin anywhere: nothing is under way at first.
LEMMA InitEstablishesInvariant == Init => IInv
<1> SUFFICES ASSUME Init  PROVE IInv
  OBVIOUS
<1> USE DEF Init, Idle
<1>1. TypeOK
  <2>1. DOMAIN listing = {} /\ DOMAIN verdict = {}
    OBVIOUS
  <2>2. (\A k \in Keys : storage[k] \in Contents(k)) /\ 0 \in 0..MaxChanges
    BY ConstantFacts
  <2> QED  BY <2>1, <2>2 DEF TypeOK
<1>2. Shape
  <2>1. records \in Seq({})
    OBVIOUS
  <2> QED  BY <2>1 DEF Shape
<1>3. Settled /\ HeldCovers /\ ListingCovers /\ Divided /\ VerdictsJustified
      /\ ReadingJustified
  BY DEF Settled, HeldCovers, ListingCovers, Divided, VerdictsJustified,
         ReadingJustified
<1> QED  BY <1>1, <1>2, <1>3 DEF IInv

(***************************************************************************)
(* Storage moves                                                           *)
(***************************************************************************)

\* What a witness has seen stays seen while held grows.
LEMMA WitnessesStay ==
    ASSUME NEW k \in Keys, held[k] \subseteq held'[k]
    PROVE  /\ ListingWitness(k) => ListingWitness(k)'
           /\ MetadataWitness(k) => MetadataWitness(k)'
           /\ BodyWitness(k) => BodyWitness(k)'
BY DEF ListingWitness, MetadataWitness, BodyWitness

LEMMA PublishKeepsInvariant ==
    ASSUME IInv, NEW k \in Keys, NEW v \in Contents(k), Publish(k, v)
    PROVE  IInv'
<1> USE DEF IInv
<1>0. UNCHANGED <<accepted, complete, pc, managed, after, listing, todo, differs, verdict,
                  records, outcome, ended>>
  BY DEF Publish, scan, result
<1>1. /\ DOMAIN storage' = Keys /\ storage'[k] = v
      /\ \A j \in Keys \ {k} : storage'[j] = storage[j]
  BY DEF Publish, Shape
<1>2. TypeOK'
  <2>1. \A j \in Keys : storage'[j] \in Contents(j)
    BY <1>1 DEF TypeOK
  <2>2. changes' \in 0..MaxChanges
    BY ConstantFacts DEF TypeOK, Publish
  <2>3. calm' \in BOOLEAN
    BY DEF TypeOK, Publish, history
  <2> QED  BY <1>0, <2>1, <2>2, <2>3 DEF TypeOK
<1>3. Shape'
  BY <1>0, <1>1 DEF Shape, Publish, history
<1>4. Settled'
  BY <1>0 DEF Settled, Publish, history
<1>5. CASE pc = "idle"
  <2>1. (HeldCovers /\ ListingCovers /\ Divided /\ VerdictsJustified /\ ReadingJustified)'
    BY <1>0, <1>5 DEF HeldCovers, ListingCovers, Divided, Settled, VerdictsJustified,
                      ReadingJustified
  <2> QED  BY <2>1, <1>2, <1>3, <1>4
<1>6. CASE pc # "idle"
  <2>1. /\ DOMAIN held' = Keys /\ held'[k] = held[k] \cup {v} /\ calm' = FALSE
        /\ \A j \in Keys \ {k} : held'[j] = held[j]
    BY <1>6 DEF Publish, Shape
  <2>2. \A j \in Keys : held[j] \subseteq held'[j]
    BY <2>1
  <2>3. (HeldCovers /\ ListingCovers)'
    BY <1>0, <1>1, <1>6, <2>1, <2>2 DEF HeldCovers, ListingCovers, PassedOver, TypeOK
  <2>4. Divided'
    BY <1>0 DEF Divided
  <2>5. VerdictsJustified'
    <3> SUFFICES ASSUME NEW j \in DOMAIN verdict  PROVE Justified(j)'
      BY <1>0 DEF VerdictsJustified
    <3>1. j \in Keys /\ Justified(j)
      BY ClaimedAreKeys DEF TypeOK, VerdictsJustified
    <3> QED  BY <3>1, <1>0, <2>1, <2>2, WitnessesStay DEF Justified
  <2>6. ReadingJustified'
    <3>1. First' = First
      BY <1>0, FirstStays
    <3>2. pc = "reading" => First \in Keys
      BY FirstIsToDo, ClaimedAreKeys DEF TypeOK, Divided
    <3> QED  BY <3>1, <3>2, <1>0, <2>1, <2>2, WitnessesStay DEF ReadingJustified
  <2> QED  BY <2>3, <2>4, <2>5, <2>6, <1>2, <1>3, <1>4
<1> QED  BY <1>5, <1>6

LEMMA AdoptKeepsInvariant ==
    ASSUME IInv, NEW p \in Publications, Adopt(p)
    PROVE  IInv'
<1> USE DEF IInv
<1>1. /\ UNCHANGED <<storage, changes, scan, records, history, result>>
      /\ accepted' \subseteq Publications
  BY DEF Adopt, TypeOK
<1>2. First' = First
  BY <1>1, FirstStays DEF scan
<1> USE <1>1 DEF scan, history, result
<1>3. (TypeOK /\ Shape /\ Settled /\ HeldCovers /\ ListingCovers /\ Divided)'
  BY DEF TypeOK, Shape, Settled, HeldCovers, ListingCovers, PassedOver, Divided
<1>4. (VerdictsJustified /\ ReadingJustified)'
  BY <1>2 DEF VerdictsJustified, Justified, ReadingJustified, SameAll,
         ListingWitness, MetadataWitness, BodyWitness
<1> QED  BY <1>3, <1>4

(***************************************************************************)
(* The scan                                                                *)
(***************************************************************************)

LEMMA BeginKeepsInvariant ==
    ASSUME IInv, Begin
    PROVE  IInv'
<1> USE DEF IInv
<1>1. /\ pc = "idle" /\ pc' = "listing" /\ held' = [k \in Keys |-> {storage[k]}] /\ calm' = TRUE
      /\ managed' = accepted /\ outcome' = "never" /\ ended' = Served /\ complete' \in BOOLEAN
      /\ UNCHANGED <<storage, accepted, changes, after, listing, todo, differs, verdict, records>>
  BY DEF Begin, outside
<1>2. after' = 0 /\ DOMAIN listing' = {} /\ todo' = {} /\ DOMAIN verdict' = {}
  BY <1>1 DEF Settled
<1>3. TypeOK'
  BY <1>1, <1>2 DEF TypeOK
<1>4. Shape'
  BY <1>1 DEF Shape
<1>5. HeldCovers'
  BY <1>1, <1>2 DEF HeldCovers
<1>6. ListingCovers'
  BY <1>1, <1>2, ConstantFacts DEF ListingCovers
<1>7. (Settled /\ Divided /\ VerdictsJustified /\ ReadingJustified)'
  BY <1>1, <1>2 DEF Settled, Divided, VerdictsJustified, ReadingJustified
<1> QED  BY <1>3, <1>4, <1>5, <1>6, <1>7

LEMMA ListPageKeepsInvariant ==
    ASSUME IInv, ListPage
    PROVE  IInv'
<1> USE DEF IInv
<1>1. /\ pc = "listing" /\ todo = {} /\ DOMAIN verdict = {} /\ after \in Nat
      /\ listing' = Listed /\ differs' = differs
      /\ UNCHANGED <<storage, accepted, changes, complete, managed, records, held, calm,
                     outcome, ended>>
  BY ConstantFacts DEF ListPage, outside, history, result, Divided, TypeOK
<1>2. /\ DOMAIN listing' = Page \cup DOMAIN listing /\ DOMAIN listing' \subseteq Keys
      /\ \A k \in Page : listing'[k] = storage[k] /\ storage[k] # NoObject
      /\ \A k \in DOMAIN listing \ Page : listing'[k] = listing[k]
  BY <1>1, PageIsFinite DEF Listed, TypeOK, Present
<1>3. Shape'
  BY <1>1, <1>2 DEF Shape, TypeOK
<1>4. HeldCovers'
  <2>1. pc' # "idle"
    BY <1>1 DEF ListPage
  <2>2. \A k \in DOMAIN listing' : listing'[k] \in held[k]
    BY <1>1, <1>2 DEF HeldCovers
  <2> QED  BY <1>1, <2>1, <2>2 DEF HeldCovers
<1>5. \A k \in Keys : (k > after => storage[k] = NoObject \/ k \in Page)
                      \/ Truncated
  BY DEF Truncated, Present
<1>6. ASSUME NEW k \in Keys, k <= after \/ storage[k] = NoObject \/ k \in Page
      PROVE  PassedOver(k)'
  BY <1>1, <1>2, <1>6 DEF ListingCovers, HeldCovers, PassedOver
<1>7. CASE Truncated
  <2>1. /\ after' = Max(Page) /\ UNCHANGED <<pc, verdict, todo>>
    BY <1>7 DEF ListPage
  <2>2. /\ after' \in Keys /\ after' \in Nat /\ after' > after
        /\ \A k \in Page : k <= after'
        /\ \A k \in Keys : k > after /\ k <= after' => storage[k] = NoObject \/ k \in Page
    BY <1>1, <1>7, <2>1, TruncatedPage, ConstantFacts DEF Present
  <2>3. TypeOK'
    BY <1>1, <1>2, <2>1, <2>2 DEF TypeOK
  <2>4. ListingCovers'
    <3>1. \A k \in DOMAIN listing' : k <= after'
      <4>1. \A k \in DOMAIN listing : k \in Nat /\ k <= after
        BY <1>1, ConstantFacts DEF ListingCovers, TypeOK
      <4> QED  BY <1>1, <1>2, <2>2, <4>1
    <3>2. ASSUME NEW k \in Keys, k <= after'
          PROVE  PassedOver(k)'
      <4>1. k <= after \/ storage[k] = NoObject \/ k \in Page
        BY <1>1, <2>2, <3>2, ConstantFacts
      <4> QED  BY <1>6, <4>1
    <3> QED  BY <1>1, <2>1, <3>1, <3>2 DEF ListingCovers
  <2>5. (Settled /\ Divided /\ VerdictsJustified /\ ReadingJustified)'
    BY <1>1, <2>1 DEF Settled, Divided, VerdictsJustified, ReadingJustified
  <2> QED  BY <1>3, <1>4, <2>3, <2>4, <2>5
<1>8. CASE ~Truncated
  <2>1. /\ pc' = "comparing" /\ after' = after
        /\ verdict' = [k \in Claimed(managed) \ DOMAIN listing' |-> "absent"]
        /\ todo' = Claimed(managed) \cap DOMAIN listing'
    BY <1>1, <1>8 DEF ListPage
  <2>2. TypeOK'
    BY <1>1, <1>2, <2>1 DEF TypeOK, Verdicts
  <2>3. \A k \in Keys : PassedOver(k)'
    BY <1>1, <1>5, <1>6, <1>8, ConstantFacts
  <2>4. ListingCovers'
    BY <2>1, <2>3 DEF ListingCovers
  <2>5. Divided'
    BY <1>1, <2>1 DEF Divided
  <2>6. VerdictsJustified'
    <3> SUFFICES ASSUME NEW k \in DOMAIN verdict'  PROVE Justified(k)'
      BY DEF VerdictsJustified
    <3>1. k \in Keys /\ k \notin DOMAIN listing' /\ verdict'[k] = "absent"
      BY <2>1, ClaimedAreKeys DEF TypeOK
    <3>2. NoObject \in held'[k]
      BY <3>1, <2>3 DEF PassedOver
    <3> QED  BY <3>1, <3>2 DEF Justified
  <2>7. (Settled /\ ReadingJustified)'
    BY <1>1, <2>1 DEF Settled, ReadingJustified
  <2> QED  BY <1>3, <1>4, <2>2, <2>4, <2>5, <2>6, <2>7
<1> QED  BY <1>7, <1>8

\* Judging the first object keeps the division, and all verdicts justified if
\* the new one is.
LEMMA JudgeKeeps ==
    ASSUME IInv, pc \in {"comparing", "reading"}, todo # {},
           NEW finding \in Verdicts, Judge(First, finding),
           UNCHANGED <<storage, complete, managed, listing, held, calm>>,
           /\ finding = "absent" => NoObject \in held[First]
           /\ finding = "same" => /\ ListingWitness(First) /\ MetadataWitness(First)
                                  /\ complete => BodyWitness(First)
           /\ calm /\ finding \in {"touched", "changed"} => ~SameAll(First, storage[First])
    PROVE  /\ todo' \subseteq DOMAIN listing \cap Claimed(managed)
           /\ DOMAIN verdict' \subseteq Claimed(managed)
           /\ \A k \in DOMAIN verdict' : verdict'[k] \in Verdicts
           /\ todo' \cup DOMAIN verdict' = Claimed(managed) /\ todo' \cap DOMAIN verdict' = {}
           /\ VerdictsJustified'
<1> USE DEF IInv
<1>1. First \in todo
  BY FirstIsToDo DEF TypeOK
<1>2. First \in DOMAIN listing /\ First \in Claimed(managed) /\ First \notin DOMAIN verdict
  BY <1>1 DEF TypeOK, Divided
<1>3. /\ todo' = todo \ {First} /\ DOMAIN verdict' = DOMAIN verdict \cup {First}
      /\ verdict'[First] = finding /\ \A j \in DOMAIN verdict : verdict'[j] = verdict[j]
  BY <1>2 DEF Judge
<1>4. /\ todo' \subseteq DOMAIN listing \cap Claimed(managed)
      /\ DOMAIN verdict' \subseteq Claimed(managed)
      /\ \A k \in DOMAIN verdict' : verdict'[k] \in Verdicts
      /\ todo' \cup DOMAIN verdict' = Claimed(managed) /\ todo' \cap DOMAIN verdict' = {}
  BY <1>1, <1>2, <1>3 DEF TypeOK, Divided
<1>5. ASSUME NEW k \in DOMAIN verdict'
      PROVE  Justified(k)'
  <2>1. CASE k = First
    BY <1>2, <1>3, <2>1 DEF Justified, ListingWitness, MetadataWitness, BodyWitness, SameAll
  <2>2. CASE k # First
    <3>1. k \in DOMAIN verdict /\ Justified(k) /\ verdict'[k] = verdict[k]
      BY <1>3, <2>2 DEF VerdictsJustified
    <3> QED  BY <3>1 DEF Justified, ListingWitness, MetadataWitness, BodyWitness, SameAll
  <2> QED  BY <2>1, <2>2
<1> QED  BY <1>4, <1>5 DEF VerdictsJustified

LEMMA StatGoneKeepsInvariant ==
    ASSUME IInv, StatGone
    PROVE  IInv'
<1> USE DEF IInv
<1>1. /\ pc = "comparing" /\ todo # {} /\ storage[First] = NoObject /\ Judge(First, "absent")
      /\ UNCHANGED <<storage, accepted, changes, complete, pc, managed, after, listing,
                     differs, records, held, calm, outcome, ended>>
  BY DEF StatGone, outside, history, result
<1>2. First \in Keys
  BY <1>1, FirstIsToDo DEF TypeOK
<1>3. NoObject \in held[First]
  BY <1>1, <1>2 DEF HeldCovers
<1>4. /\ todo' \subseteq DOMAIN listing \cap Claimed(managed)
      /\ DOMAIN verdict' \subseteq Claimed(managed)
      /\ \A k \in DOMAIN verdict' : verdict'[k] \in Verdicts
      /\ todo' \cup DOMAIN verdict' = Claimed(managed) /\ todo' \cap DOMAIN verdict' = {}
      /\ VerdictsJustified'
  BY <1>1, <1>3, JudgeKeeps DEF Verdicts
<1>5. TypeOK'
  BY <1>1, <1>4 DEF TypeOK
<1>6. (Shape /\ Settled /\ HeldCovers /\ ListingCovers /\ Divided /\ ReadingJustified)'
  BY <1>1, <1>4 DEF Shape, Settled, HeldCovers, ListingCovers, PassedOver, Divided,
                    ReadingJustified
<1> QED  BY <1>4, <1>5, <1>6

LEMMA StatKeepsInvariant ==
    ASSUME IInv, Stat
    PROVE  IInv'
<1> USE DEF IInv
<1>1. /\ pc = "comparing" /\ todo # {} /\ storage[First] # NoObject
      /\ UNCHANGED <<storage, accepted, changes, complete, managed, after, listing,
                     records, held, calm, outcome, ended>>
  BY DEF Stat, outside, history, result
<1>2. First \in Keys /\ First \in DOMAIN listing /\ listing[First] # NoObject
      /\ storage[First] \in held[First] /\ listing[First] \in held[First]
  BY <1>1, FirstIsToDo, ClaimedAreKeys DEF TypeOK, Shape, HeldCovers
<1>3. /\ SameListing(listing[First], Accepted(First)) => ListingWitness(First)
      /\ SameMetadata(storage[First], Accepted(First)) => MetadataWitness(First)
  BY <1>1, <1>2 DEF ListingWitness, MetadataWitness
<1>4. calm => listing[First] = storage[First]
  BY <1>1, <1>2 DEF HeldCovers
<1>5. /\ differs' \in BOOLEAN
      /\ ~differs' => ListingWitness(First) /\ MetadataWitness(First)
      /\ differs' /\ calm => ~SameAll(First, storage[First])
  BY <1>3, <1>4 DEF Stat, SameAll
<1>6. CASE differs' \/ complete
  <2>1. pc' = "reading" /\ UNCHANGED <<todo, verdict>>
    BY <1>6 DEF Stat
  <2>2. First' = First
    BY <2>1, FirstStays
  <2>3. TypeOK'
    BY <1>1, <1>5, <2>1 DEF TypeOK
  <2>4. ReadingJustified'
    BY <1>1, <1>5, <1>6, <2>2
       DEF ReadingJustified, ListingWitness, MetadataWitness, SameAll
  <2>5. (Shape /\ Settled /\ HeldCovers /\ ListingCovers /\ Divided)'
    BY <1>1, <2>1 DEF Shape, Settled, HeldCovers, ListingCovers, PassedOver, Divided
  <2>6. VerdictsJustified'
    BY <1>1, <2>1 DEF VerdictsJustified, Justified, ListingWitness, MetadataWitness,
                      BodyWitness, SameAll
  <2> QED  BY <2>3, <2>4, <2>5, <2>6
<1>7. CASE ~(differs' \/ complete)
  <2>1. pc' = pc /\ Judge(First, "same")
    BY <1>7 DEF Stat
  <2>2. /\ todo' \subseteq DOMAIN listing \cap Claimed(managed)
        /\ DOMAIN verdict' \subseteq Claimed(managed)
        /\ \A k \in DOMAIN verdict' : verdict'[k] \in Verdicts
        /\ todo' \cup DOMAIN verdict' = Claimed(managed) /\ todo' \cap DOMAIN verdict' = {}
        /\ VerdictsJustified'
    BY <1>1, <1>5, <1>7, <2>1, JudgeKeeps DEF Verdicts
  <2>3. TypeOK'
    BY <1>1, <1>5, <2>1, <2>2 DEF TypeOK
  <2>4. (Shape /\ Settled /\ HeldCovers /\ ListingCovers /\ Divided /\ ReadingJustified)'
    BY <1>1, <2>1, <2>2 DEF Shape, Settled, HeldCovers, ListingCovers, PassedOver, Divided,
                            ReadingJustified
  <2> QED  BY <2>2, <2>3, <2>4
<1> QED  BY <1>6, <1>7

LEMMA ReadKeepsInvariant ==
    ASSUME IInv, Read
    PROVE  IInv'
<1> USE DEF IInv
<1> DEFINE found == Compared(First, storage[First])
<1>1. /\ pc = "reading" /\ todo # {} /\ pc' = "comparing" /\ differs' = FALSE
      /\ Judge(First, found)
      /\ UNCHANGED <<storage, accepted, changes, complete, managed, after, listing,
                     records, held, calm, outcome, ended>>
  BY DEF Read, outside, history, result, Divided
<1>2. First \in Keys /\ storage[First] \in held[First] /\ differs \in BOOLEAN
  BY <1>1, FirstIsToDo, ClaimedAreKeys DEF TypeOK, HeldCovers
<1>3. /\ found \in Verdicts
      /\ found = "absent" => storage[First] = NoObject
      /\ found # "absent" => storage[First] # NoObject
      /\ found \in {"same", "touched"} => storage[First].body = Accepted(First).body
      /\ found = "same" => ~differs
      /\ found = "touched" => differs
      /\ found = "changed" => storage[First].body # Accepted(First).body
  BY DEF Compared, Verdicts
<1> HIDE DEF found
<1>4. found = "absent" => NoObject \in held[First]
  BY <1>2, <1>3
<1>5. found = "same" => ListingWitness(First) /\ MetadataWitness(First) /\ BodyWitness(First)
  BY <1>1, <1>2, <1>3 DEF ReadingJustified, BodyWitness
<1>6. calm /\ found \in {"touched", "changed"} => ~SameAll(First, storage[First])
  BY <1>1, <1>2, <1>3 DEF ReadingJustified, SameAll
<1>7. /\ todo' \subseteq DOMAIN listing \cap Claimed(managed)
      /\ DOMAIN verdict' \subseteq Claimed(managed)
      /\ \A k \in DOMAIN verdict' : verdict'[k] \in Verdicts
      /\ todo' \cup DOMAIN verdict' = Claimed(managed) /\ todo' \cap DOMAIN verdict' = {}
      /\ VerdictsJustified'
  BY <1>1, <1>3, <1>4, <1>5, <1>6, JudgeKeeps
<1>8. TypeOK'
  BY <1>1, <1>7 DEF TypeOK
<1>9. (Shape /\ Settled /\ HeldCovers /\ ListingCovers /\ Divided /\ ReadingJustified)'
  BY <1>1, <1>7 DEF Shape, Settled, HeldCovers, ListingCovers, PassedOver, Divided,
                    ReadingJustified
<1> QED  BY <1>7, <1>8, <1>9

(***************************************************************************)
(* The end of a scan                                                       *)
(***************************************************************************)

\* The errors of the three requests against the status of the check.
LEMMA ErrorsAgreeWithCheck ==
    ASSUME NEW a \in Answers, NEW e \in {ListError(a), StatError(a), ReadError(a)}, e # "none"
    PROVE  /\ a.status \notin {404} \cup 200..299 => OutcomeOf(e) = Check(a)
           /\ Outage(a) => \/ OutcomeOf(e) = "unavailable"
                           \/ a.body = "cut" /\ e \notin {StatError(a), ReadError(a)}
           /\ OutcomeOf(e) = "unavailable" => Outage(a)
           /\ a.body = "cut" /\ e = ListError(a) => OutcomeOf(e) = "misconfigured"
           /\ OutcomeOf(e) \in {"unavailable", "misconfigured", "failed"}
<1>1. e \in {"unavailable", "misconfigured", "not_found", "other"}
  BY DEF ListError, StatError, ReadError, NotServed, ClassifyStatus
<1>2. OutcomeOf(e) = IF e \in {"unavailable", "misconfigured"} THEN e ELSE "failed"
  BY <1>1 DEF OutcomeOf
<1>3. CASE a = Unsent
  BY <1>2, <1>3 DEF Unsent, NoAnswer, ListError, StatError, ReadError, NotServed, Check, Outage
<1>4. CASE a = NoAnswer
  BY <1>2, <1>4 DEF Unsent, NoAnswer, ListError, StatError, ReadError, NotServed, Check, Outage
<1>5. CASE a \in [status : Statuses \ {200}, body : {"whole"}]
  <2>1. a.status \in 100..599 /\ a.status # 200 /\ a.body = "whole"
    BY <1>5, StatusAssumption
  <2>2. a # Unsent /\ a # NoAnswer
    BY <2>1 DEF Unsent, NoAnswer
  <2>3. e = ClassifyStatus(a.status)
    BY <2>1 DEF ListError, StatError, ReadError
  <2> QED  BY <1>2, <2>1, <2>2, <2>3 DEF ClassifyStatus, Check, Outage
<1>6. CASE a \in [status : Statuses \cap {200}, body : {"whole", "cut", "garbled"}]
  <2>1. a.status = 200 /\ a.body \in {"whole", "cut", "garbled"}
        /\ a = [status |-> 200, body |-> a.body]
    BY <1>6
  <2>2. /\ e \in {"misconfigured", "unavailable", "other"}
        /\ e \in {"misconfigured", "unavailable"} <=> a.body = "cut"
        /\ e \in {StatError(a), ReadError(a)} => e \in {"unavailable", "other"}
        /\ a.body = "cut" /\ e = ListError(a) => e = "misconfigured"
    BY <2>1 DEF ListError, StatError, ReadError, ClassifyStatus
  <2>3. Outage(a) <=> a.body = "cut"
    BY <2>1 DEF Outage, NoAnswer
  <2> QED  BY <1>2, <2>1, <2>2, <2>3
<1> QED  BY <1>3, <1>4, <1>5, <1>6 DEF Answers

\* However a scan ends, nothing is left of it.
LEMMA RestKeeps ==
    ASSUME IInv, Rest, UNCHANGED <<storage, accepted>>, ended' \in Answers \cup {Served},
           outcome' \in {"never", "succeeded", "unavailable", "misconfigured", "failed"}
    PROVE  /\ TypeOK' /\ Settled' /\ HeldCovers' /\ ListingCovers' /\ Divided'
           /\ VerdictsJustified' /\ ReadingJustified'
           /\ DOMAIN storage' = Keys /\ DOMAIN held' = Keys /\ DOMAIN listing' = {}
<1> USE DEF IInv
<1>1. /\ pc' = "idle" /\ complete' = FALSE /\ managed' = {} /\ after' = 0 /\ changes' = 0
      /\ todo' = {} /\ differs' = FALSE /\ held' = [k \in Keys |-> {}] /\ calm' = FALSE
      /\ DOMAIN listing' = {} /\ DOMAIN verdict' = {}
  BY DEF Rest
<1>2. TypeOK'
  <2>1. 0 \in 0..MaxChanges
    BY ConstantFacts
  <2> QED  BY <1>1, <2>1 DEF TypeOK
<1> QED
  BY <1>1, <1>2 DEF Settled, HeldCovers, ListingCovers, Divided, VerdictsJustified,
                    ReadingJustified, Shape

LEMMA RequestFailsKeepsInvariant ==
    ASSUME IInv, NEW a \in Answers, RequestFails(a)
    PROVE  IInv'
<1>1. /\ outcome' = OutcomeOf(RequestError(a)) /\ ended' = a /\ RequestError(a) # "none"
      /\ Rest /\ UNCHANGED <<storage, accepted, records>>
  BY DEF RequestFails, Ends
<1>2. RequestError(a) \in {ListError(a), StatError(a), ReadError(a)}
  BY <1>1 DEF RequestError
<1>3. outcome' \in {"unavailable", "misconfigured", "failed"}
  BY <1>1, <1>2, ErrorsAgreeWithCheck
<1> QED  BY <1>1, <1>3, RestKeeps DEF IInv, Shape

LEMMA OtherEndsKeepInvariant ==
    ASSUME IInv, CatalogFails \/ Die
    PROVE  IInv'
<1>1. /\ ended' = Served /\ outcome' \in {"never", "failed"}
      /\ Rest /\ UNCHANGED <<storage, accepted, records>>
  BY DEF CatalogFails, Die, Ends, OutcomeOf
<1> QED  BY <1>1, RestKeeps DEF IInv, Shape

LEMMA RecordKeepsInvariant ==
    ASSUME IInv, Record
    PROVE  /\ IInv' /\ Len(records') = Len(records) + 1 /\ records'[Len(records')] = Observation
<1>1. /\ ended' = Served /\ outcome' = "succeeded" /\ Rest /\ UNCHANGED <<storage, accepted>>
      /\ records' = Append(records, Observation)
  BY DEF Record, Ends, OutcomeOf
<1>2. PICK X : records \in Seq(X)
  BY DEF IInv, Shape
<1>3. /\ records \in Seq(X \cup {Observation}) /\ records' \in Seq(X \cup {Observation})
      /\ Len(records') = Len(records) + 1 /\ records'[Len(records')] = Observation
  BY <1>1, <1>2
<1> QED  BY <1>1, <1>3, RestKeeps DEF IInv, Shape

LEMMA StutterKeepsInvariant ==
    ASSUME IInv, UNCHANGED vars
    PROVE  IInv'
<1>1. UNCHANGED <<storage, accepted, changes, complete, pc, managed, after, listing, todo,
                  differs, verdict, records, held, calm, outcome, ended>>
  BY DEF vars, outside, scan, history, result
<1>2. First' = First
  BY <1>1, FirstStays
<1> USE DEF IInv
<1>3. (TypeOK /\ Shape /\ Settled /\ HeldCovers /\ ListingCovers /\ Divided)'
  BY <1>1 DEF TypeOK, Shape, Settled, HeldCovers, ListingCovers, PassedOver, Divided
<1>4. (VerdictsJustified /\ ReadingJustified)'
  BY <1>1, <1>2 DEF VerdictsJustified, Justified, ReadingJustified, SameAll,
                    ListingWitness, MetadataWitness, BodyWitness
<1> QED  BY <1>3, <1>4

LEMMA NextKeepsInvariant == IInv /\ [Next]_vars => IInv'
<1> SUFFICES ASSUME IInv, [Next]_vars  PROVE IInv'
  OBVIOUS
<1>1. CASE UNCHANGED vars
  BY <1>1, StutterKeepsInvariant
<1>2. CASE Next
  BY <1>2, PublishKeepsInvariant, AdoptKeepsInvariant, BeginKeepsInvariant,
     ListPageKeepsInvariant, StatGoneKeepsInvariant, StatKeepsInvariant, ReadKeepsInvariant,
     RecordKeepsInvariant, RequestFailsKeepsInvariant, OtherEndsKeepInvariant DEF Next
<1> QED  BY <1>1, <1>2

(***************************************************************************)
(* What holds of every scan                                                *)
(***************************************************************************)

\* The inductive invariant: what a scan has listed, judged and found so far is
\* borne out by what storage has held since it began (scan.go:84-132, 203-271).
THEOREM ScanInvariant == Spec => []IInv
BY InitEstablishesInvariant, NextKeepsInvariant, PTL DEF Spec

\* The state of a scan keeps its types (scan.go:84-132).
THEOREM ScanTyped == Spec => []TypeOK
<1>1. IInv => TypeOK
  BY DEF IInv
<1> QED  BY <1>1, ScanInvariant, PTL

\* What an operator's refresh comes to when storage ends the scan, against the
\* storage status: the same but for a 404 and a success; "unavailable" for every
\* outage but a listing that breaks off, and for nothing else (reader.go:37-41
\* and 137, 279-291, s3.go:122-136, service.go:27-43).
THEOREM OutcomesAgree == Spec => OutcomeAgreesWithStatus
<1> DEFINE Agrees ==
      StorageEnds =>
         /\ ended'.status \notin {404} \cup 200..299 => outcome' = Check(ended')
         /\ ListingBreaksOff => outcome' = "misconfigured"
         /\ outcome' = "unavailable" <=> Outage(ended') /\ ~ListingBreaksOff
<1>1. ASSUME [Next]_vars PROVE Agrees
  <2> SUFFICES ASSUME StorageEnds PROVE Agrees
    OBVIOUS
  <2>1. PICK a \in Answers : RequestFails(a)
    BY <1>1 DEF StorageEnds, Next, vars, scan, Publish, Adopt, Begin, ListPage, StatGone, Stat,
                Read, Record, CatalogFails, Die, Ends
  <2>2. /\ outcome' = OutcomeOf(RequestError(a)) /\ ended' = a /\ RequestError(a) # "none"
    BY <2>1 DEF RequestFails, Ends
  <2>3. /\ RequestError(a) \in {ListError(a), StatError(a), ReadError(a)}
        /\ pc # "listing" => RequestError(a) \in {StatError(a), ReadError(a)}
        /\ pc = "listing" => RequestError(a) = ListError(a)
    BY <2>2 DEF RequestError
  <2>4. /\ a.status \notin {404} \cup 200..299 => outcome' = Check(a)
        /\ Outage(a) => \/ outcome' = "unavailable"
                        \/ /\ a.body = "cut"
                           /\ RequestError(a) \notin {StatError(a), ReadError(a)}
        /\ outcome' = "unavailable" => Outage(a)
        /\ a.body = "cut" /\ RequestError(a) = ListError(a) => outcome' = "misconfigured"
    BY <2>2, <2>3, ErrorsAgreeWithCheck
  <2> QED  BY <2>2, <2>3, <2>4 DEF ListingBreaksOff
<1>2. [Next]_vars => [Agrees]_vars
  BY <1>1
<1> QED  BY <1>2, PTL DEF Spec, OutcomeAgreesWithStatus

\* Only a scan that has judged every accepted object records an observation.
LEMMA OnlyRecordRecords ==
    ASSUME IInv, [Next]_vars, Records
    PROVE  /\ Record /\ New = Observation /\ pc = "comparing" /\ DOMAIN verdict = Claimed(managed)
           /\ VerdictsJustified /\ HeldCovers /\ managed \subseteq Publications
           /\ \A k \in Keys : PassedOver(k)
           /\ DOMAIN listing \subseteq Keys /\ \A k \in DOMAIN verdict : verdict[k] \in Verdicts
<1>1. ~UNCHANGED records
  BY DEF Records, IInv, Shape
<1>2. Record
  BY <1>1 DEF Next, vars, Publish, Adopt, Begin, ListPage, StatGone, Stat, Read,
              RequestFails, CatalogFails, Die
<1>3. New = Observation /\ pc = "comparing" /\ todo = {}
  BY <1>2, RecordKeepsInvariant DEF New, Record
<1> QED  BY <1>2, <1>3 DEF IInv, Divided, ListingCovers, TypeOK

\* The verdicts on the objects of a managed Publication.
LEMMA VerdictsOf ==
    ASSUME VerdictsJustified, DOMAIN verdict = Claimed(managed), managed \subseteq Publications,
           NEW p \in managed, NEW k \in DOMAIN Manifest[p]
    PROVE  k \in Keys /\ k \in Claimed(managed) /\ k \in DOMAIN verdict /\ Justified(k)
BY OwnerIsUnique DEF Claimed, VerdictsJustified

LEMMA StateOfPublication ==
    ASSUME NEW p
    PROVE  /\ PublicationState(p) = "in_sync" =>
                  Found(p) # {} /\ \A k \in DOMAIN Manifest[p] : verdict[k] = "same"
           /\ PublicationState(p) = "missing" => Found(p) = {}
BY DEF PublicationState

\* However storage moves under a scan, what it says of a Publication was shown to
\* it: scanPublication and compareObject (scan.go:154-271).
THEOREM FindingsAreWitnessed == Spec => FindingsWitnessed
<1> DEFINE Witnessed ==
      Records => \A p \in managed : \A k \in DOMAIN Manifest[p] :
         /\ New.publications[p].state = "in_sync" =>
              /\ \E v \in held[k] \ {NoObject} : SameListing(v, Accepted(k))
              /\ \E v \in held[k] \ {NoObject} : SameMetadata(v, Accepted(k))
              /\ complete =>
                    \E v \in held[k] \ {NoObject} : v.body = Accepted(k).body
         /\ New.publications[p].state = "missing" => NoObject \in held[k]
<1>1. ASSUME IInv, [Next]_vars
      PROVE  Witnessed
  <2> SUFFICES ASSUME Records, NEW p \in managed, NEW k \in DOMAIN Manifest[p]
               PROVE  /\ New.publications[p].state = "in_sync" =>
                           /\ ListingWitness(k) /\ MetadataWitness(k)
                           /\ complete => BodyWitness(k)
                      /\ New.publications[p].state = "missing" => NoObject \in held[k]
    BY DEF ListingWitness, MetadataWitness, BodyWitness
  <2>1. New.publications[p].state = PublicationState(p)
    BY <1>1, OnlyRecordRecords DEF Observation
  <2>2. Justified(k)
    BY <1>1, OnlyRecordRecords, VerdictsOf
  <2>3. Found(p) = {} => verdict[k] = "absent"
    BY DEF Found
  <2> QED  BY <2>1, <2>2, <2>3, StateOfPublication DEF Justified
<1>2. IInv /\ [Next]_vars => [Witnessed]_vars
  BY <1>1
<1> QED  BY <1>2, ScanInvariant, PTL DEF Spec, FindingsWitnessed

\* The lock is off only over a bucket that is accounted for, page breaks or not
\* (scan.go:110-134, ListObjects in reader.go, observation.go:19-21).
THEOREM UnlockedBucketIsAccounted == Spec => UnlockedIsAccounted
<1> DEFINE AccountedFor ==
      Records /\ New.mutationLock = "none" =>
         \A k \in Keys :
            /\ NoObject \notin held[k] => k \in Claimed(managed)
            /\ k \in Claimed(managed) => held[k] # {NoObject}
<1>1. ASSUME IInv, [Next]_vars
      PROVE  AccountedFor
  <2> SUFFICES ASSUME Records, New.mutationLock = "none", NEW k \in Keys
               PROVE  /\ NoObject \notin held[k] => k \in Claimed(managed)
                      /\ k \in Claimed(managed) => held[k] # {NoObject}
    OBVIOUS
  <2>1. Unclaimed = {} /\ \A p \in managed : PublicationState(p) = "in_sync"
    BY <1>1, OnlyRecordRecords DEF Observation
  <2>2. NoObject \notin held[k] => k \in DOMAIN listing
    BY <1>1, OnlyRecordRecords DEF PassedOver
  <2>3. ASSUME k \in Claimed(managed)
        PROVE  held[k] # {NoObject}
    <3>1. PICK p \in managed : k \in DOMAIN Manifest[p]
      BY <2>3 DEF Claimed
    <3>2. verdict[k] = "same" /\ Justified(k)
      BY <1>1, <2>1, <3>1, StateOfPublication, OnlyRecordRecords, VerdictsOf
    <3> QED  BY <3>2 DEF Justified, ListingWitness
  <2> QED  BY <2>1, <2>2, <2>3 DEF Unclaimed
<1>2. IInv /\ [Next]_vars => [AccountedFor]_vars
  BY <1>1
<1> QED  BY <1>2, ScanInvariant, PTL DEF Spec, UnlockedIsAccounted

\* In a bucket that stands still the verdict on an object says what it holds.
LEMMA CalmVerdicts ==
    ASSUME IInv, pc = "comparing", calm, NEW k \in DOMAIN verdict
    PROVE  /\ verdict[k] = "absent" <=> storage[k] = NoObject
           /\ verdict[k] = "same" <=> SameAll(k, storage[k])
<1> USE DEF IInv
<1>1. /\ k \in Keys /\ Justified(k) /\ verdict[k] \in Verdicts /\ held[k] = {storage[k]}
  BY ClaimedAreKeys DEF TypeOK, VerdictsJustified, HeldCovers
<1>2. verdict[k] # "absent" => storage[k] # NoObject
  BY <1>1 DEF Justified, HeldCovers, Shape
<1>3. verdict[k] = "absent" => storage[k] = NoObject
  BY <1>1 DEF Justified
<1>4. verdict[k] = "same" => SameAll(k, storage[k])
  BY <1>1 DEF Justified, ListingWitness, MetadataWitness, BodyWitness, SameAll
<1>5. verdict[k] \in {"touched", "changed"} => ~SameAll(k, storage[k])
  BY <1>1 DEF Justified
<1> QED  BY <1>1, <1>2, <1>3, <1>4, <1>5 DEF Verdicts, SameAll

LEMMA ReferenceIs ==
    LET StateOf(p) ==
            IF DOMAIN Manifest[p] \cap Present(storage) = {} THEN "missing"
            ELSE IF \A k \in DOMAIN Manifest[p] : SameAll(k, storage[k]) THEN "in_sync"
            ELSE "drifted"
    IN  /\ Reference.states = [p \in managed |-> StateOf(p)]
        /\ Reference.unclaimed = Present(storage) \ Claimed(managed)
        /\ Reference.totalBytes = SizeOf(storage, Present(storage))
        /\ Reference.mutationLock =
               IF /\ Present(storage) \subseteq Claimed(managed)
                  /\ \A k \in Claimed(managed) : SameAll(k, storage[k])
               THEN "none" ELSE "global"
BY DEF Reference, SameAll

\* In a bucket that stands still the listing is what it holds.
LEMMA CalmListing ==
    ASSUME IInv, pc = "comparing", calm
    PROVE  /\ DOMAIN listing = Present(storage)
           /\ \A k \in DOMAIN listing : listing[k] = storage[k]
           /\ SizeOf(listing, DOMAIN listing) = SizeOf(storage, Present(storage))
<1> USE DEF IInv
<1>1. /\ DOMAIN listing \subseteq Keys
      /\ \A k \in DOMAIN listing : listing[k] = storage[k] /\ storage[k] # NoObject
  BY DEF TypeOK, HeldCovers, Shape
<1>2. \A k \in Keys : k \notin DOMAIN listing => storage[k] = NoObject
  BY DEF ListingCovers, PassedOver, HeldCovers
<1>3. DOMAIN listing = Present(storage)
  BY <1>1, <1>2 DEF Present
<1>4. [k \in DOMAIN listing |-> listing[k].size] = [k \in Present(storage) |-> storage[k].size]
  BY <1>1, <1>3
<1> QED  BY <1>1, <1>3, <1>4 DEF SizeOf

\* scan.go:80-83: a scan during which storage stands still records exactly the
\* classification, the usage and the lock that storage calls for.
THEOREM ExactInCalm == Spec => ExactWhenCalm
<1> DEFINE Exact ==
      Records /\ calm =>
         /\ [p \in managed |-> New.publications[p].state] = Reference.states
         /\ New.unclaimed = Reference.unclaimed
         /\ New.totalBytes = Reference.totalBytes
         /\ New.mutationLock = Reference.mutationLock
<1>1. ASSUME IInv, [Next]_vars
      PROVE  Exact
  <2> SUFFICES ASSUME Records, calm
               PROVE  /\ [p \in managed |-> New.publications[p].state] = Reference.states
                      /\ New.unclaimed = Reference.unclaimed
                      /\ New.totalBytes = Reference.totalBytes
                      /\ New.mutationLock = Reference.mutationLock
    OBVIOUS
  <2> DEFINE InSync(p) == \A k \in DOMAIN Manifest[p] : SameAll(k, storage[k])
             StateOf(p) == IF DOMAIN Manifest[p] \cap Present(storage) = {} THEN "missing"
                           ELSE IF InSync(p) THEN "in_sync" ELSE "drifted"
  <2>1. /\ New = Observation /\ pc = "comparing" /\ DOMAIN verdict = Claimed(managed)
        /\ managed \subseteq Publications /\ VerdictsJustified
    BY <1>1, OnlyRecordRecords
  <2>2. /\ DOMAIN listing = Present(storage)
        /\ SizeOf(listing, DOMAIN listing) = SizeOf(storage, Present(storage))
    BY <1>1, <2>1, CalmListing
  <2>3. \A k \in Claimed(managed) : /\ verdict[k] = "absent" <=> storage[k] = NoObject
                                    /\ verdict[k] = "same" <=> SameAll(k, storage[k])
    BY <1>1, <2>1, CalmVerdicts
  <2>4. ASSUME NEW p \in managed
        PROVE  PublicationState(p) = StateOf(p)
    <3>1. \A k \in DOMAIN Manifest[p] : k \in Keys /\ k \in Claimed(managed)
      BY <2>1, VerdictsOf
    <3>2. Found(p) = DOMAIN Manifest[p] \cap Present(storage)
      BY <2>3, <3>1 DEF Found, Present
    <3>3. (\E k \in DOMAIN Manifest[p] : verdict[k] # "same") <=> ~InSync(p)
      BY <2>3, <3>1
    <3> HIDE DEF InSync
    <3> QED  BY <3>2, <3>3 DEF PublicationState
  <2>5. [p \in managed |-> New.publications[p].state] = Reference.states
    <3>1. \A p \in managed : New.publications[p].state = PublicationState(p)
      BY <2>1 DEF Observation
    <3>2. Reference.states = [p \in managed |-> StateOf(p)]
      BY ReferenceIs
    <3> HIDE DEF StateOf
    <3> QED  BY <2>4, <3>1, <3>2
  <2>6. Unclaimed = Present(storage) \ Claimed(managed)
    BY <2>2 DEF Unclaimed
  <2>7. New.unclaimed = Reference.unclaimed /\ New.totalBytes = Reference.totalBytes
    BY <2>1, <2>2, <2>6, ReferenceIs DEF Observation
  <2>8. New.mutationLock = Reference.mutationLock
    <3>1. \A p \in managed : PublicationState(p) = "in_sync" <=> InSync(p)
      <4> SUFFICES ASSUME NEW p \in managed
                   PROVE  PublicationState(p) = "in_sync" <=> InSync(p)
        OBVIOUS
      <4>1. PICK k \in DOMAIN Manifest[p] : TRUE
        BY <2>1, ManifestAssumption
      <4>2. InSync(p) => k \in DOMAIN Manifest[p] \cap Present(storage)
        BY <2>1, <4>1, VerdictsOf DEF SameAll, Present
      <4> HIDE DEF InSync
      <4> QED  BY <2>4, <4>2
    <3>2. (\A p \in managed : InSync(p)) <=> (\A k \in Claimed(managed) : SameAll(k, storage[k]))
      BY DEF Claimed
    <3>3. Unclaimed = {} <=> Present(storage) \subseteq Claimed(managed)
      BY <2>6
    <3>4. New.mutationLock =
            IF Unclaimed # {} \/ \E p \in managed : PublicationState(p) # "in_sync"
            THEN "global" ELSE "none"
      BY <2>1 DEF Observation
    <3>5. Reference.mutationLock =
            IF /\ Present(storage) \subseteq Claimed(managed)
               /\ \A k \in Claimed(managed) : SameAll(k, storage[k])
            THEN "none" ELSE "global"
      BY ReferenceIs
    <3> HIDE DEF InSync
    <3> QED  BY <3>1, <3>2, <3>3, <3>4, <3>5
  <2> QED  BY <2>5, <2>7, <2>8
<1>2. IInv /\ [Next]_vars => [Exact]_vars
  BY <1>1
<1> QED  BY <1>2, ScanInvariant, PTL DEF Spec, ExactWhenCalm

\* The objects found of some Publications.
AllFound(pubs) == UNION {Found(p) : p \in pubs}

\* What a scan that has judged every object will record adds up.
LEMMA ObservationAddsUp ==
    ASSUME IInv, pc = "comparing", todo = {}
    PROVE  LET r == Observation
               sized == {p \in DOMAIN r.publications : r.publications[p].size # NoSize}
           IN  SizeOf(r.publications, sized) + r.unclaimedBytes <= r.totalBytes
<1> DEFINE D == DOMAIN listing
           f == [k \in D |-> listing[k].size]
           found == {p \in managed : Found(p) # {}}
           sized == {p \in DOMAIN Observation.publications :
                        Observation.publications[p].size # NoSize}
<1>1. /\ D \subseteq Keys /\ IsFiniteSet(D) /\ \A k \in D : listing[k].size \in Nat
      /\ managed \subseteq Publications /\ IsFiniteSet(found)
  <2>1. D \subseteq Keys /\ managed \subseteq Publications
    BY DEF IInv, TypeOK
  <2>2. \A k \in D : listing[k].size \in Nat
    BY <2>1, ScanAssumption DEF IInv, Shape, Contents
  <2>3. found \subseteq Publications
    BY <2>1
  <2> HIDE DEF D, found
  <2> QED  BY <2>1, <2>2, <2>3, ScanAssumption, FS_Subset
<1>2. PICK w : Sums(w, f, D)
  <2>1. f \in [D -> Nat]
    BY <1>1
  <2> HIDE DEF f, D
  <2> QED  BY <1>1, <2>1, SumsExist
<1>3. ASSUME NEW A \in SUBSET D
      PROVE  SizeOf(listing, A) = w[A] /\ w[A] \in Nat
  <2> DEFINE part == [k \in A |-> listing[k].size]
             v == [s \in SUBSET A |-> w[s]]
  <2>1. part \in [A -> Nat] /\ IsFiniteSet(A)
    BY <1>1, FS_Subset
  <2>2. \A k \in A : part[k] = f[k]
    OBVIOUS
  <2>3. Sums(v, part, A)
    <3> HIDE DEF part, f, D
    <3> QED  BY <1>2, <2>2 DEF Sums
  <2>4. SumFunction(part) = v[A]
    <3> HIDE DEF part, v
    <3> QED  BY <2>1, <2>3, SumIs
  <2> QED  BY <1>2, <2>4 DEF SizeOf, Sums
<1>4. ASSUME NEW p \in managed
      PROVE  Found(p) \subseteq D /\ Found(p) \subseteq DOMAIN Manifest[p]
  <2>1. DOMAIN verdict = Claimed(managed) /\ VerdictsJustified
    BY DEF IInv, Divided
  <2> QED  BY <1>1, <2>1, VerdictsOf DEF Found, Justified
<1>5. \A p, q \in managed : p # q => Found(p) \cap Found(q) = {}
  BY <1>1, <1>4, ManifestAssumption
<1>6. \A p \in managed : Observation.publications[p].size =
                             IF Found(p) = {} THEN NoSize ELSE w[Found(p)]
  <2>1. \A p \in managed : Observation.publications[p].size = ObservedSize(p)
    BY DEF Observation
  <2> HIDE DEF D
  <2> QED  BY <2>1, <1>3, <1>4 DEF ObservedSize
<1>7. sized = found
  <2>1. DOMAIN Observation.publications = managed
    BY DEF Observation
  <2>2. \A p \in managed : Found(p) # {} => w[Found(p)] # NoSize
    <3> HIDE DEF D
    <3> QED  BY <1>3, <1>4, ScanAssumption
  <2> QED  BY <1>6, <2>1, <2>2
<1>8. ASSUME NEW Q \in SUBSET managed
      PROVE  AllFound(Q) \in SUBSET D /\ AllFound(Q) \subseteq Claimed(managed)
  <2>1. \A p \in Q : Found(p) \subseteq D /\ Found(p) \subseteq Claimed(managed)
    BY <1>4 DEF Claimed
  <2> QED  BY <2>1 DEF AllFound
<1>9. SizeOf(Observation.publications, sized) = w[AllFound(found)]
  <2> DEFINE each == [p \in found |-> Observation.publications[p].size]
             h == [Q \in SUBSET found |-> w[AllFound(Q)]]
  <2>1. \A p \in found : each[p] = w[Found(p)]
    BY <1>6
  <2>2. each \in [found -> Nat]
    <3>1. \A p \in found : w[Found(p)] \in Nat
      <4> HIDE DEF D
      <4> QED  BY <1>3, <1>4
    <3> HIDE DEF found
    <3> QED  BY <2>1, <3>1
  <2>3. h \in [SUBSET found -> Nat] /\ h[{}] = 0
    <3>1. ASSUME NEW Q \in SUBSET found PROVE w[AllFound(Q)] \in Nat
      <4>1. Q \in SUBSET managed
        OBVIOUS
      <4> HIDE DEF D, found
      <4> QED  BY <4>1, <1>3, <1>8
    <3>2. AllFound({}) = {} /\ w[{}] = 0
      BY <1>2 DEF AllFound, Sums
    <3> HIDE DEF found
    <3> QED  BY <3>1, <3>2
  <2>4. ASSUME NEW Q \in SUBSET found, NEW p \in Q
        PROVE  h[Q] = each[p] + h[Q \ {p}]
    <3>1. Q \in SUBSET managed /\ Q \ {p} \in SUBSET managed /\ p \in managed /\ p \in found
      OBVIOUS
    <3>2. AllFound(Q) = Found(p) \cup AllFound(Q \ {p})
      BY DEF AllFound
    <3>3. Found(p) \cap AllFound(Q \ {p}) = {}
      BY <1>5, <3>1 DEF AllFound
    <3>4. Found(p) \in SUBSET D /\ AllFound(Q \ {p}) \in SUBSET D
      BY <1>4, <1>8, <3>1
    <3>5. w[AllFound(Q)] = w[Found(p)] + w[AllFound(Q \ {p})]
      <4>1. f \in [D -> Nat]
        BY <1>1
      <4> DEFINE one == Found(p)
                 others == AllFound(Q \ {p})
      <4> HIDE DEF f, D, one, others
      <4>2. w[one \cup others] = w[one] + w[others]
        <5>1. one \in SUBSET D /\ others \in SUBSET D /\ one \cap others = {}
          BY <3>3, <3>4 DEF one, others
        <5> QED  BY <1>1, <1>2, <4>1, <5>1, SumsAddUp
      <4> QED  BY <4>2, <3>2 DEF one, others
    <3>6. h[Q] = w[AllFound(Q)] /\ h[Q \ {p}] = w[AllFound(Q \ {p})]
      OBVIOUS
    <3> HIDE DEF h, each, found
    <3> QED  BY <2>1, <3>1, <3>5, <3>6
  <2>5. Sums(h, each, found)
    <3> HIDE DEF h, each, found
    <3> QED  BY <2>3, <2>4 DEF Sums
  <2>6. SumFunction(each) = h[found]
    <3> HIDE DEF h, each, found
    <3> QED  BY <1>1, <2>2, <2>5, SumIs
  <2>7. SizeOf(Observation.publications, found) = SumFunction(each)
    BY DEF SizeOf
  <2> HIDE DEF sized, each, found
  <2> QED  BY <1>7, <2>6, <2>7
<1>10. /\ Observation.unclaimedBytes = w[Unclaimed] /\ w[Unclaimed] \in Nat
       /\ Observation.totalBytes = w[D] /\ Unclaimed \in SUBSET D
  <2>1. Unclaimed \in SUBSET D
    BY DEF Unclaimed
  <2>2. /\ Observation.unclaimedBytes = SizeOf(listing, Unclaimed)
        /\ Observation.totalBytes = SizeOf(listing, DOMAIN listing)
    BY DEF Observation
  <2> QED  BY <1>3, <2>1, <2>2
<1>11. w[AllFound(found)] + w[Unclaimed] <= w[D]
  <2> DEFINE claimed == AllFound(found)
             both == claimed \cup Unclaimed
             rest == D \ both
  <2>1. claimed \in SUBSET D /\ claimed \cap Unclaimed = {}
    <3>1. found \in SUBSET managed
      OBVIOUS
    <3> HIDE DEF found
    <3> QED  BY <1>8, <3>1 DEF Unclaimed
  <2>2. both \in SUBSET D /\ rest \in SUBSET D /\ both \cap rest = {} /\ D = both \cup rest
    BY <1>10, <2>1
  <2>3. f \in [D -> Nat]
    BY <1>1
  <2> HIDE DEF D, f, claimed, rest
  <2>4. w[both] = w[claimed] + w[Unclaimed]
    BY <1>1, <1>2, <1>10, <2>1, <2>3, SumsAddUp
  <2> HIDE DEF both
  <2>5. w[D] = w[both] + w[rest]
    BY <1>1, <1>2, <2>2, <2>3, SumsAddUp
  <2>6. w[claimed] \in Nat /\ w[Unclaimed] \in Nat /\ w[rest] \in Nat
    BY <1>3, <1>10, <2>1, <2>2
  <2>7. w[claimed] + w[Unclaimed] <= w[D]
    BY <2>4, <2>5, <2>6
  <2> QED  BY <2>7 DEF claimed
<1> HIDE DEF D, found
<1> QED  BY <1>9, <1>10, <1>11

\* Nothing but a new observation changes what the catalog has on usage.
LEMMA UsageStays ==
    ASSUME IInv, UsageAddsUp, [Next]_vars
    PROVE  UsageAddsUp'
<1> DEFINE AddsUp(r) ==
        LET sized == {p \in DOMAIN r.publications : r.publications[p].size # NoSize}
        IN  SizeOf(r.publications, sized) + r.unclaimedBytes <= r.totalBytes
<1>1. CASE UNCHANGED records
  BY <1>1 DEF UsageAddsUp, SizeOf
<1>2. CASE ~UNCHANGED records
  <2>1. Record
    BY <1>2 DEF Next, vars, Publish, Adopt, Begin, ListPage, StatGone, Stat, Read,
                RequestFails, CatalogFails, Die
  <2>2. pc = "comparing" /\ todo = {} /\ records' = Append(records, Observation)
    BY <2>1 DEF Record
  <2>3. AddsUp(Observation)
    BY <2>2, ObservationAddsUp
  <2>4. PICK X : records \in Seq(X)
    BY DEF IInv, Shape
  <2>5. \A i \in DOMAIN records : AddsUp(records[i])
    BY DEF UsageAddsUp
  <2> HIDE DEF AddsUp
  <2>6. \A i \in DOMAIN records' : (i \in DOMAIN records /\ records'[i] = records[i])
                                   \/ records'[i] = Observation
    BY <2>2, <2>4
  <2>7. \A i \in DOMAIN records' : AddsUp(records'[i])
    BY <2>3, <2>5, <2>6
  <2> QED  BY <2>7 DEF UsageAddsUp, AddsUp
<1> QED  BY <1>1, <1>2

\* In every observation on record, the listed bytes of what the Publications were
\* found to hold and of what nobody claims are no more than the bucket's total:
\* no object is counted twice (scan.go:110-134, 154-196).
THEOREM UsageAlwaysAddsUp == Spec => []UsageAddsUp
<1>1. Init => UsageAddsUp
  BY DEF Init, UsageAddsUp
<1>2. IInv /\ UsageAddsUp /\ [Next]_vars => UsageAddsUp'
  BY UsageStays
<1> QED  BY <1>1, <1>2, ScanInvariant, PTL DEF Spec

=============================================================================
