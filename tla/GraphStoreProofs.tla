---------------------------- MODULE GraphStoreProofs ----------------------------
(***************************************************************************)
(* Proofs about the two stores of the code graph, and the gates' scan.     *)
(*                                                                         *)
(* CodeGraph, the graph in memory: for any parse of any number of files,   *)
(* any queries and ranks, any limits and any sequence of writes, deletions *)
(* and refreshes, the answers of its indexes are those of a scan, a        *)
(* refreshed graph is the one a cold run builds, the tools agree about who *)
(* calls what, nothing that failed to extract is left unsaid, and the      *)
(* pages of an answer are of one graph.                                    *)
(*                                                                         *)
(* QualityGates, what is asked of a working tree: for any change, baseline,*)
(* limit and recorded test runs, a scan of risks that lists no gap missed  *)
(* no call, calls no plan passed that is not, and its missions do not      *)
(* clash.                                                                  *)
(*                                                                         *)
(* GenerationStore, its generations on disk: for any processes,            *)
(* generations, contents and number of failures, types, mutual exclusion   *)
(* of writers, CURRENT always resolving to a complete, durable generation, *)
(* and the refinement of PublishedGenerations.                             *)
(***************************************************************************)
EXTENDS GenerationStore, CodeGraph, QualityGates, FiniteSetTheorems, WellFoundedInduction, TLAPS

-----------------------------------------------------------------------------
(* Numbers, runs, orders and listings.                                     *)

(* A set with 0 and the successor of each of its numbers has all numbers.  *)
LEMMA EveryNumber ==
  ASSUME NEW T, 0 \in T, \A k \in Nat : k \in T => k + 1 \in T
  PROVE  Nat \subseteq T
<1> DEFINE rest == Nat \ T
           R == {ss \in Nat \X Nat : ss[1] < ss[2]}
<1> SUFFICES ASSUME rest # {} PROVE FALSE
  OBVIOUS
<1>1. IsWellFoundedOn(R, Nat)
  BY NatLessThanWellFounded DEF OpToRel
<1>2. PICK m \in rest : \A k \in rest : ~(<<k, m>> \in R)
  <2> HIDE DEF rest, R
  <2>1. rest \subseteq Nat
    BY DEF rest
  <2> QED
    BY ONLY <1>1, <2>1, rest # {}, WFMin
<1>3. m \in Nat /\ m # 0 /\ m - 1 \in Nat /\ <<m - 1, m>> \in R
  OBVIOUS
<1>4. m - 1 \in T
  BY <1>2, <1>3
<1>5. m \in T
  BY <1>3, <1>4
<1> QED
  BY <1>5

(* The same as far as n, and of what is stepped through from 0.            *)
LEMMA UpTo ==
  ASSUME NEW n \in Nat, NEW T, 0 \in T, \A k \in 1 .. n : k - 1 \in T => k \in T
  PROVE  0 .. n \subseteq T
<1> DEFINE all == T \cup {k \in Nat : k > n}
<1>1. \A k \in Nat : k \in all => k + 1 \in all
  OBVIOUS
<1>2. Nat \subseteq all
  <2>1. 0 \in all
    OBVIOUS
  <2> HIDE DEF all
  <2> QED
    BY ONLY <1>1, <2>1, EveryNumber
<1> QED
  BY <1>2

(* What starts in A and goes on in A by steps is a function.               *)
IsRun(f, A, a, n, step) ==
  /\ f \in [0 .. n -> A]
  /\ \A k \in 0 .. n : f[k] = IF k = 0 THEN a ELSE step[<<f[k - 1], k>>]

(* There is such a function for every start and step.                      *)
LEMMA RunExists ==
  ASSUME NEW A, NEW a \in A, NEW n \in Nat, NEW step \in [A \X (1 .. n) -> A]
  PROVE  \E f : IsRun(f, A, a, n, step)
<1> DEFINE Is(f, m) == \A k \in 0 .. m : f[k] = IF k = 0 THEN a ELSE step[<<f[k - 1], k>>]
           T == {m \in 0 .. n : \E f \in [0 .. m -> A] : Is(f, m)}
<1>1. 0 \in T
  <2> DEFINE f == [k \in 0 .. 0 |-> a]
  <2>1. f \in [0 .. 0 -> A] /\ Is(f, 0)
    OBVIOUS
  <2> HIDE DEF f, Is
  <2> QED
    BY <2>1
<1>2. ASSUME NEW m \in 1 .. n, m - 1 \in T
      PROVE  m \in T
  <2>1. PICK f \in [0 .. m - 1 -> A] : Is(f, m - 1)
    BY <1>2
  <2> DEFINE next == step[<<f[m - 1], m>>]
             g == [k \in 0 .. m |-> IF k = m THEN next ELSE f[k]]
  <2>2. f[m - 1] \in A /\ next \in A
    OBVIOUS
  <2> HIDE DEF next
  <2>3. g \in [0 .. m -> A]
    BY <2>2
  <2>4. ASSUME NEW k \in 0 .. m
        PROVE  g[k] = IF k = 0 THEN a ELSE step[<<g[k - 1], k>>]
    <3>1. CASE k = m
      <4>1. k # 0 /\ g[k - 1] = f[m - 1] /\ g[k] = next
        BY <3>1
      <4> QED
        BY <3>1, <4>1 DEF next
    <3>2. CASE k # m
      <4>1. k \in 0 .. m - 1 /\ g[k] = f[k] /\ (k # 0 => g[k - 1] = f[k - 1])
        BY <3>2
      <4>2. f[k] = IF k = 0 THEN a ELSE step[<<f[k - 1], k>>]
        BY <2>1, <4>1
      <4> QED
        BY <4>1, <4>2
    <3> QED
      BY <3>1, <3>2
  <2>5. Is(g, m)
    <3> HIDE DEF g
    <3> QED
      BY <2>4
  <2> HIDE DEF g, Is
  <2>6. \E h \in [0 .. m -> A] : Is(h, m)
    BY ONLY <2>3, <2>5
  <2> QED
    BY <2>6
<1>3. n \in T
  <2> HIDE DEF T
  <2>1. 0 .. n \subseteq T
    BY ONLY <1>1, <1>2, n \in Nat, UpTo
  <2> QED
    BY <2>1
<1> QED
  BY <1>3 DEF IsRun

(* below says of each element of S what comes before it: an order of S.    *)
IsOrder(below, S) ==
  /\ below \in [S -> SUBSET S]
  /\ \A x \in S : x \notin below[x]
  /\ \A x, y \in S : x # y => x \in below[y] \/ y \in below[x]
  /\ \A x, y \in S : y \in below[x] => below[y] \subseteq below[x]

(* For every place there is an element that so many come before.           *)
LEMMA PlacesAreTaken ==
  ASSUME NEW S, IsFiniteSet(S), NEW below, IsOrder(below, S)
  PROVE  /\ Cardinality(S) \in Nat
         /\ \A n \in 1 .. Cardinality(S) : \E x \in S : Cardinality(below[x]) = n - 1
<1> DEFINE N == Cardinality(S)
           rank == [x \in S |-> Cardinality(below[x])]
<1>1. N \in Nat
  BY FS_CardinalityType
<1>2. ASSUME NEW x \in S
      PROVE  IsFiniteSet(below[x]) /\ rank[x] \in 0 .. N - 1
  <2>1. below[x] \in SUBSET S /\ x \notin below[x]
    BY DEF IsOrder
  <2>2. IsFiniteSet(below[x]) /\ Cardinality(below[x]) <= N /\ (Cardinality(below[x]) = N => S = below[x])
    BY <2>1, FS_Subset
  <2>3. Cardinality(below[x]) \in Nat
    BY <2>2, FS_CardinalityType
  <2> QED
    BY <1>1, <2>1, <2>2, <2>3
<1>3. ASSUME NEW x \in S, NEW y \in S, y \in below[x]
      PROVE  rank[x] # rank[y]
  <2>1. below[y] \in SUBSET below[x] /\ y \notin below[y]
    BY <1>3 DEF IsOrder
  <2>2. Cardinality(below[y]) = Cardinality(below[x]) => below[x] = below[y]
    BY <1>2, <2>1, FS_Subset
  <2> QED
    BY <1>3, <2>1, <2>2
<1>4. rank \in Injection(S, 0 .. N - 1)
  <2>1. \A x, y \in S : rank[x] = rank[y] => x = y
    BY <1>3 DEF IsOrder
  <2>2. rank \in [S -> 0 .. N - 1]
    BY <1>2
  <2> HIDE DEF rank
  <2> QED
    BY <2>1, <2>2 DEF Injection, IsInjective
<1>5. IsFiniteSet(0 .. N - 1) /\ Cardinality(0 .. N - 1) = N
  BY <1>1, FS_Interval
<1>6. rank \in Surjection(S, 0 .. N - 1)
  <2> HIDE DEF rank
  <2> QED
    BY <1>4, <1>5, FS_Injection
<1>7. ASSUME NEW n \in 1 .. N
      PROVE  \E x \in S : Cardinality(below[x]) = n - 1
  <2>1. n - 1 \in 0 .. N - 1
    BY <1>1
  <2>2. \E x \in S : rank[x] = n - 1
    <3> HIDE DEF rank
    <3> QED
      BY <1>6, <2>1 DEF Surjection
  <2> QED
    BY <2>2
<1> QED
  BY <1>1, <1>7

(* The elements of S, each at the place that follows those before it.      *)
IsListing(f, S, below) ==
  f = [n \in 1 .. Cardinality(S) |->
         (CHOOSE p \in {<<Cardinality(below[x]) + 1, x>> : x \in S} : p[1] = n)[2]]

(* That lists the elements of S, all of them.                              *)
LEMMA ListingListsAll ==
  ASSUME NEW S, IsFiniteSet(S), NEW below, IsOrder(below, S), NEW f, IsListing(f, S, below)
  PROVE  /\ f \in Seq(S) /\ Len(f) = Cardinality(S) /\ Len(f) \in Nat
         /\ \A n \in 1 .. Len(f) : f[n] \in S /\ Cardinality(below[f[n]]) = n - 1
         /\ ToSet(f) = S
<1> DEFINE N == Cardinality(S)
           placed == {<<Cardinality(below[x]) + 1, x>> : x \in S}
<1>1. N \in Nat
  BY PlacesAreTaken
<1>2. \A x \in S : Cardinality(below[x]) \in Nat /\ Cardinality(below[x]) < N
  <2> TAKE x \in S
  <2>1. below[x] \in SUBSET S /\ x \notin below[x]
    BY DEF IsOrder
  <2>2. IsFiniteSet(below[x]) /\ Cardinality(below[x]) <= N /\ (Cardinality(below[x]) = N => S = below[x])
    BY <2>1, FS_Subset
  <2>3. Cardinality(below[x]) \in Nat
    BY <2>2, FS_CardinalityType
  <2> QED
    BY <1>1, <2>1, <2>2, <2>3
<1>3. ASSUME NEW n \in 1 .. N
      PROVE  f[n] \in S /\ Cardinality(below[f[n]]) = n - 1
  <2>1. PICK x \in S : Cardinality(below[x]) = n - 1
    BY PlacesAreTaken
  <2>2. <<Cardinality(below[x]) + 1, x>> \in placed /\ Cardinality(below[x]) + 1 = n
    BY <1>1, <2>1
  <2>3. \E p \in placed : p[1] = n
    BY <2>2
  <2> DEFINE p == CHOOSE p \in placed : p[1] = n
  <2>4. p \in placed /\ p[1] = n
    BY <2>3
  <2>5. f[n] = p[2]
    BY DEF IsListing
  <2> HIDE DEF p
  <2>6. PICK y \in S : p = <<Cardinality(below[y]) + 1, y>>
    BY <2>4
  <2> QED
    BY <1>2, <2>4, <2>5, <2>6
<1>4. f \in [1 .. N -> S]
  BY <1>3 DEF IsListing
<1>5. f \in Seq(S) /\ Len(f) = N
  BY <1>1, <1>4
<1>6. ASSUME NEW x \in S
      PROVE  \E n \in 1 .. N : f[n] = x
  <2> DEFINE n == Cardinality(below[x]) + 1
  <2>1. n \in 1 .. N /\ n - 1 = Cardinality(below[x])
    BY <1>1, <1>2
  <2>2. f[n] \in S /\ Cardinality(below[f[n]]) = Cardinality(below[x])
    BY <1>3, <2>1
  <2>3. f[n] = x
    <3> HIDE DEF n
    <3> DEFINE y == f[n]
    <3>1. y \in S /\ Cardinality(below[y]) = Cardinality(below[x])
      BY <2>2
    <3> HIDE DEF y
    <3> SUFFICES ASSUME y # x PROVE FALSE
      BY DEF y
    <3>2. ASSUME NEW u \in S, NEW v \in S, u \in below[v], Cardinality(below[u]) = Cardinality(below[v])
          PROVE  FALSE
      <4>1. below[u] \in SUBSET below[v] /\ u \notin below[u] /\ below[v] \in SUBSET S
        BY <3>2 DEF IsOrder
      <4>2. IsFiniteSet(below[v])
        BY <4>1, FS_Subset
      <4>3. below[u] = below[v]
        BY <3>2, <4>1, <4>2, FS_Subset
      <4> QED
        BY <3>2, <4>1, <4>3
    <3>3. y \in below[x] \/ x \in below[y]
      BY <3>1 DEF IsOrder
    <3> QED
      BY <3>1, <3>2, <3>3
  <2> QED
    BY <2>1, <2>3
<1>7. DOMAIN f = 1 .. N
  BY <1>4
<1>8. ToSet(f) = S
  BY <1>3, <1>6, <1>7 DEF ToSet
<1> QED
  BY <1>1, <1>3, <1>5, <1>8

(* The values of a function on a finite set are finitely many.             *)
LEMMA ImageIsFinite ==
  ASSUME NEW S, IsFiniteSet(S), NEW f
  PROVE  IsFiniteSet({f[x] : x \in S})
<1>1. [x \in S |-> f[x]] \in Surjection(S, {f[x] : x \in S})
  BY DEF Surjection
<1> QED
  BY <1>1, FS_Surjection

(* Of a set of numbers one is the least.                                   *)
LEMMA LeastExists ==
  ASSUME NEW S \in SUBSET Nat, S # {}
  PROVE  \E k \in S : \A l \in S : k <= l
<1> DEFINE R == {ss \in Nat \X Nat : ss[1] < ss[2]}
<1>1. IsWellFoundedOn(R, Nat)
  BY NatLessThanWellFounded DEF OpToRel
<1>2. PICK k \in S : \A l \in S : ~(<<l, k>> \in R)
  <2> HIDE DEF R
  <2> QED
    BY ONLY <1>1, S \subseteq Nat, S # {}, WFMin
<1>3. ASSUME NEW l \in S  PROVE k <= l
  <2>1. k \in Nat /\ l \in Nat
    OBVIOUS
  <2>2. ~(<<l, k>> \in R)
    BY <1>2
  <2>3. ~(l < k)
    BY <2>1, <2>2
  <2> QED
    BY <2>1, <2>3
<1> QED
  BY <1>3

-----------------------------------------------------------------------------
(* Documents *)

Hashes == [Paths -> Texts]

(* What extraction finds in the files of these texts, and in any of them.  *)
Facts(hashes) == UNION {ToSet(Documents(p, hashes[p])) : p \in Paths}
AllFacts == UNION {ToSet(Documents(q[1], q[2])) : q \in Paths \X Texts}

(* The documents of a file are facts of it, finitely many, each known by   *)
(* its number.                                                             *)
LEMMA DocumentsAreFacts ==
  ASSUME NEW p \in Paths, NEW t \in Texts
  PROVE  /\ Documents(p, t) \in Seq(AllFacts)
         /\ IsFiniteSet(ToSet(Documents(p, t)))
         /\ \A d \in ToSet(Documents(p, t)) : d.path = p
         /\ \A d, e \in ToSet(Documents(p, t)) : d.id = e.id => d = e
<1>1. CASE t = Nothing
  <2>1. Documents(p, t) = <<>>
    BY <1>1 DEF Documents
  <2>2. ToSet(Documents(p, t)) = {}
    BY <2>1 DEF ToSet
  <2>3. IsFiniteSet({}) /\ <<>> \in Seq(AllFacts)
    BY FS_EmptySet
  <2> HIDE DEF ToSet
  <2> QED
    BY ONLY <2>1, <2>2, <2>3
<1>2. CASE t # Nothing
  <2> DEFINE items == Parse[t]
  <2>1. t \in DOMAIN Parse
    BY <1>2 DEF Texts
  <2>2. Len(items) \in Nat /\ DOMAIN items = 1 .. Len(items)
    BY <2>1, ParseAssumption
  <2>3. Documents(p, t) = [i \in 1 .. Len(items) |-> InFile(p, items[i])]
    BY <1>2, <2>2 DEF Documents
  <2>4. ToSet(Documents(p, t)) = {InFile(p, items[i]) : i \in 1 .. Len(items)}
    BY <2>3 DEF ToSet
  <2>5. ToSet(Documents(p, t)) \subseteq AllFacts
    <3>1. <<p, t>> \in Paths \X Texts
      OBVIOUS
    <3>2. ToSet(Documents(<<p, t>>[1], <<p, t>>[2])) \subseteq AllFacts
      BY <3>1 DEF AllFacts
    <3> QED
      BY <3>2
  <2>6. Documents(p, t) \in Seq(AllFacts)
    <3> HIDE DEF items
    <3>1. \A i \in 1 .. Len(items) : InFile(p, items[i]) \in AllFacts
      BY <2>4, <2>5
    <3> QED
      BY <2>2, <2>3, <3>1
  <2>7. IsFiniteSet(ToSet(Documents(p, t)))
    <3>1. IsFiniteSet(1 .. Len(items))
      BY <2>2, FS_Interval
    <3> DEFINE f == [i \in 1 .. Len(items) |-> InFile(p, items[i])]
    <3>2. {f[i] : i \in 1 .. Len(items)} = ToSet(Documents(p, t))
      BY <2>4
    <3> HIDE DEF f
    <3> QED
      BY <3>1, <3>2, ImageIsFinite
  <2>8. ASSUME NEW i \in 1 .. Len(items)
        PROVE  InFile(p, items[i]).path = p /\ InFile(p, items[i]).id = items[i].id
    <3>1. "id" \in DOMAIN items[i]
      BY <2>1, <2>2, ParseAssumption
    <3> QED
      BY <3>1 DEF InFile
  <2>9. \A i, j \in 1 .. Len(items) : items[i].id = items[j].id => items[i] = items[j]
    BY <2>1, <2>2, ParseAssumption
  <2>10. ASSUME NEW d \in ToSet(Documents(p, t)), NEW e \in ToSet(Documents(p, t)), d.id = e.id
         PROVE  d = e
    <3> HIDE DEF items
    <3>1. PICK i \in 1 .. Len(items) : d = InFile(p, items[i])
      BY <2>4
    <3>2. PICK j \in 1 .. Len(items) : e = InFile(p, items[j])
      BY <2>4
    <3> QED
      BY <2>8, <2>9, <2>10, <3>1, <3>2
  <2>11. ASSUME NEW d \in ToSet(Documents(p, t))
         PROVE  d.path = p
    <3> HIDE DEF items
    <3> QED
      BY <2>4, <2>8
  <2> QED
    BY <2>6, <2>7, <2>10, <2>11
<1> QED
  BY <1>1, <1>2

(* What is found has its place, its number and what an assumption says of  *)
(* the text it is of.                                                      *)
LEMMA FactsHaveTheirKind ==
  ASSUME NEW d \in AllFacts
  PROVE  /\ d.path \in Paths /\ d.span \in Nat \X Nat /\ d.id \in Nat /\ d.from \in Paths
         /\ d.kind = "SYNTAX" => \A query \in Queries : Rank[query][d.name] \in Nat \cup {Nothing}
<1>1. PICK q \in Paths \X Texts : d \in ToSet(Documents(q[1], q[2]))
  BY DEF AllFacts
<1> DEFINE p == q[1]
           t == q[2]
<1>2. p \in Paths /\ t \in Texts /\ d \in ToSet(Documents(p, t))
  BY <1>1
<1> HIDE DEF p, t
<1>3. t # Nothing
  <2> SUFFICES ASSUME t = Nothing PROVE FALSE
    OBVIOUS
  <2>1. Documents(p, t) = <<>>
    BY DEF Documents
  <2>2. ToSet(Documents(p, t)) = {}
    BY <2>1 DEF ToSet
  <2> QED
    BY <1>2, <2>2
<1>4. t \in DOMAIN Parse
  BY <1>2, <1>3 DEF Texts
<1> DEFINE items == Parse[t]
<1>5. PICK i \in DOMAIN items : d = InFile(p, items[i])
  BY <1>2, <1>3 DEF Documents, ToSet
<1> DEFINE item == items[i]
<1>6. /\ {"kind", "name", "span", "id", "from"} \subseteq DOMAIN item
      /\ item.span \in Nat \X Nat /\ item.id \in Nat
  BY <1>4, <1>5, ParseAssumption
<1>7. /\ item.from \in Paths
      /\ item.kind = "SYNTAX" => \A query \in Queries : Rank[query][item.name] \in Nat \cup {Nothing}
  BY <1>4, <1>5, GraphAssumption
<1> HIDE DEF item
<1>8. d = InFile(p, item)
  BY <1>5 DEF item
<1>9. /\ d.path = p /\ d.kind = item.kind /\ d.name = item.name /\ d.span = item.span
      /\ d.id = item.id /\ d.from = item.from
  BY <1>6, <1>8 DEF InFile
<1> QED
  BY <1>2, <1>6, <1>7, <1>9

(* The files are finitely many.                                            *)
LEMMA PathsAreFinite ==
  IsFiniteSet(Paths) /\ PathCount \in Nat /\ Paths \subseteq Nat
<1>1. PathCount \in Nat
  BY GraphAssumption
<1> QED
  BY <1>1, FS_Interval DEF Paths

(* The facts of some texts are finitely many; each is of its file's text,  *)
(* and its node is its own.                                                *)
LEMMA FactsAreOfTheirText ==
  ASSUME NEW hashes \in Hashes
  PROVE  /\ IsFiniteSet(Facts(hashes)) /\ Facts(hashes) \subseteq AllFacts
         /\ \A d \in Facts(hashes) : d.path \in Paths /\ d \in ToSet(Documents(d.path, hashes[d.path]))
         /\ \A d, e \in Facts(hashes) : Node(d) = Node(e) => d = e
<1> DEFINE of == [p \in Paths |-> ToSet(Documents(p, hashes[p]))]
<1>1. \A p \in Paths : hashes[p] \in Texts
  BY DEF Hashes
<1>2. Facts(hashes) = UNION {of[p] : p \in Paths}
  BY DEF Facts
<1>3. \A p \in Paths : IsFiniteSet(of[p])
  BY <1>1, DocumentsAreFacts
<1>4. IsFiniteSet(Facts(hashes))
  <2> HIDE DEF of
  <2>1. IsFiniteSet({of[p] : p \in Paths})
    BY PathsAreFinite, ImageIsFinite
  <2>2. \A S \in {of[p] : p \in Paths} : IsFiniteSet(S)
    BY <1>3
  <2> QED
    BY <1>2, <2>1, <2>2, FS_UNION
<1>5. ASSUME NEW d \in Facts(hashes)
      PROVE  d \in AllFacts /\ d.path \in Paths /\ d \in ToSet(Documents(d.path, hashes[d.path]))
  <2>1. PICK p \in Paths : d \in ToSet(Documents(p, hashes[p]))
    BY DEF Facts
  <2>2. d.path = p /\ hashes[p] \in Texts
    BY <1>1, <2>1, DocumentsAreFacts
  <2>3. <<p, hashes[p]>> \in Paths \X Texts
    BY <2>2
  <2>4. d \in AllFacts
    <3>1. d \in ToSet(Documents(<<p, hashes[p]>>[1], <<p, hashes[p]>>[2]))
      BY <2>1
    <3> QED
      BY <2>3, <3>1 DEF AllFacts
  <2> QED
    BY <2>1, <2>2, <2>4
<1>6. ASSUME NEW d \in Facts(hashes), NEW e \in Facts(hashes), Node(d) = Node(e)
      PROVE  d = e
  <2>1. d.path = e.path /\ d.id = e.id
    BY <1>6 DEF Node
  <2>2. /\ d \in ToSet(Documents(d.path, hashes[d.path])) /\ e \in ToSet(Documents(d.path, hashes[d.path]))
        /\ d.path \in Paths /\ hashes[d.path] \in Texts
    BY <1>1, <1>5, <2>1
  <2> QED
    BY <2>1, <2>2, DocumentsAreFacts
<1> QED
  BY <1>4, <1>5, <1>6

-----------------------------------------------------------------------------
(* Sorting *)

(* Facts sorted by path, place and number are the facts, all of them.      *)
LEMMA SortedFacts ==
  ASSUME NEW S \in SUBSET AllFacts, IsFiniteSet(S), \A d, e \in S : Node(d) = Node(e) => d = e
  PROVE  /\ InOrder(S, Earlier) \in Seq(S) /\ Len(InOrder(S, Earlier)) = Cardinality(S)
         /\ Len(InOrder(S, Earlier)) \in Nat
         /\ ToSet(InOrder(S, Earlier)) = S
<1> DEFINE below == [x \in S |-> {y \in S : Earlier(y, x)}]
           f == InOrder(S, Earlier)
<1>1. \A d \in S : d.path \in Nat /\ d.span[1] \in Nat /\ d.id \in Nat
  BY FactsHaveTheirKind, PathsAreFinite
<1>2. \A x \in S : ~Earlier(x, x)
  BY <1>1 DEF Earlier
<1>3. \A x, y \in S : x # y => Earlier(x, y) \/ Earlier(y, x)
  BY <1>1 DEF Earlier, Node
<1>4. \A x, y, z \in S : Earlier(x, y) /\ Earlier(y, z) => Earlier(x, z)
  BY <1>1 DEF Earlier
<1>5. IsOrder(below, S)
  <2> HIDE DEF Earlier
  <2> QED
    BY <1>2, <1>3, <1>4 DEF IsOrder
<1>6. IsListing(f, S, below)
  <2> DEFINE placed == {<<Cardinality({y \in S : Earlier(y, x)}) + 1, x>> : x \in S}
  <2>1. f = [k \in 1 .. Cardinality(S) |-> (CHOOSE p \in placed : p[1] = k)[2]]
    BY DEF InOrder
  <2>2. placed = {<<Cardinality(below[x]) + 1, x>> : x \in S}
    OBVIOUS
  <2> HIDE DEF below, placed, f
  <2> QED
    BY <2>1, <2>2 DEF IsListing
<1> HIDE DEF below
<1> QED
  BY <1>5, <1>6, ListingListsAll

(* Numbers in their order.                                                 *)
LEMMA SortedNumbers ==
  ASSUME NEW S \in SUBSET Nat, IsFiniteSet(S)
  PROVE  /\ InOrder(S, <) \in Seq(S) /\ Len(InOrder(S, <)) \in Nat
         /\ ToSet(InOrder(S, <)) = S
<1> DEFINE below == [x \in S |-> {y \in S : y < x}]
           f == InOrder(S, <)
<1>1. IsOrder(below, S)
  <2>1. S \subseteq Nat
    OBVIOUS
  <2>2. below \in [S -> SUBSET S]
    OBVIOUS
  <2>3. \A x \in S : x \notin below[x]
    BY <2>1
  <2>4. \A x, y \in S : x # y => x \in below[y] \/ y \in below[x]
    BY <2>1
  <2>5. \A x, y \in S : y \in below[x] => below[y] \subseteq below[x]
    <3>1. \A x, y, z \in S : z < y /\ y < x => z < x
      BY <2>1
    <3> QED
      BY <3>1
  <2> HIDE DEF below
  <2> QED
    BY <2>2, <2>3, <2>4, <2>5 DEF IsOrder
<1>2. IsListing(f, S, below)
  <2> DEFINE placed == {<<Cardinality({y \in S : y < x}) + 1, x>> : x \in S}
  <2>1. f = [k \in 1 .. Cardinality(S) |-> (CHOOSE p \in placed : p[1] = k)[2]]
    BY DEF InOrder
  <2>2. placed = {<<Cardinality(below[x]) + 1, x>> : x \in S}
    OBVIOUS
  <2> HIDE DEF below, placed, f
  <2> QED
    BY <2>1, <2>2 DEF IsListing
<1> HIDE DEF below
<1> QED
  BY <1>1, <1>2, ListingListsAll

(* A file's documents taken out leave those of the others.                 *)
LEMMA RetainedAreOthers ==
  ASSUME NEW S, NEW documents \in Seq(S), NEW p
  PROVE  /\ Retained(documents, p) \in Seq(S)
         /\ ToSet(Retained(documents, p)) = {d \in ToSet(documents) : d.path # p}
<1> DEFINE N == Len(documents)
           at == {i \in DOMAIN documents : documents[i].path # p}
           places == InOrder(at, <)
<1>1. N \in Nat /\ DOMAIN documents = 1 .. N /\ \A i \in 1 .. N : documents[i] \in S
  OBVIOUS
<1>2. at \in SUBSET (1 .. N)
  BY <1>1
<1>3. places \in Seq(at) /\ Len(places) \in Nat /\ ToSet(places) = at
  <2> HIDE DEF at
  <2>1. IsFiniteSet(1 .. N)
    BY <1>1, FS_Interval
  <2>2. IsFiniteSet(at)
    BY <1>2, <2>1, FS_Subset
  <2>3. at \in SUBSET Nat
    BY ONLY <1>1, <1>2
  <2> QED
    BY <2>2, <2>3, SortedNumbers
<1>4. DOMAIN places = 1 .. Len(places) /\ \A n \in 1 .. Len(places) : places[n] \in at
  <2> HIDE DEF at, places
  <2> QED
    BY <1>3
<1>5. Retained(documents, p) = [n \in 1 .. Len(places) |-> documents[places[n]]]
  BY <1>4 DEF Retained
<1>6. \A i \in at : \E n \in 1 .. Len(places) : places[n] = i
  <2> HIDE DEF at, places
  <2> QED
    BY <1>3, <1>4 DEF ToSet
<1>7. \A n \in 1 .. Len(places) : documents[places[n]] \in S
  <2> HIDE DEF at, places
  <2> QED
    BY <1>1, <1>2, <1>4
<1>8. Retained(documents, p) \in Seq(S)
  <2> HIDE DEF at, places
  <2> QED
    BY <1>3, <1>5, <1>7
<1>9. ToSet(Retained(documents, p)) = {documents[places[n]] : n \in 1 .. Len(places)}
  <2> HIDE DEF places
  <2> QED
    BY <1>5 DEF ToSet
<1>10. {documents[places[n]] : n \in 1 .. Len(places)} = {documents[i] : i \in at}
  <2> HIDE DEF at, places
  <2> QED
    BY <1>4, <1>6
<1>11. {documents[i] : i \in at} = {d \in ToSet(documents) : d.path # p}
  BY DEF ToSet
<1> QED
  BY <1>8, <1>9, <1>10, <1>11

(* What two sequences hold, put one after the other.                       *)
LEMMA JoinedHoldBoth ==
  ASSUME NEW S, NEW s \in Seq(S), NEW t \in Seq(S)
  PROVE  s \o t \in Seq(S) /\ ToSet(s \o t) = ToSet(s) \cup ToSet(t)
<1>1. s \o t \in Seq(S) /\ Len(s \o t) = Len(s) + Len(t) /\ Len(s) \in Nat /\ Len(t) \in Nat
  OBVIOUS
<1>2. /\ DOMAIN s = 1 .. Len(s) /\ DOMAIN t = 1 .. Len(t) /\ DOMAIN (s \o t) = 1 .. Len(s) + Len(t)
      /\ \A i \in 1 .. Len(s) + Len(t) : (s \o t)[i] = IF i <= Len(s) THEN s[i] ELSE t[i - Len(s)]
  OBVIOUS
<1>3. ASSUME NEW i \in 1 .. Len(s) + Len(t)
      PROVE  (s \o t)[i] \in ToSet(s) \cup ToSet(t)
  <2>1. CASE i <= Len(s)
    <3>1. i \in DOMAIN s /\ (s \o t)[i] = s[i]
      BY <1>1, <1>2, <2>1
    <3> QED
      BY <3>1 DEF ToSet
  <2>2. CASE ~(i <= Len(s))
    <3>1. i - Len(s) \in DOMAIN t /\ (s \o t)[i] = t[i - Len(s)]
      BY <1>1, <1>2, <2>2
    <3> QED
      BY <3>1 DEF ToSet
  <2> QED
    BY <2>1, <2>2
<1>4. ASSUME NEW x \in ToSet(s)  PROVE x \in ToSet(s \o t)
  <2>1. PICK i \in 1 .. Len(s) : x = s[i]
    BY <1>2 DEF ToSet
  <2>2. i \in DOMAIN (s \o t) /\ (s \o t)[i] = x
    BY <1>1, <1>2, <2>1
  <2> QED
    BY <2>2 DEF ToSet
<1>5. ASSUME NEW x \in ToSet(t)  PROVE x \in ToSet(s \o t)
  <2>1. PICK i \in 1 .. Len(t) : x = t[i]
    BY <1>2 DEF ToSet
  <2>2. i + Len(s) \in DOMAIN (s \o t) /\ (s \o t)[i + Len(s)] = x
    BY <1>1, <1>2, <2>1
  <2> QED
    BY <2>2 DEF ToSet
<1>6. \A x \in ToSet(s \o t) : x \in ToSet(s) \cup ToSet(t)
  <2>1. ToSet(s \o t) = {(s \o t)[i] : i \in 1 .. Len(s) + Len(t)}
    BY <1>2 DEF ToSet
  <2> HIDE DEF ToSet
  <2> QED
    BY <1>3, <2>1
<1> QED
  BY <1>1, <1>4, <1>5, <1>6

-----------------------------------------------------------------------------
(* Extraction, file after file *)

(* A cold run extracts exactly the facts of the texts it read.             *)
LEMMA ExtractedAreFacts ==
  ASSUME NEW hashes \in Hashes
  PROVE  Extracted(hashes) \in Seq(AllFacts) /\ ToSet(Extracted(hashes)) = Facts(hashes)
<1> DEFINE n == PathCount
           A == Seq(AllFacts)
           step == [ss \in A \X (1 .. n) |-> ss[1] \o Documents(ss[2], hashes[ss[2]])]
           Body(f) == [p \in 0 .. n |-> IF p = 0 THEN <<>> ELSE f[p - 1] \o Documents(p, hashes[p])]
           found == CHOOSE f : f = Body(f)
           UpToPath(k) == UNION {ToSet(Documents(p, hashes[p])) : p \in 1 .. k}
<1>1. n \in Nat /\ Paths = 1 .. n
  BY PathsAreFinite DEF Paths
<1>2. \A p \in 1 .. n : Documents(p, hashes[p]) \in A
  BY <1>1, DocumentsAreFacts DEF Hashes
<1>3. step \in [A \X (1 .. n) -> A] /\ <<>> \in A
  <2>1. \A ss \in A \X (1 .. n) : ss[1] \o Documents(ss[2], hashes[ss[2]]) \in A
    BY <1>2
  <2> HIDE DEF A, n
  <2>2. step \in [A \X (1 .. n) -> A]
    BY <2>1
  <2>3. <<>> \in A
    BY DEF A
  <2> QED
    BY <2>2, <2>3
<1>4. PICK run : IsRun(run, A, <<>>, n, step)
  <2> HIDE DEF A, step, n
  <2> QED
    BY <1>1, <1>3, RunExists
<1>5. run \in [0 .. n -> A] /\ \A k \in 0 .. n : run[k] = IF k = 0 THEN <<>> ELSE step[<<run[k - 1], k>>]
  BY <1>4 DEF IsRun
<1>6. \A k \in 0 .. n : k # 0 => k \in 1 .. n /\ k - 1 \in 0 .. n
  BY <1>1
<1>7. \A k \in 0 .. n : k # 0 => step[<<run[k - 1], k>>] = run[k - 1] \o Documents(k, hashes[k])
  <2> HIDE DEF A, n
  <2> QED
    BY <1>5, <1>6
<1>8. run = Body(run)
  <2> HIDE DEF A, n, step
  <2> QED
    BY <1>5, <1>7
<1>9. found = Body(found)
  <2> HIDE DEF Body
  <2> QED
    BY <1>8
<1>10. found[0] = <<>> /\ \A k \in 1 .. n : found[k] = found[k - 1] \o Documents(k, hashes[k])
  <2> HIDE DEF found
  <2> QED
    BY <1>1, <1>9
<1> DEFINE T == {k \in 0 .. n : found[k] \in A /\ ToSet(found[k]) = UpToPath(k)}
<1>11. 0 \in T
  <2>1. ToSet(<<>>) = {} /\ UpToPath(0) = {}
    BY DEF ToSet
  <2>2. 0 \in 0 .. n
    BY <1>1
  <2> HIDE DEF found, UpToPath, A, n, ToSet
  <2> QED
    BY <1>3, <1>10, <2>1, <2>2
<1>12. ASSUME NEW k \in 1 .. n, k - 1 \in T
       PROVE  k \in T
  <2>1. found[k - 1] \in A /\ ToSet(found[k - 1]) = UpToPath(k - 1)
    BY <1>12
  <2>2. found[k] = found[k - 1] \o Documents(k, hashes[k]) /\ Documents(k, hashes[k]) \in A
    <3> HIDE DEF found, A
    <3> QED
      BY <1>2, <1>10
  <2>3. found[k] \in A /\ ToSet(found[k]) = UpToPath(k - 1) \cup ToSet(Documents(k, hashes[k]))
    <3> DEFINE last == found[k - 1]
               new == Documents(k, hashes[k])
    <3>1. last \in Seq(AllFacts) /\ new \in Seq(AllFacts) /\ found[k] = last \o new /\ ToSet(last) = UpToPath(k - 1)
      BY <2>1, <2>2
    <3> HIDE DEF last, new, found, UpToPath
    <3>2. found[k] \in Seq(AllFacts) /\ ToSet(found[k]) = UpToPath(k - 1) \cup ToSet(new)
      BY <3>1, JoinedHoldBoth
    <3> QED
      BY <3>2 DEF new
  <2>4. 1 .. k = (1 .. k - 1) \cup {k}
    BY <1>1
  <2>5. UpToPath(k) = UpToPath(k - 1) \cup ToSet(Documents(k, hashes[k]))
    <3> HIDE DEF found, n
    <3> QED
      BY <2>4
  <2>6. k \in 0 .. n
    BY <1>1
  <2> HIDE DEF found, UpToPath, A
  <2> QED
    BY <2>3, <2>5, <2>6
<1>13. n \in T
  <2>1. 0 .. n \subseteq T
    <3> HIDE DEF T, n
    <3> QED
      BY ONLY <1>1, <1>11, <1>12, UpTo
  <2> HIDE DEF T
  <2> QED
    BY <1>1, <2>1
<1>14. Extracted(hashes) = found[n]
  BY DEF Extracted
<1>15. UpToPath(n) = Facts(hashes)
  BY <1>1 DEF Facts
<1> QED
  <2> HIDE DEF found, UpToPath
  <2> QED
    BY <1>13, <1>14, <1>15

-----------------------------------------------------------------------------
(* Normalization *)

(* A StoredIndex has these parts.                                          *)
IsStored(s) ==
  s = [hashes |-> s.hashes, arcs |-> s.arcs, gaps |-> s.gaps, snapshot |-> s.snapshot,
       changed |-> s.changed, index |-> s.index, documents |-> s.documents]

(* The gaps of documents and arcs, of a graph they are part of.            *)
GapsOf(documents, arcs, hashes) ==
  LET open == {d \in ToSet(documents) : d.tracked /\
                 ~\E a \in arcs : <<a.path, a.span>> = Site(d) /\ a.kind = d.kind /\ a.hash = hashes[a.path]}
      inner == {d \in open : d.dynamic /\ \E e \in open :
                  e.dynamic /\ e.path = d.path /\ e.span # d.span /\ Within(d.span, e.span)}
  IN  {Site(d) : d \in open \ inner}

(* The gaps depend on the documents, the relationships and the texts only. *)
LEMMA ProofGapsAreOf ==
  ASSUME NEW s
  PROVE  ProofGaps(s) = GapsOf(s.documents, s.arcs, s.hashes)
BY DEF ProofGaps, Unproven, GapsOf

(* The graph that texts have when nothing of other texts is left in it.    *)
BuiltOf(hashes, documents, arcs) ==
  [hashes |-> hashes, arcs |-> arcs, gaps |-> GapsOf(documents, arcs, hashes),
   snapshot |-> Snapshot(hashes), changed |-> Changed(hashes),
   index |-> [documents |-> documents, arcs |-> DefinitiveArcs(ToSet(documents), hashes, arcs)],
   documents |-> documents]
GraphOf(hashes) ==
  BuiltOf(hashes, InOrder(Facts(hashes), Earlier), RebuildArcs(Facts(hashes), hashes))

(* Normalization builds it of whatever holds the facts of the texts.       *)
LEMMA NormalizedIsBuilt ==
  ASSUME NEW s, IsStored(s), ToSet(s.documents) = Facts(s.hashes)
  PROVE  Normalize(s) = GraphOf(s.hashes)
<1> DEFINE h == s.hashes
           documents == InOrder(Facts(h), Earlier)
           arcs == RebuildArcs(Facts(h), h)
           sorted == [s EXCEPT !.documents = InOrder(ToSet(s.documents), Earlier),
                               !.arcs = RebuildArcs(ToSet(s.documents), s.hashes)]
           gaps == [sorted EXCEPT !.gaps = ProofGaps(sorted)]
<1>1. Normalize(s) = [gaps EXCEPT !.index = QueryIndex(gaps), !.snapshot = Snapshot(s.hashes),
                                  !.changed = Changed(s.hashes)]
  BY DEF Normalize
<1>2. InOrder(ToSet(s.documents), Earlier) = documents /\ RebuildArcs(ToSet(s.documents), s.hashes) = arcs
  OBVIOUS
<1> HIDE DEF documents, arcs
<1>3. sorted = [hashes |-> h, arcs |-> arcs, gaps |-> s.gaps, snapshot |-> s.snapshot,
                changed |-> s.changed, index |-> s.index, documents |-> documents]
  <2>1. sorted = [s EXCEPT !.documents = documents, !.arcs = arcs]
    BY <1>2
  <2> HIDE DEF sorted
  <2> QED
    BY <2>1 DEF IsStored
<1>4. sorted.documents = documents /\ sorted.arcs = arcs /\ sorted.hashes = h
  <2> HIDE DEF sorted
  <2> QED
    BY <1>3
<1>5. ProofGaps(sorted) = GapsOf(documents, arcs, h)
  <2> HIDE DEF sorted
  <2> QED
    BY <1>4, ProofGapsAreOf
<1>6. gaps = [hashes |-> h, arcs |-> arcs, gaps |-> GapsOf(documents, arcs, h), snapshot |-> s.snapshot,
              changed |-> s.changed, index |-> s.index, documents |-> documents]
  <2> HIDE DEF sorted
  <2> QED
    BY <1>3, <1>5
<1> HIDE DEF gaps
<1>7. QueryIndex(gaps) = [documents |-> documents, arcs |-> DefinitiveArcs(ToSet(documents), h, arcs)]
  <2>1. gaps.documents = documents /\ gaps.arcs = arcs /\ gaps.hashes = h
    BY <1>6
  <2> QED
    BY <2>1 DEF QueryIndex
<1>8. Normalize(s) = BuiltOf(h, documents, arcs)
  <2> DEFINE index == [documents |-> documents, arcs |-> DefinitiveArcs(ToSet(documents), h, arcs)]
             snapshot == Snapshot(h)
             changed == Changed(h)
             all == GapsOf(documents, arcs, h)
  <2>1. Normalize(s) = [gaps EXCEPT !.index = index, !.snapshot = snapshot, !.changed = changed]
    BY <1>1, <1>7
  <2>2. BuiltOf(h, documents, arcs) = [hashes |-> h, arcs |-> arcs, gaps |-> all, snapshot |-> snapshot,
                                       changed |-> changed, index |-> index, documents |-> documents]
    BY DEF BuiltOf
  <2>3. gaps = [hashes |-> h, arcs |-> arcs, gaps |-> all, snapshot |-> s.snapshot,
                changed |-> s.changed, index |-> s.index, documents |-> documents]
    BY <1>6
  <2> HIDE DEF index, snapshot, changed, all, h
  <2> QED
    BY <2>1, <2>2, <2>3
<1> QED
  BY <1>8 DEF GraphOf, documents, arcs

(* A cold run builds the graph of the texts it read.                       *)
LEMMA ColdIsBuilt ==
  ASSUME NEW hashes \in Hashes
  PROVE  Cold(hashes) = GraphOf(hashes)
<1> DEFINE s == [hashes |-> hashes, arcs |-> {}, gaps |-> {}, snapshot |-> Nothing,
                 changed |-> {}, index |-> [documents |-> <<>>, arcs |-> {}],
                 documents |-> Extracted(hashes)]
<1>1. IsStored(s) /\ s.hashes = hashes /\ s.documents = Extracted(hashes)
  BY DEF IsStored
<1>2. Cold(hashes) = Normalize(s)
  BY DEF Cold
<1> HIDE DEF s
<1>3. ToSet(s.documents) = Facts(s.hashes)
  BY <1>1, ExtractedAreFacts
<1> QED
  BY <1>1, <1>2, <1>3, NormalizedIsBuilt

(* The parts of a cold graph.                                              *)
LEMMA ColdHas ==
  ASSUME NEW hashes \in Hashes
  PROVE  /\ IsStored(Cold(hashes)) /\ Cold(hashes).hashes = hashes
         /\ Cold(hashes).documents = InOrder(Facts(hashes), Earlier)
         /\ Cold(hashes).documents \in Seq(AllFacts)
         /\ ToSet(Cold(hashes).documents) = Facts(hashes)
         /\ Cold(hashes).arcs = RebuildArcs(Facts(hashes), hashes)
         /\ Cold(hashes).gaps = GapsOf(Cold(hashes).documents, Cold(hashes).arcs, hashes)
         /\ Cold(hashes).snapshot = Snapshot(hashes)
         /\ Cold(hashes).index = [documents |-> Cold(hashes).documents,
                                  arcs |-> DefinitiveArcs(Facts(hashes), hashes, Cold(hashes).arcs)]
<1> DEFINE documents == InOrder(Facts(hashes), Earlier)
           arcs == RebuildArcs(Facts(hashes), hashes)
           c == Cold(hashes)
<1>1. documents \in Seq(Facts(hashes)) /\ ToSet(documents) = Facts(hashes)
  <2>1. /\ Facts(hashes) \in SUBSET AllFacts /\ IsFiniteSet(Facts(hashes))
        /\ \A d, e \in Facts(hashes) : Node(d) = Node(e) => d = e
    BY FactsAreOfTheirText
  <2> QED
    BY <2>1, SortedFacts
<1>2. documents \in Seq(AllFacts)
  <2>1. Facts(hashes) \subseteq AllFacts
    BY FactsAreOfTheirText
  <2> HIDE DEF documents
  <2> QED
    BY <1>1, <2>1
<1>3. c = BuiltOf(hashes, documents, arcs)
  BY ColdIsBuilt DEF GraphOf
<1> HIDE DEF documents, arcs
<1> DEFINE gaps == GapsOf(documents, arcs, hashes)
           index == [documents |-> documents, arcs |-> DefinitiveArcs(ToSet(documents), hashes, arcs)]
           snapshot == Snapshot(hashes)
           changed == Changed(hashes)
<1>4. c = [hashes |-> hashes, arcs |-> arcs, gaps |-> gaps, snapshot |-> snapshot,
           changed |-> changed, index |-> index, documents |-> documents]
  BY <1>3 DEF BuiltOf
<1> HIDE DEF c, gaps, index, snapshot, changed
<1>5. /\ IsStored(c) /\ c.hashes = hashes /\ c.arcs = arcs /\ c.gaps = gaps /\ c.snapshot = snapshot
      /\ c.index = index /\ c.documents = documents
  BY <1>4 DEF IsStored
<1>6. index = [documents |-> documents, arcs |-> DefinitiveArcs(Facts(hashes), hashes, arcs)]
  BY <1>1 DEF index
<1> QED
  BY <1>1, <1>2, <1>5, <1>6 DEF c, documents, arcs, gaps, snapshot

-----------------------------------------------------------------------------
(* Loading *)

(* A graph, normalized or not, whose documents are the facts of its texts. *)
HoldsItsFacts(s) ==
  /\ IsStored(s) /\ s.hashes \in Hashes
  /\ s.documents \in Seq(AllFacts) /\ ToSet(s.documents) = Facts(s.hashes)

(* Loading a file replaces its facts and leaves the index alone.           *)
LEMMA LoadKeepsFacts ==
  ASSUME NEW s, HoldsItsFacts(s), NEW p \in Paths, tree \in Hashes
  PROVE  HoldsItsFacts(Load(s, p)) /\ Load(s, p).index = s.index
<1> DEFINE new == Documents(p, tree[p])
           hashes == [s.hashes EXCEPT ![p] = tree[p]]
           documents == Retained(s.documents, p) \o new
           gaps == {g \in s.gaps : g[1] # p} \cup {Site(d) : d \in {d \in ToSet(new) : d.dynamic}}
           l == Load(s, p)
<1>1. /\ IsStored(s) /\ s.hashes \in [Paths -> Texts] /\ tree \in [Paths -> Texts]
      /\ s.documents \in Seq(AllFacts) /\ ToSet(s.documents) = Facts(s.hashes)
  BY DEF HoldsItsFacts, Hashes
<1>2. l = [s EXCEPT !.hashes = hashes, !.documents = documents, !.gaps = gaps]
  <2>1. l = [s EXCEPT !.hashes[p] = tree[p], !.documents = documents, !.gaps = gaps]
    BY DEF Load
  <2>2. "hashes" \in DOMAIN s
    BY <1>1 DEF IsStored
  <2> HIDE DEF l, documents, gaps, new
  <2> QED
    BY <1>1, <2>1, <2>2 DEF IsStored
<1>3. hashes \in [Paths -> Texts] /\ hashes[p] = tree[p] /\ \A q \in Paths : q # p => hashes[q] = s.hashes[q]
  BY <1>1
<1>4. /\ new \in Seq(AllFacts) /\ \A d \in ToSet(new) : d.path = p
  <2>1. tree[p] \in Texts
    BY <1>1
  <2> QED
    BY <2>1, DocumentsAreFacts
<1>5. /\ Retained(s.documents, p) \in Seq(AllFacts)
      /\ ToSet(Retained(s.documents, p)) = {d \in Facts(s.hashes) : d.path # p}
  <2>1. /\ Retained(s.documents, p) \in Seq(AllFacts)
        /\ ToSet(Retained(s.documents, p)) = {d \in ToSet(s.documents) : d.path # p}
    BY <1>1, RetainedAreOthers
  <2> QED
    BY <1>1, <2>1
<1>6. documents \in Seq(AllFacts) /\ ToSet(documents) = {d \in Facts(s.hashes) : d.path # p} \cup ToSet(new)
  <2> HIDE DEF new
  <2> QED
    BY <1>4, <1>5, JoinedHoldBoth
<1>7. {d \in Facts(s.hashes) : d.path # p} \cup ToSet(new) = Facts(hashes)
  <2>1. ASSUME NEW d \in Facts(s.hashes), d.path # p  PROVE d \in Facts(hashes)
    <3>1. d.path \in Paths /\ d \in ToSet(Documents(d.path, s.hashes[d.path]))
      BY <1>1, FactsAreOfTheirText DEF Hashes
    <3>2. s.hashes[d.path] = hashes[d.path]
      BY <1>3, <2>1, <3>1
    <3> HIDE DEF hashes
    <3> QED
      BY <3>1, <3>2 DEF Facts
  <2>2. ToSet(new) \subseteq Facts(hashes)
    <3>1. new = Documents(p, hashes[p])
      BY <1>3
    <3> HIDE DEF new, hashes
    <3> QED
      BY <3>1 DEF Facts
  <2>3. ASSUME NEW d \in Facts(hashes), d \notin ToSet(new)  PROVE d \in Facts(s.hashes) /\ d.path # p
    <3>1. d.path \in Paths /\ d \in ToSet(Documents(d.path, hashes[d.path]))
      <4> HIDE DEF hashes
      <4> QED
        BY <1>3, FactsAreOfTheirText DEF Hashes
    <3>2. d.path # p
      <4> SUFFICES ASSUME d.path = p PROVE FALSE
        OBVIOUS
      <4>1. Documents(d.path, hashes[d.path]) = new
        BY <1>3
      <4> HIDE DEF new, hashes
      <4> QED
        BY <2>3, <3>1, <4>1
    <3>3. hashes[d.path] = s.hashes[d.path]
      BY <1>3, <3>1, <3>2
    <3> HIDE DEF hashes
    <3> QED
      BY <3>1, <3>2, <3>3 DEF Facts
  <2> HIDE DEF hashes, new
  <2> QED
    BY <2>1, <2>2, <2>3
<1>8. IsStored(l) /\ l.hashes = hashes /\ l.documents = documents /\ l.index = s.index
  <2> HIDE DEF l, hashes, documents, gaps
  <2> QED
    BY <1>1, <1>2 DEF IsStored
<1> HIDE DEF l, hashes, documents
<1> QED
  BY <1>3, <1>6, <1>7, <1>8 DEF HoldsItsFacts, Hashes, l

(* So does loading any of the files, one after the other.                  *)
LEMMA LoadAllKeepsFacts ==
  ASSUME NEW s, HoldsItsFacts(s), NEW changed, tree \in Hashes
  PROVE  HoldsItsFacts(LoadAll(s, changed)) /\ LoadAll(s, changed).index = s.index
<1> DEFINE n == PathCount
           sites == s.gaps \cup {Site(d) : d \in AllFacts}
           A == {r \in [hashes : Hashes, arcs : {s.arcs}, gaps : SUBSET sites, snapshot : {s.snapshot},
                        changed : {s.changed}, index : {s.index}, documents : Seq(AllFacts)] :
                   ToSet(r.documents) = Facts(r.hashes)}
           Then(r, p) == IF p \in changed THEN Load(r, p) ELSE r
           step == [ss \in A \X (1 .. n) |-> Then(ss[1], ss[2])]
           Body(f) == [p \in 0 .. n |-> IF p = 0 THEN s
                                        ELSE IF p \in changed THEN Load(f[p - 1], p) ELSE f[p - 1]]
           loaded == CHOOSE f : f = Body(f)
<1>1. n \in Nat /\ Paths = 1 .. n
  BY PathsAreFinite DEF Paths
<1>2. s \in A
  <2>1. s.hashes \in Hashes /\ s.documents \in Seq(AllFacts) /\ ToSet(s.documents) = Facts(s.hashes) /\ IsStored(s)
    BY DEF HoldsItsFacts
  <2>2. s \in [hashes : Hashes, arcs : {s.arcs}, gaps : SUBSET sites, snapshot : {s.snapshot},
               changed : {s.changed}, index : {s.index}, documents : Seq(AllFacts)]
    BY <2>1 DEF IsStored
  <2> QED
    BY <2>1, <2>2
<1>3. ASSUME NEW r \in A
      PROVE  HoldsItsFacts(r) /\ r.index = s.index
  <2>1. r \in [hashes : Hashes, arcs : {s.arcs}, gaps : SUBSET sites, snapshot : {s.snapshot},
               changed : {s.changed}, index : {s.index}, documents : Seq(AllFacts)]
    OBVIOUS
  <2>2. ToSet(r.documents) = Facts(r.hashes)
    OBVIOUS
  <2> HIDE DEF A
  <2>3. r.hashes \in Hashes /\ r.documents \in Seq(AllFacts) /\ r.index = s.index
    BY <2>1
  <2>4. IsStored(r)
    BY <2>1 DEF IsStored
  <2> QED
    BY <2>2, <2>3, <2>4 DEF HoldsItsFacts
<1>4. ASSUME NEW r \in A, NEW p \in Paths
      PROVE  Load(r, p) \in A
  <2> DEFINE l == Load(r, p)
             new == Documents(p, tree[p])
             gaps == {g \in r.gaps : g[1] # p} \cup {Site(d) : d \in {d \in ToSet(new) : d.dynamic}}
  <2>1. HoldsItsFacts(r) /\ HoldsItsFacts(l) /\ l.index = s.index
    <3> HIDE DEF A
    <3> QED
      BY <1>3, LoadKeepsFacts
  <2>2. /\ l.hashes \in Hashes /\ l.documents \in Seq(AllFacts) /\ ToSet(l.documents) = Facts(l.hashes)
        /\ IsStored(l) /\ IsStored(r)
    <3> HIDE DEF l, A
    <3> QED
      BY <2>1 DEF HoldsItsFacts
  <2>3. l.gaps = gaps /\ l.arcs = r.arcs /\ l.snapshot = r.snapshot /\ l.changed = r.changed
    <3>1. l = [r EXCEPT !.hashes[p] = tree[p], !.documents = Retained(r.documents, p) \o new, !.gaps = gaps]
      BY DEF Load
    <3> HIDE DEF l, A, gaps, new
    <3> QED
      BY <2>2, <3>1 DEF IsStored
  <2>4. r.gaps \in SUBSET sites /\ r.arcs = s.arcs /\ r.snapshot = s.snapshot /\ r.changed = s.changed
    OBVIOUS
  <2>5. gaps \in SUBSET sites
    <3>1. ToSet(new) \subseteq AllFacts
      <4>1. new \in Seq(AllFacts)
        BY DocumentsAreFacts DEF Hashes
      <4> HIDE DEF new
      <4> QED
        BY <4>1 DEF ToSet
    <3> HIDE DEF new
    <3> QED
      BY <2>4, <3>1
  <2> HIDE DEF l, gaps, sites
  <2>6. l \in [hashes : Hashes, arcs : {s.arcs}, gaps : SUBSET sites, snapshot : {s.snapshot},
               changed : {s.changed}, index : {s.index}, documents : Seq(AllFacts)]
    BY <2>1, <2>2, <2>3, <2>4, <2>5 DEF IsStored
  <2>7. l \in A
    BY <2>2, <2>6
  <2> HIDE DEF A
  <2> QED
    BY <2>7 DEF l
<1>5. \A r \in A, p \in 1 .. n : Then(r, p) \in A
  <2> HIDE DEF A, n
  <2> QED
    BY <1>1, <1>4
<1>6. step \in [A \X (1 .. n) -> A]
  <2>1. \A ss \in A \X (1 .. n) : Then(ss[1], ss[2]) \in A
    <3> HIDE DEF A, n, Then
    <3> QED
      BY <1>5
  <2> HIDE DEF A, n, Then
  <2> QED
    BY <2>1
<1>7. PICK run : IsRun(run, A, s, n, step)
  <2> HIDE DEF A, step, n
  <2> QED
    BY <1>1, <1>2, <1>6, RunExists
<1>8. run \in [0 .. n -> A] /\ \A k \in 0 .. n : run[k] = IF k = 0 THEN s ELSE step[<<run[k - 1], k>>]
  BY <1>7 DEF IsRun
<1>9. \A k \in 0 .. n : k # 0 => k \in 1 .. n /\ k - 1 \in 0 .. n
  BY <1>1
<1>10. \A k \in 0 .. n : k # 0 => step[<<run[k - 1], k>>] = Then(run[k - 1], k)
  <2> HIDE DEF A, n, Then
  <2> QED
    BY <1>8, <1>9
<1>11. run = Body(run)
  <2> HIDE DEF A, n, step
  <2> QED
    BY <1>8, <1>10
<1>12. loaded = Body(loaded)
  <2> HIDE DEF Body
  <2> QED
    BY <1>11
<1>13. loaded[0] = s /\ \A k \in 1 .. n : loaded[k] = Then(loaded[k - 1], k)
  <2> HIDE DEF loaded
  <2> QED
    BY <1>1, <1>12
<1> DEFINE T == {k \in 0 .. n : loaded[k] \in A}
<1>14. 0 .. n \subseteq T
  <2>1. 0 \in T
    <3> HIDE DEF A, loaded
    <3> QED
      BY <1>1, <1>2, <1>13
  <2>2. ASSUME NEW k \in 1 .. n, k - 1 \in T  PROVE k \in T
    <3> HIDE DEF A, loaded, Then
    <3> QED
      BY <1>1, <1>5, <1>13, <2>2
  <2> HIDE DEF T, n
  <2> QED
    BY ONLY <1>1, <2>1, <2>2, UpTo
<1>15. loaded[n] \in A
  <2> HIDE DEF A, loaded
  <2> QED
    BY <1>1, <1>14
<1>16. LoadAll(s, changed) = loaded[n]
  BY DEF LoadAll
<1> QED
  <2> HIDE DEF A, loaded
  <2> QED
    BY <1>3, <1>15, <1>16

-----------------------------------------------------------------------------
(* Arcs *)

(* What a call, import or reference resolves to is among the documents.    *)
LEMMA ExportsAreFacts ==
  ASSUME NEW hashes \in Hashes, NEW use \in Facts(hashes)
  PROVE  ByExport(Facts(hashes), hashes, use) \subseteq Facts(hashes)
<1> DEFINE found == ToSet(Documents(use.from, hashes[use.from]))
           exports == {d \in found : d.kind = "SYNTAX" /\ d.name = use.target}
<1>1. found \subseteq Facts(hashes)
  <2>1. use.from \in Paths
    BY FactsAreOfTheirText, FactsHaveTheirKind
  <2> QED
    BY <2>1 DEF Facts
<1>2. ByExport(Facts(hashes), hashes, use) \subseteq Only(exports)
  BY DEF ByExport
<1>3. Only(exports) \subseteq exports
  BY DEF Only
<1> QED
  BY <1>1, <1>2, <1>3

(* Whatever rule resolves a use, it resolves to documents of the graph.    *)
LEMMA ResolvedAreDocuments ==
  ASSUME NEW docs, NEW hashes, NEW use, ByExport(docs, hashes, use) \subseteq docs
  PROVE  Resolve(docs, hashes, use) \subseteq docs
<1>1. \A S : Only(S) \subseteq S
  BY DEF Only
<1>2. \A path, span : Exact(docs, path, span) \subseteq docs
  <2> TAKE path, span
  <2> DEFINE S == {d \in Syntax(docs) : d.path = path /\ d.span = span}
  <2>1. S \subseteq docs
    BY DEF Syntax
  <2>2. Exact(docs, path, span) = Only(S)
    BY DEF Exact
  <2> HIDE DEF S
  <2> QED
    BY <1>1, <2>1, <2>2
<1>3. ASSUME NEW some \in SUBSET docs, NEW name
      PROVE  Proven(some, use, name) \subseteq docs
  <2> DEFINE S == {d \in Syntax(some) : d.path = use.path /\ d.span = use.proof.target /\ d.name = name}
  <2>1. S \subseteq docs
    BY DEF Syntax
  <2>2. Proven(some, use, name) = Only(S)
    BY DEF Proven
  <2> HIDE DEF S
  <2> QED
    BY <1>1, <2>1, <2>2
<1>4. RustModuleCall(docs, use) \subseteq docs
  BY <1>2 DEF RustModuleCall
<1>5. RustParameterCall(docs, hashes, use) \subseteq docs
  BY <1>2 DEF RustParameterCall
<1>6. RustSelfCall(docs, use) \subseteq docs
  BY <1>2 DEF RustSelfCall
<1>7. SwiftDirectCall(docs, use) \subseteq docs
  BY <1>3 DEF SwiftDirectCall
<1>8. GoLocalConstructorCall(docs, use) \subseteq docs
  <2> DEFINE proof == use.proof
             Callables(name, kind) ==
               {d \in Syntax(docs) : d.name = name /\ d.package = proof.package /\ d.type.kind = kind}
             made == {d.type.of : d \in Only(Callables(proof.constructor, "Function"))}
             S == {d \in Callables(use.name, "Method") : d.type.of \in made}
  <2>1. S \subseteq docs
    <3> HIDE DEF made
    <3> QED
      BY DEF Syntax
  <2>2. GoLocalConstructorCall(docs, use) \subseteq Only(S)
    BY DEF GoLocalConstructorCall
  <2> HIDE DEF S
  <2> QED
    BY <1>1, <2>1, <2>2
<1>9. GoFieldCall(docs, hashes, use) \subseteq docs
  <2> DEFINE proof == use.proof
  <2>1. GoFieldCall(docs, hashes, use) \subseteq Exact(docs, use.path, use.proof.target)
    BY DEF GoFieldCall
  <2> QED
    BY <1>2, <2>1
<1>10. JavaConstructorCall(docs, use) \subseteq docs
  BY <1>2 DEF JavaConstructorCall
<1>11. TsLexicalCall(docs, use) \subseteq docs
  BY <1>3 DEF TsLexicalCall
<1>12. TsConstructorCall(docs, use) \subseteq docs
  BY <1>3 DEF TsConstructorCall
<1>13. GoSelfCall(docs, use) \subseteq docs
  BY <1>3 DEF GoSelfCall
<1>14. RustPathCall(docs, hashes, use) \subseteq docs
  BY <1>2 DEF RustPathCall
<1>15. GoImportCall(docs, use) \subseteq docs
  <2> DEFINE S == {d \in Syntax(docs) : d.name = use.name /\ d.path \in use.qualifier
                                          /\ d.type.kind = "Function" /\ d.package # Nothing}
  <2>1. S \subseteq docs
    BY DEF Syntax
  <2>2. GoImportCall(docs, use) = Only(S)
    BY DEF GoImportCall
  <2> HIDE DEF S
  <2> QED
    BY <1>1, <2>1, <2>2
<1>16. ByName(docs, use) \subseteq docs
  <2> DEFINE named == {d \in Syntax(docs) : d.name = use.name /\ d.tag # "TS_LEXICAL_ARROW"}
             here == {d \in named : d.path = use.path}
             qualified == {d \in named : d.path \in use.qualifier}
  <2>1. named \subseteq docs /\ here \subseteq docs /\ qualified \subseteq docs
    BY DEF Syntax
  <2>2. ByName(docs, use) \in {here, Only(qualified), Only(named), {}}
    BY DEF ByName
  <2> HIDE DEF named, here, qualified
  <2>3. Only(qualified) \subseteq docs /\ Only(named) \subseteq docs
    BY <1>1, <2>1
  <2> QED
    BY <2>1, <2>2, <2>3
<1> QED
  BY <1>4, <1>5, <1>6, <1>7, <1>8, <1>9, <1>10, <1>11, <1>12, <1>13, <1>14, <1>15, <1>16 DEF Resolve

(* Arcs between documents, each at the site of one.                        *)
ArcKinds == {"CALLS", "IMPORTS", "REFERENCES", "CONTAINS"}
ArcsAmong(docs, hashes) ==
  {Arc(Node(x[1]), Node(x[2]), x[3], x[4], hashes[x[4].path]) : x \in docs \X docs \X ArcKinds \X docs}

(* A relationship of two documents, proved at a third, is among those the  *)
(* documents can have.                                                     *)
LEMMA ArcIsAmong ==
  ASSUME NEW docs, NEW hashes, NEW d \in docs, NEW e \in docs, NEW kind \in ArcKinds, NEW site \in docs
  PROVE  Arc(Node(d), Node(e), kind, site, hashes[site.path]) \in ArcsAmong(docs, hashes)
<1> DEFINE x == <<d, e, kind, site>>
<1>1. x \in docs \X docs \X ArcKinds \X docs
  OBVIOUS
<1>2. x[1] = d /\ x[2] = e /\ x[3] = kind /\ x[4] = site
  OBVIOUS
<1>3. Arc(Node(x[1]), Node(x[2]), x[3], x[4], hashes[x[4].path]) \in ArcsAmong(docs, hashes)
  <2> HIDE DEF x
  <2> QED
    BY <1>1 DEF ArcsAmong
<1> HIDE DEF x
<1> QED
  BY <1>2, <1>3

(* Finitely many documents have finitely many relationships.               *)
LEMMA ArcsAmongAreFinite ==
  ASSUME NEW docs, IsFiniteSet(docs), NEW hashes
  PROVE  IsFiniteSet(ArcsAmong(docs, hashes))
<1> DEFINE places == docs \X docs \X ArcKinds \X docs
           made == [x \in places |-> Arc(Node(x[1]), Node(x[2]), x[3], x[4], hashes[x[4].path])]
<1>1. IsFiniteSet(ArcKinds)
  <2>1. /\ IsFiniteSet({}) /\ IsFiniteSet({} \cup {"CALLS"})
        /\ IsFiniteSet({} \cup {"CALLS"} \cup {"IMPORTS"})
        /\ IsFiniteSet({} \cup {"CALLS"} \cup {"IMPORTS"} \cup {"REFERENCES"})
        /\ IsFiniteSet({} \cup {"CALLS"} \cup {"IMPORTS"} \cup {"REFERENCES"} \cup {"CONTAINS"})
    BY FS_EmptySet, FS_AddElement
  <2>2. ArcKinds = {} \cup {"CALLS"} \cup {"IMPORTS"} \cup {"REFERENCES"} \cup {"CONTAINS"}
    BY DEF ArcKinds
  <2> QED
    BY <2>1, <2>2
<1>2. IsFiniteSet(places)
  <2> DEFINE triples == (docs \X docs) \X (ArcKinds \X docs)
             quad == [y \in triples |-> <<y[1][1], y[1][2], y[2][1], y[2][2]>>]
  <2>1. IsFiniteSet(docs \X docs) /\ IsFiniteSet(ArcKinds \X docs)
    BY <1>1, FS_Product
  <2>2. IsFiniteSet(triples)
    BY <2>1, FS_Product
  <2>3. \A x \in places : \E y \in triples : x = <<y[1][1], y[1][2], y[2][1], y[2][2]>>
    <3> TAKE x \in places
    <3>1. PICK d \in docs, e \in docs, k \in ArcKinds, c \in docs : x = <<d, e, k, c>>
      OBVIOUS
    <3> DEFINE y == << <<d, e>>, <<k, c>> >>
    <3>2. y \in triples /\ y[1][1] = d /\ y[1][2] = e /\ y[2][1] = k /\ y[2][2] = c
      OBVIOUS
    <3> HIDE DEF y
    <3>3. x = <<y[1][1], y[1][2], y[2][1], y[2][2]>>
      BY <3>1, <3>2
    <3> QED
      BY <3>2, <3>3
  <2>4. \A y \in triples : quad[y] \in places
    <3> TAKE y \in triples
    <3>1. y[1][1] \in docs /\ y[1][2] \in docs /\ y[2][1] \in ArcKinds /\ y[2][2] \in docs
      OBVIOUS
    <3>2. quad[y] = <<y[1][1], y[1][2], y[2][1], y[2][2]>>
      OBVIOUS
    <3> HIDE DEF quad
    <3> QED
      BY <3>1, <3>2
  <2>5. places = {quad[y] : y \in triples}
    <3>1. \A y \in triples : quad[y] = <<y[1][1], y[1][2], y[2][1], y[2][2]>>
      OBVIOUS
    <3>2. \A x \in places : \E y \in triples : x = quad[y]
      <4> HIDE DEF quad, places, triples
      <4> QED
        BY <2>3, <3>1
    <3> HIDE DEF quad, places, triples
    <3> QED
      BY <2>4, <3>2
  <2> HIDE DEF quad, places, triples
  <2> QED
    BY <2>2, <2>5, ImageIsFinite
<1>3. ArcsAmong(docs, hashes) = {made[x] : x \in places}
  BY DEF ArcsAmong
<1> HIDE DEF places, made
<1> QED
  BY <1>2, <1>3, ImageIsFinite

(* The arcs of texts are arcs among their facts.                           *)
LEMMA RebuiltArcsAreAmong ==
  ASSUME NEW hashes \in Hashes
  PROVE  RebuildArcs(Facts(hashes), hashes) \subseteq ArcsAmong(Facts(hashes), hashes)
<1> DEFINE docs == Facts(hashes)
           U == ArcsAmong(docs, hashes)
<1>1. \A use \in docs : ByExport(docs, hashes, use) \subseteq docs /\ Resolve(docs, hashes, use) \subseteq docs
  <2> TAKE use \in docs
  <2>1. ByExport(docs, hashes, use) \subseteq docs
    BY ExportsAreFacts
  <2> HIDE DEF docs
  <2> QED
    BY <2>1, ResolvedAreDocuments
<1>2. Syntax(docs) \subseteq docs
  BY DEF Syntax
<1>3. \A S : Only(S) \subseteq S
  BY DEF Only
<1> HIDE DEF docs
<1>4. CallArcs(docs, hashes) \subseteq U
  <2> SUFFICES ASSUME NEW a \in CallArcs(docs, hashes) PROVE a \in U
    OBVIOUS
  <2>1. PICK c \in {c \in docs : c.kind = "CALLS"} :
          a \in {Arc(Node(d), Node(t), "CALLS", c, hashes[c.path]) :
                   d \in Encloser(docs, c), t \in Resolve(docs, hashes, c)}
    BY DEF CallArcs
  <2>2. PICK d \in Encloser(docs, c), t \in Resolve(docs, hashes, c) :
          a = Arc(Node(d), Node(t), "CALLS", c, hashes[c.path])
    BY <2>1
  <2>3. d \in docs
    BY <1>2 DEF Encloser
  <2>4. c \in docs /\ t \in docs /\ "CALLS" \in ArcKinds
    BY <1>1 DEF ArcKinds
  <2> QED
    BY <2>2, <2>3, <2>4, ArcIsAmong
<1>5. ImportArcs(docs, hashes) \subseteq U
  <2> DEFINE Imported(i) == IF i.named THEN ByExport(docs, hashes, i) ELSE {d \in Syntax(docs) : d.name = i.name}
  <2> SUFFICES ASSUME NEW a \in ImportArcs(docs, hashes) PROVE a \in U
    OBVIOUS
  <2>1. PICK i \in {i \in docs : i.kind = "IMPORTS"} :
          a \in {Arc(Node(i), Node(t), "IMPORTS", i, hashes[i.path]) : t \in Imported(i)}
    BY DEF ImportArcs
  <2>2. PICK t \in Imported(i) : a = Arc(Node(i), Node(t), "IMPORTS", i, hashes[i.path])
    BY <2>1
  <2>3. i \in docs /\ t \in docs /\ "IMPORTS" \in ArcKinds
    BY <1>1, <1>2 DEF ArcKinds
  <2> QED
    BY <2>2, <2>3, ArcIsAmong
<1>6. ReferenceArcs(docs, hashes) \subseteq U
  <2> SUFFICES ASSUME NEW a \in ReferenceArcs(docs, hashes) PROVE a \in U
    OBVIOUS
  <2>1. PICK r \in {r \in docs : r.kind = "REFERENCES" /\ r.bind # "export"} :
          a \in {Arc(Node(r), Node(d), "REFERENCES", r, hashes[r.path]) :
                   d \in {d \in Syntax(docs) : d.name = r.name}}
    BY DEF ReferenceArcs
  <2>2. PICK d \in {d \in Syntax(docs) : d.name = r.name} :
          a = Arc(Node(r), Node(d), "REFERENCES", r, hashes[r.path])
    BY <2>1
  <2>3. r \in docs /\ d \in docs /\ "REFERENCES" \in ArcKinds
    BY <1>2 DEF ArcKinds
  <2> QED
    BY <2>2, <2>3, ArcIsAmong
<1>7. DeclarationArcs(docs, hashes) \subseteq U
  <2> SUFFICES ASSUME NEW a \in DeclarationArcs(docs, hashes) PROVE a \in U
    OBVIOUS
  <2>1. PICK r \in {r \in docs : r.kind = "REFERENCES" /\ r.bind = "export"} :
          a \in {Arc(Node(c), Node(t), "REFERENCES", r, hashes[r.path]) :
                   c \in {c \in Exact(docs, r.path, r.proof.caller) : Within(r.span, c.body)},
                   t \in ByExport(docs, hashes, r)}
    BY DEF DeclarationArcs
  <2>2. PICK c \in {c \in Exact(docs, r.path, r.proof.caller) : Within(r.span, c.body)},
             t \in ByExport(docs, hashes, r) :
          a = Arc(Node(c), Node(t), "REFERENCES", r, hashes[r.path])
    BY <2>1
  <2>3. c \in docs
    <3> DEFINE S == {d \in Syntax(docs) : d.path = r.path /\ d.span = r.proof.caller}
    <3>1. c \in Only(S) /\ S \subseteq docs
      BY <1>2 DEF Exact
    <3> HIDE DEF S
    <3> QED
      BY <1>3, <3>1
  <2>4. r \in docs /\ t \in docs /\ "REFERENCES" \in ArcKinds
    BY <1>1 DEF ArcKinds
  <2> QED
    BY <2>2, <2>3, <2>4, ArcIsAmong
<1>8. ContainmentArcs(docs, hashes) \subseteq U
  <2> DEFINE Crosses(d, e) == d.path = e.path /\ d.body[1] < e.body[1]
                              /\ e.body[1] < d.body[2] /\ d.body[2] < e.body[2]
             sound == {d \in Syntax(docs) : d.span[2] <= d.body[2] /\
                         \A e \in Syntax(docs) : ~Crosses(d, e) /\ ~Crosses(e, d)}
             alone == {d \in sound : \A e \in Syntax(docs) \ {d} : e.path # d.path \/ e.body # d.body}
             Around(d, e) == d # e /\ d.path = e.path /\ Within(e.body, d.body) /\ Within(e.span, d.body)
  <2> SUFFICES ASSUME NEW a \in ContainmentArcs(docs, hashes) PROVE a \in U
    OBVIOUS
  <2>1. ContainmentArcs(docs, hashes) =
          UNION {{Arc(Node(d), Node(e), "CONTAINS", e, hashes[e.path]) : e \in {e \in sound : Around(d, e)}} :
                   d \in alone}
    BY DEF ContainmentArcs
  <2>2. sound \subseteq docs /\ alone \subseteq docs
    BY <1>2
  <2> HIDE DEF sound, alone, Around
  <2>3. PICK d \in alone :
          a \in {Arc(Node(d), Node(e), "CONTAINS", e, hashes[e.path]) : e \in {e \in sound : Around(d, e)}}
    BY <2>1
  <2>4. PICK e \in sound : a = Arc(Node(d), Node(e), "CONTAINS", e, hashes[e.path])
    BY <2>3
  <2>5. d \in docs /\ e \in docs /\ "CONTAINS" \in ArcKinds
    BY <2>2 DEF ArcKinds
  <2> QED
    BY <2>4, <2>5, ArcIsAmong
<1> QED
  BY <1>4, <1>5, <1>6, <1>7, <1>8 DEF RebuildArcs, docs

(* The index of a cold graph has finitely many relationships.              *)
LEMMA IndexedArcsAreFinite ==
  ASSUME NEW hashes \in Hashes
  PROVE  IsFiniteSet(Cold(hashes).index.arcs)
<1>1. IsFiniteSet(ArcsAmong(Facts(hashes), hashes))
  BY FactsAreOfTheirText, ArcsAmongAreFinite
<1>2. Cold(hashes).index.arcs \subseteq Cold(hashes).arcs
  <2> DEFINE c == Cold(hashes)
             arcs == DefinitiveArcs(Facts(hashes), hashes, c.arcs)
  <2>1. c.index = [documents |-> c.documents, arcs |-> arcs]
    BY ColdHas
  <2> HIDE DEF c, arcs
  <2>2. Cold(hashes).index.arcs = DefinitiveArcs(Facts(hashes), hashes, Cold(hashes).arcs)
    BY <2>1 DEF c, arcs
  <2> QED
    BY <2>2 DEF DefinitiveArcs
<1>3. Cold(hashes).arcs \subseteq ArcsAmong(Facts(hashes), hashes)
  BY ColdHas, RebuiltArcsAreAmong
<1>4. Cold(hashes).index.arcs \subseteq ArcsAmong(Facts(hashes), hashes)
  BY <1>2, <1>3
<1> QED
  BY <1>1, <1>4, FS_Subset

-----------------------------------------------------------------------------
(* Queries *)

(* Looked up in an index that lists the documents as they are, the symbols *)
(* of a scope are those a scan finds.                                      *)
LEMMA SyntaxDocumentsAreFound ==
  ASSUME NEW s, s.documents \in Seq(AllFacts), NEW keys, keys.documents = s.documents, NEW scope
  PROVE  SyntaxDocuments(s, keys, scope) = {d \in ToSet(s.documents) : d.kind = "SYNTAX" /\ d.path \in scope.paths}
<1> DEFINE documents == s.documents
           places == {i \in DOMAIN documents : documents[i].kind = "SYNTAX" /\ documents[i].path \in scope.paths}
<1>1. SyntaxDocuments(s, keys, scope) =
        {documents[i] : i \in {i \in DOMAIN keys.documents \cap DOMAIN documents :
                                 keys.documents[i].kind = "SYNTAX" /\ keys.documents[i].path \in scope.paths}}
  BY DEF SyntaxDocuments, Lookup
<1>2. SyntaxDocuments(s, keys, scope) = {documents[i] : i \in places}
  BY <1>1
<1>3. ToSet(documents) = {documents[i] : i \in DOMAIN documents}
  BY DEF ToSet
<1> QED
  BY <1>2, <1>3

(* The matches of a query in the graph of some texts.                      *)
Matches(hashes, query) == Search(Cold(hashes), Indexed(Cold(hashes)), WholeScope, query)

(* The index of a cold graph holds what a scan of it finds.                *)
LEMMA ColdIndexIsScan ==
  ASSUME NEW hashes \in Hashes
  PROVE  Indexed(Cold(hashes)) = Scanned(Cold(hashes))
<1> DEFINE c == Cold(hashes)
           facts == Facts(hashes)
<1>1. c.index = [documents |-> c.documents, arcs |-> DefinitiveArcs(facts, hashes, c.arcs)]
  BY ColdHas
<1>2. ToSet(c.documents) = facts /\ c.hashes = hashes
  BY ColdHas
<1>3. Scanned(c) = [documents |-> c.documents, arcs |-> DefinitiveArcs(ToSet(c.documents), c.hashes, c.arcs)]
  BY DEF Scanned
<1> HIDE DEF c, facts
<1>4. Indexed(c) = Scanned(c)
  BY <1>1, <1>2, <1>3 DEF Indexed
<1> QED
  BY <1>4 DEF c

(* The matches of a query are symbols of the texts searched.               *)
LEMMA MatchesAreSymbols ==
  ASSUME NEW hashes \in Hashes, NEW query \in Queries
  PROVE  /\ Matches(hashes, query) \in Seq(Facts(hashes))
         /\ Len(Matches(hashes, query)) \in Nat
         /\ \A d \in ToSet(Matches(hashes, query)) : d \in Facts(hashes) /\ d.kind = "SYNTAX"
<1> DEFINE c == Cold(hashes)
           symbols == SyntaxDocuments(c, Indexed(c), WholeScope)
           S == {d \in symbols : Rank[query][d.name] # Nothing}
           Better(d, e) ==
             \/ Rank[query][d.name] < Rank[query][e.name]
             \/ Rank[query][d.name] = Rank[query][e.name] /\ Earlier(d, e)
           f == InOrder(S, Better)
           below == [x \in S |-> {y \in S : Better(y, x)}]
<1>1. Matches(hashes, query) = f
  BY DEF Matches, Search
<1>2. symbols = {d \in Facts(hashes) : d.kind = "SYNTAX" /\ d.path \in WholeScope.paths}
  <2>1. c.documents \in Seq(AllFacts) /\ ToSet(c.documents) = Facts(hashes)
    BY ColdHas
  <2>2. Indexed(c).documents = c.documents
    <3>1. Indexed(c) = Scanned(c)
      BY ColdIndexIsScan
    <3> HIDE DEF c
    <3> QED
      BY <3>1 DEF Scanned
  <2> HIDE DEF c
  <2>3. symbols = {d \in ToSet(c.documents) : d.kind = "SYNTAX" /\ d.path \in WholeScope.paths}
    BY <2>1, <2>2, SyntaxDocumentsAreFound
  <2> HIDE DEF symbols
  <2> QED
    BY <2>1, <2>3
<1> HIDE DEF symbols
<1>3. S \subseteq Facts(hashes) /\ \A d \in S : d.kind = "SYNTAX"
  BY <1>2
<1>4. IsFiniteSet(S)
  <2> HIDE DEF S
  <2> QED
    BY <1>3, FactsAreOfTheirText, FS_Subset
<1>5. \A d \in S : /\ d.path \in Nat /\ d.span[1] \in Nat /\ d.id \in Nat
                   /\ Rank[query][d.name] \in Nat
  <2> TAKE d \in S
  <2>1. d \in AllFacts /\ d.kind = "SYNTAX"
    BY <1>3, FactsAreOfTheirText
  <2>2. d.path \in Paths /\ d.span \in Nat \X Nat /\ d.id \in Nat /\ Rank[query][d.name] \in Nat \cup {Nothing}
    BY <2>1, FactsHaveTheirKind
  <2>3. Rank[query][d.name] # Nothing
    OBVIOUS
  <2> QED
    BY <2>2, <2>3, PathsAreFinite
<1>6. \A d, e \in S : Node(d) = Node(e) => d = e
  <2> HIDE DEF S
  <2> QED
    BY <1>3, FactsAreOfTheirText
<1> HIDE DEF S
<1>7. \A x \in S : ~Better(x, x)
  BY <1>5 DEF Earlier
<1>8. \A x, y \in S : x # y => Better(x, y) \/ Better(y, x)
  BY <1>5, <1>6 DEF Earlier, Node
<1>9. \A x, y, z \in S : Better(x, y) /\ Better(y, z) => Better(x, z)
  BY <1>5 DEF Earlier
<1>10. IsOrder(below, S)
  <2> HIDE DEF Better
  <2> QED
    BY <1>7, <1>8, <1>9 DEF IsOrder
<1>11. IsListing(f, S, below)
  <2> DEFINE placed == {<<Cardinality({y \in S : Better(y, x)}) + 1, x>> : x \in S}
  <2>1. f = [k \in 1 .. Cardinality(S) |-> (CHOOSE p \in placed : p[1] = k)[2]]
    BY DEF InOrder
  <2>2. placed = {<<Cardinality(below[x]) + 1, x>> : x \in S}
    OBVIOUS
  <2> HIDE DEF below, placed, f
  <2> QED
    BY <2>1, <2>2 DEF IsListing
<1> HIDE DEF below, f, Better
<1>12. f \in Seq(S) /\ Len(f) \in Nat /\ ToSet(f) = S
  BY <1>4, <1>10, <1>11, ListingListsAll
<1>13. f \in Seq(Facts(hashes))
  BY <1>3, <1>12
<1> QED
  BY <1>1, <1>3, <1>12, <1>13

-----------------------------------------------------------------------------
(* Pages *)

(* The first o elements and the next ones up to e are the first e.         *)
LEMMA PagesJoin ==
  ASSUME NEW S, NEW matches \in Seq(S), Len(matches) \in Nat, NEW o \in 0 .. Len(matches), NEW e \in o .. Len(matches)
  PROVE  /\ SubSeq(matches, 1, o) \o SubSeq(matches, o + 1, e) = SubSeq(matches, 1, e)
         /\ SubSeq(matches, 1, 0) = <<>> /\ SubSeq(matches, 1, Len(matches)) = matches
<1> DEFINE a == SubSeq(matches, 1, o)
           b == SubSeq(matches, o + 1, e)
           all == SubSeq(matches, 1, e)
<1>1. o \in Nat /\ e \in Nat /\ o <= e /\ e <= Len(matches)
  OBVIOUS
<1>2. a \in Seq(S) /\ Len(a) = o /\ \A i \in 1 .. o : a[i] = matches[i]
  BY <1>1
<1>3. b \in Seq(S) /\ Len(b) = e - o /\ \A i \in 1 .. e - o : b[i] = matches[o + i]
  BY <1>1
<1>4. all \in Seq(S) /\ Len(all) = e /\ \A i \in 1 .. e : all[i] = matches[i]
  BY <1>1
<1>5. a \o b = all
  <2> HIDE DEF a, b, all
  <2>1. a \o b \in Seq(S) /\ Len(a \o b) = e
    <3>1. a \in Seq(S) /\ b \in Seq(S)
      BY <1>2, <1>3
    <3>2. a \o b \in Seq(S)
      BY ONLY <3>1
    <3>3. Len(a \o b) = Len(a) + Len(b)
      BY ONLY <3>1
    <3>4. Len(a) = o /\ Len(b) = e - o
      BY <1>2, <1>3
    <3>5. Len(a \o b) = e
      BY ONLY <1>1, <3>3, <3>4
    <3> QED
      BY ONLY <3>2, <3>5
  <2>2. ASSUME NEW i \in 1 .. e  PROVE (a \o b)[i] = all[i]
    <3>1. CASE i <= o
      BY <1>1, <1>2, <1>3, <1>4, <3>1
    <3>2. CASE i > o
      <4>1. i - o \in 1 .. e - o /\ o + (i - o) = i
        BY <1>1, <3>2
      <4>2. i \in 1 .. Len(a) + Len(b) /\ ~(i <= Len(a))
        BY <1>1, <1>2, <1>3, <3>2
      <4>3. (a \o b)[i] = b[i - Len(a)]
        BY ONLY <1>2, <1>3, <4>2
      <4> QED
        BY <1>2, <1>3, <1>4, <4>1, <4>3
    <3>3. i <= o \/ i > o
      BY <1>1
    <3> QED
      BY <3>1, <3>2, <3>3
  <2> DEFINE ab == a \o b
  <2>3. ab \in Seq(S) /\ Len(ab) = e /\ \A i \in 1 .. e : ab[i] = all[i]
    BY <2>1, <2>2
  <2> HIDE DEF ab
  <2>4. ab = all
    BY ONLY <1>4, <2>3
  <2> QED
    BY <2>4 DEF ab
<1>6. SubSeq(matches, 1, 0) = <<>>
  OBVIOUS
<1>7. SubSeq(matches, 1, Len(matches)) = matches
  OBVIOUS
<1> QED
  BY <1>5, <1>6, <1>7

(* Of two changed trees only the same has the same snapshot.               *)
LEMMA SnapshotsTellApart ==
  ASSUME NEW g \in Hashes, NEW h \in Hashes, Snapshot(g) = Snapshot(h)
  PROVE  g = h
<1>1. Changed(g) = DOMAIN Snapshot(g) /\ Changed(h) = DOMAIN Snapshot(h)
  BY DEF Snapshot
<1>2. Changed(g) = Changed(h)
  BY <1>1
<1>3. ASSUME NEW p \in Paths  PROVE g[p] = h[p]
  <2>1. CASE p \in Changed(g)
    <3>1. Snapshot(g)[p] = g[p] /\ Snapshot(h)[p] = h[p]
      BY <1>2, <2>1 DEF Snapshot
    <3> QED
      BY <3>1
  <2>2. CASE p \notin Changed(g)
    <3>1. g[p] = Base[p] /\ h[p] = Base[p]
      BY <1>2, <2>2 DEF Changed
    <3> QED
      BY <3>1
  <2> QED
    BY <2>1, <2>2
<1> QED
  BY <1>3 DEF Hashes

(* A snapshot is never the value that stands for none.                     *)
LEMMA SnapshotIsSomething ==
  ASSUME NEW h \in Hashes
  PROVE  Snapshot(h) # Nothing /\ h # Nothing
<1>1. \A some \in SUBSET Paths : Nothing \notin [some -> Texts]
  BY GraphAssumption
<1>2. Changed(h) \in SUBSET Paths /\ Snapshot(h) \in [Changed(h) -> Texts]
  BY DEF Changed, Snapshot, Hashes
<1>3. Paths \in SUBSET Paths /\ h \in [Paths -> Texts]
  BY DEF Hashes
<1> QED
  BY <1>1, <1>2, <1>3

(* What a client that lost nothing has: as many of the matches of one      *)
(* graph as its offset says, or all of them.                               *)
Walking(c, hashes) ==
  LET all == Matches(hashes, c.query) IN
  /\ c.query \in Queries /\ hashes \in Hashes /\ c.snapshot = Snapshot(hashes)
  /\ \/ c.of = Nothing /\ c.offset \in 1 .. Len(all) /\ c.got = SubSeq(all, 1, c.offset)
     \/ c.of = hashes /\ c.offset = 0 /\ c.got = all
ClientOK(c) == c.clean => c = Idle \/ \E hashes \in Hashes : Walking(c, hashes)

-----------------------------------------------------------------------------
(* The inductive invariant *)

(* The graph always holds the facts of the texts it has read, sorted or    *)
(* not; and unless a refresh failed it is the graph of these texts.        *)
GraphInv ==
  /\ tree \in Hashes /\ torn \in BOOLEAN
  /\ HoldsItsFacts(stored) /\ IsFiniteSet(stored.index.arcs)
  /\ ~torn => stored = Cold(stored.hashes)
ServedInv == GraphInv /\ ClientOK(client)

(* The graph of the committed revision has the invariant.                  *)
LEMMA GraphInitHasInv == GraphInit => ServedInv
<1> SUFFICES ASSUME GraphInit PROVE ServedInv
  OBVIOUS
<1>1. Base \in Hashes
  BY GraphAssumption DEF Hashes
<1>2. tree = Base /\ torn = FALSE /\ stored = Cold(Base) /\ client = Idle
  BY DEF GraphInit
<1>3. HoldsItsFacts(stored) /\ stored.hashes = Base
  BY <1>1, <1>2, ColdHas DEF HoldsItsFacts
<1>4. IsFiniteSet(stored.index.arcs)
  BY <1>1, <1>2, IndexedArcsAreFinite
<1>5. GraphInv
  BY <1>1, <1>2, <1>3, <1>4 DEF GraphInv
<1> QED
  BY <1>2, <1>5 DEF ServedInv, ClientOK

(* A refresh leaves a graph of the texts it has read.                      *)
LEMMA RefreshKeepsInv ==
  ASSUME GraphInv, Refresh, UNCHANGED tree
  PROVE  GraphInv' /\ (~torn' => stored' = Cold(stored'.hashes) /\ stored'.hashes \in Hashes)
<1> DEFINE outdated == {p \in Candidates : Outdated(p)}
           loaded == LoadAll(stored, outdated)
<1>1. tree \in Hashes /\ torn \in BOOLEAN /\ HoldsItsFacts(stored) /\ IsFiniteSet(stored.index.arcs)
  BY DEF GraphInv
<1>2. CASE outdated = {}
  <2>1. UNCHANGED <<tree, stored, torn>>
    BY <1>2 DEF Refresh
  <2>2. GraphInv'
    BY <2>1 DEF GraphInv, HoldsItsFacts, IsStored
  <2> QED
    BY <2>2 DEF GraphInv, HoldsItsFacts
<1>3. CASE outdated # {}
  <2>1. stored' = Normalize(loaded) /\ torn' = FALSE /\ tree' = tree
    BY <1>3 DEF Refresh
  <2>2. HoldsItsFacts(loaded)
    <3> HIDE DEF outdated
    <3> QED
      BY <1>1, LoadAllKeepsFacts
  <2> HIDE DEF loaded
  <2> DEFINE h == loaded.hashes
  <2>3. h \in Hashes /\ IsStored(loaded) /\ ToSet(loaded.documents) = Facts(h)
    BY <2>2 DEF HoldsItsFacts
  <2>4. stored' = GraphOf(h)
    BY <2>1, <2>3, NormalizedIsBuilt
  <2> HIDE DEF h
  <2>5. stored' = Cold(h)
    BY <2>3, <2>4, ColdIsBuilt
  <2>6. stored'.hashes = h /\ HoldsItsFacts(stored')
    <3>1. /\ IsStored(Cold(h)) /\ Cold(h).hashes = h
          /\ Cold(h).documents \in Seq(AllFacts) /\ ToSet(Cold(h).documents) = Facts(h)
      BY <2>3, ColdHas
    <3> QED
      BY <2>3, <2>5, <3>1 DEF HoldsItsFacts
  <2>7. IsFiniteSet(stored'.index.arcs)
    BY <2>3, <2>5, IndexedArcsAreFinite
  <2>8. GraphInv'
    BY <1>1, <2>1, <2>5, <2>6, <2>7 DEF GraphInv, HoldsItsFacts, IsStored
  <2> QED
    BY <2>3, <2>5, <2>6, <2>8
<1> QED
  BY <1>2, <1>3

(* A refresh that fails half-way leaves a torn graph, and one that says    *)
(* so.                                                                     *)
LEMMA FailingRefreshKeepsInv ==
  ASSUME GraphInv, NEW p \in Paths, RefreshFails(p), UNCHANGED tree
  PROVE  GraphInv' /\ torn' = TRUE
<1> DEFINE changed == {q \in {q \in Candidates : q < p} : Outdated(q)}
           loaded == LoadAll(stored, changed)
<1>1. stored' = loaded /\ torn' = TRUE /\ tree' = tree
  BY DEF RefreshFails
<1>2. tree \in Hashes /\ HoldsItsFacts(stored) /\ IsFiniteSet(stored.index.arcs)
  BY DEF GraphInv
<1>3. HoldsItsFacts(loaded) /\ loaded.index = stored.index
  <2> HIDE DEF changed
  <2> QED
    BY <1>2, LoadAllKeepsFacts
<1> HIDE DEF loaded
<1>4. HoldsItsFacts(stored') /\ IsFiniteSet(stored'.index.arcs)
  BY <1>1, <1>2, <1>3
<1> QED
  BY <1>1, <1>2, <1>4 DEF GraphInv, HoldsItsFacts, IsStored

(* A page that is taken is the next one of the walk, or the last.          *)
LEMMA TakingKeepsWalking ==
  ASSUME NEW from, ClientOK(from), NEW query \in Queries, NEW limit \in Limits,
         from = Idle \/ (from.offset > 0 /\ from.query = query),
         ~torn' => stored' = Cold(stored'.hashes) /\ stored'.hashes \in Hashes,
         Take(query, from, limit)
  PROVE  ClientOK(client')
<1> DEFINE g == stored'
           page == Page(Search(g, Indexed(g), WholeScope, query), from.offset, limit)
           next == [query |-> query, snapshot |-> g.snapshot,
                    offset |-> IF page.next = Nothing THEN 0 ELSE page.next,
                    got |-> from.got \o page.rows,
                    clean |-> from.clean /\ ~torn',
                    of |-> IF page.next = Nothing THEN g.hashes ELSE Nothing]
<1>1. client' = IF page.refused \/ (from.snapshot # Nothing /\ from.snapshot # g.snapshot) THEN Idle ELSE next
  BY DEF Take
<1>2. CASE page.refused \/ (from.snapshot # Nothing /\ from.snapshot # g.snapshot)
  <2>1. client' = Idle
    BY <1>1, <1>2
  <2> QED
    BY <2>1 DEF ClientOK
<1>3. CASE ~(page.refused \/ (from.snapshot # Nothing /\ from.snapshot # g.snapshot))
  <2>1. client' = next
    BY <1>1, <1>3
  <2> SUFFICES ASSUME from.clean, ~torn' PROVE \E hashes \in Hashes : Walking(next, hashes)
    BY <2>1 DEF ClientOK
  <2> DEFINE h == g.hashes
             all == Matches(h, query)
             N == Len(all)
             o == from.offset
  <2>2. h \in Hashes /\ g = Cold(h)
    OBVIOUS
  <2>3. g.snapshot = Snapshot(h)
    BY <2>2, ColdHas
  <2>4. Search(g, Indexed(g), WholeScope, query) = all
    BY <2>2 DEF Matches
  <2>5. all \in Seq(Facts(h)) /\ N \in Nat
    BY <2>2, MatchesAreSymbols
  <2>6. o \in 0 .. N /\ from.got = SubSeq(all, 1, o)
    <3>1. CASE from = Idle
      <4>1. o = 0 /\ from.got = <<>>
        BY <3>1 DEF Idle
      <4>2. 0 \in 0 .. N
        BY <2>5
      <4>3. SubSeq(all, 1, 0) = <<>>
        <5> HIDE DEF all
        <5> QED
          BY <2>5, <4>2, PagesJoin
      <4> QED
        BY <4>1, <4>2, <4>3
    <3>2. CASE from # Idle
      <4>1. from.offset > 0 /\ from.query = query
        BY <3>2
      <4>2. PICK k \in Hashes : Walking(from, k)
        BY <3>2 DEF ClientOK
      <4>3. from.snapshot = Snapshot(k)
        BY <4>2 DEF Walking
      <4>4. from.snapshot # Nothing
        BY <4>3, SnapshotIsSomething
      <4>5. Snapshot(k) = Snapshot(h)
        BY <1>3, <2>3, <4>3, <4>4
      <4>6. k = h
        <5> HIDE DEF h
        <5> QED
          BY <2>2, <4>5, SnapshotsTellApart
      <4>7. \/ from.offset \in 1 .. N /\ from.got = SubSeq(all, 1, from.offset)
            \/ from.offset = 0
        BY <4>1, <4>2, <4>6 DEF Walking
      <4>8. from.offset # 0
        BY <4>1
      <4> HIDE DEF all, N
      <4> QED
        BY <2>5, <4>7, <4>8
    <3> QED
      BY <3>1, <3>2
  <2> DEFINE end == o + limit
             e == IF end < N THEN end ELSE N
  <2>7. /\ page.rows = SubSeq(all, o + 1, e)
        /\ page.next = IF end >= N THEN Nothing ELSE end
    <3>1. page = [rows |-> SubSeq(all, o + 1, e), next |-> IF end >= N THEN Nothing ELSE end,
                  refused |-> end < N /\ end > MaxOffset]
      BY <2>4 DEF Page
    <3> HIDE DEF page
    <3> QED
      BY <3>1
  <2>8. limit \in Nat /\ limit # 0 /\ Nothing \notin Nat
    BY GraphAssumption
  <2> HIDE DEF page, all, N, o, h
  <2>9. e \in o .. N /\ (end >= N => e = N) /\ (end < N => e = end /\ end \in 1 .. N) /\ end \in Nat
    BY <2>5, <2>6, <2>8
  <2>10. from.got \o page.rows = SubSeq(all, 1, e) /\ SubSeq(all, 1, N) = all
    <3> HIDE DEF e, end
    <3>1. SubSeq(all, 1, o) \o SubSeq(all, o + 1, e) = SubSeq(all, 1, e) /\ SubSeq(all, 1, N) = all
      BY <2>5, <2>6, <2>9, PagesJoin DEF N
    <3> QED
      BY <2>6, <2>7, <3>1
  <2>11. next.query = query /\ next.snapshot = Snapshot(h) /\ next.got = SubSeq(all, 1, e)
    BY <2>3, <2>10
  <2>12. \/ next.of = Nothing /\ next.offset \in 1 .. N /\ next.got = SubSeq(all, 1, next.offset)
         \/ next.of = h /\ next.offset = 0 /\ next.got = all
    <3>1. CASE end >= N
      <4>1. page.next = Nothing /\ e = N
        BY <2>7, <2>9, <3>1
      <4>2. next.of = g.hashes /\ next.offset = 0
        BY <4>1
      <4> HIDE DEF next, e
      <4> QED
        BY <2>10, <2>11, <4>1, <4>2 DEF h
    <3>2. CASE ~(end >= N)
      <4>1. end < N
        BY <2>5, <2>9, <3>2
      <4>2. page.next = end /\ end # Nothing /\ e = end /\ end \in 1 .. N
        BY <2>7, <2>8, <2>9, <3>2, <4>1
      <4>3. next.of = Nothing /\ next.offset = end
        BY <4>2
      <4> HIDE DEF next, e, end
      <4> QED
        BY <2>11, <4>2, <4>3
    <3> QED
      BY <3>1, <3>2
  <2> HIDE DEF next
  <2>13. Walking(next, h)
    BY <2>2, <2>11, <2>12 DEF Walking, h, all, N
  <2> QED
    BY <2>2, <2>13 DEF h
<1> QED
  BY <1>2, <1>3

(* What the client was told stays true while it asks nothing.              *)
LEMMA ClientIsLeftAlone ==
  ASSUME ClientOK(client), UNCHANGED client
  PROVE  ClientOK(client)'
BY DEF ClientOK, Walking, Matches, Idle

(* Every step keeps the invariant.                                         *)
LEMMA GraphNextKeepsInv == ServedInv /\ [GraphNext]_graphVars => ServedInv'
<1> SUFFICES ASSUME ServedInv, [GraphNext]_graphVars PROVE ServedInv'
  OBVIOUS
<1> USE DEF ServedInv
<1>1. ASSUME NEW p \in Paths, Edit(p)  PROVE ServedInv'
  <2>1. tree' \in Hashes /\ UNCHANGED <<stored, torn, client>>
    <3>1. tree \in [Paths -> Texts]
      BY DEF GraphInv, Hashes
    <3>2. PICK text \in TextsOf[p] : tree' = [tree EXCEPT ![p] = text]
      BY <1>1 DEF Edit
    <3>3. text \in Texts
      BY <3>2, GraphAssumption
    <3> QED
      BY <1>1, <3>1, <3>2, <3>3 DEF Edit, Hashes
  <2>2. GraphInv'
    BY <2>1 DEF GraphInv, HoldsItsFacts, IsStored
  <2> QED
    BY <2>1, <2>2, ClientIsLeftAlone
<1>2. ASSUME NEW p \in Paths, FailingTool(p)  PROVE ServedInv'
  BY <1>2, FailingRefreshKeepsInv, ClientIsLeftAlone DEF FailingTool
<1>3. ASSUME AnyTool  PROVE ServedInv'
  BY <1>3, RefreshKeepsInv, ClientIsLeftAlone DEF AnyTool
<1>4. ASSUME NEW limit \in Limits, NextPage(limit)  PROVE ServedInv'
  <2>1. client.offset > 0 /\ Refresh /\ Take(client.query, client, limit) /\ UNCHANGED tree
    BY <1>4 DEF NextPage
  <2>2. GraphInv' /\ (~torn' => stored' = Cold(stored'.hashes) /\ stored'.hashes \in Hashes)
    BY <2>1, RefreshKeepsInv
  <2>3. CASE client.clean
    <3>1. client # Idle
      BY <2>1 DEF Idle
    <3>2. client.query \in Queries
      BY <2>3, <3>1 DEF ClientOK, Walking
    <3>3. ClientOK(client')
      BY <2>1, <2>2, <3>2, TakingKeepsWalking
    <3> QED
      BY <2>2, <3>3
  <2>4. CASE ~client.clean
    <3>1. client' = Idle \/ client'.clean = (client.clean /\ ~torn')
      BY <2>1 DEF Take
    <3>2. ClientOK(client')
      BY <2>4, <3>1 DEF ClientOK
    <3> QED
      BY <2>2, <3>2
  <2> QED
    BY <2>3, <2>4
<1>5. ASSUME NEW limit \in Limits, NEW query \in Queries, FirstPage(query, limit)  PROVE ServedInv'
  <2>1. Refresh /\ Take(query, Idle, limit) /\ UNCHANGED tree
    BY <1>5 DEF FirstPage
  <2>2. GraphInv' /\ (~torn' => stored' = Cold(stored'.hashes) /\ stored'.hashes \in Hashes)
    BY <2>1, RefreshKeepsInv
  <2>3. ClientOK(Idle)
    BY DEF ClientOK
  <2>4. ClientOK(client')
    BY <2>1, <2>2, <2>3, TakingKeepsWalking
  <2> QED
    BY <2>2, <2>4
<1>6. CASE UNCHANGED graphVars
  <2>1. UNCHANGED <<tree, stored, torn, client>>
    BY <1>6 DEF graphVars
  <2>2. GraphInv'
    BY <2>1 DEF GraphInv, HoldsItsFacts, IsStored
  <2> QED
    BY <2>1, <2>2, ClientIsLeftAlone
<1> QED
  BY <1>1, <1>2, <1>3, <1>4, <1>5, <1>6 DEF GraphNext

(* Whatever is edited and whichever refreshes fail.                        *)
LEMMA ServedInvHolds == GraphSpec => []ServedInv
BY GraphInitHasInv, GraphNextKeepsInv, PTL DEF GraphSpec

-----------------------------------------------------------------------------
(* What the invariant says *)

(* The index answers every query as a scan of the graph would, because it  *)
(* is that scan whenever a refresh has completed: any files, texts, scopes *)
(* and edits.                                                              *)
THEOREM IndexAnswers == GraphSpec => []IndexAnswersAsAScan
<1>1. ServedInv => IndexAnswersAsAScan
  <2> SUFFICES ASSUME ServedInv, ~torn PROVE IndexAnswersAsAScan
    BY DEF IndexAnswersAsAScan
  <2>1. stored = Cold(stored.hashes) /\ stored.hashes \in Hashes
    BY DEF ServedInv, GraphInv, HoldsItsFacts
  <2>2. Indexed(stored) = Scanned(stored)
    BY <2>1, ColdIndexIsScan
  <2> QED
    BY <2>2 DEF IndexAnswersAsAScan
<1> QED
  BY <1>1, ServedInvHolds, PTL

(* A graph refreshed edit by edit is the graph a cold index builds.        *)
THEOREM RefreshIsCold == GraphSpec => []RefreshedIsCold
<1>1. ServedInv => RefreshedIsCold
  BY DEF ServedInv, GraphInv, RefreshedIsCold
<1> QED
  BY <1>1, ServedInvHolds, PTL

(* Sites that hold another: one of them is held by no other.               *)
LEMMA OutermostExists ==
  ASSUME NEW S, IsFiniteSet(S), \A d \in S : d.span \in Nat \X Nat, NEW x \in S
  PROVE  \E e \in S : /\ e.span = x.span \/ Within(x.span, e.span)
                      /\ \A f \in S : Within(e.span, f.span) => f.span = e.span
<1> DEFINE around == {e \in S : e.span = x.span \/ Within(x.span, e.span)}
           Above(e) == {f \in around : f.span # e.span /\ Within(e.span, f.span)}
           above == [e \in around |-> Cardinality(Above(e))]
           counts == {above[e] : e \in around}
<1>1. IsFiniteSet(around)
  BY FS_Subset
<1>2. \A e \in around : IsFiniteSet(Above(e)) /\ Cardinality(Above(e)) \in Nat
  <2> TAKE e \in around
  <2>1. Above(e) \subseteq around
    OBVIOUS
  <2> HIDE DEF around, Above
  <2>2. IsFiniteSet(Above(e))
    BY <1>1, <2>1, FS_Subset
  <2> QED
    BY <2>2, FS_CardinalityType
<1>3. counts \in SUBSET Nat /\ counts # {}
  <2>1. x \in around
    OBVIOUS
  <2>2. \A e \in around : above[e] \in Nat
    BY <1>2
  <2> HIDE DEF around, above
  <2> QED
    BY <2>1, <2>2
<1>4. PICK e \in around : \A f \in around : above[e] <= above[f]
  <2>1. PICK k \in counts : \A l \in counts : k <= l
    <3> HIDE DEF counts
    <3> QED
      BY <1>3, LeastExists
  <2> HIDE DEF around, above
  <2> QED
    BY <2>1
<1>5. ASSUME NEW f \in S, Within(e.span, f.span), f.span # e.span
      PROVE  FALSE
  <2>1. /\ x.span \in Nat \X Nat /\ e.span \in Nat \X Nat /\ f.span \in Nat \X Nat
        /\ e.span = x.span \/ Within(x.span, e.span)
    OBVIOUS
  <2>2. Within(x.span, f.span)
    BY <1>5, <2>1 DEF Within
  <2>3. f \in around /\ f \in Above(e)
    BY <1>5, <2>2
  <2>4. f \notin Above(f)
    OBVIOUS
  <2>5. Above(f) \subseteq Above(e)
    <3> SUFFICES ASSUME NEW g \in Above(f) PROVE g \in Above(e)
      OBVIOUS
    <3>1. g \in around /\ g.span # f.span /\ Within(f.span, g.span) /\ g.span \in Nat \X Nat
      OBVIOUS
    <3>2. Within(e.span, g.span)
      BY <1>5, <2>1, <3>1 DEF Within
    <3>3. g.span # e.span
      <4> SUFFICES ASSUME g.span = e.span PROVE FALSE
        OBVIOUS
      <4>1. Within(e.span, f.span) /\ Within(f.span, e.span)
        BY <1>5, <3>1
      <4>2. e.span = f.span
        BY <2>1, <4>1 DEF Within
      <4> QED
        BY <1>5, <4>2
    <3> QED
      BY <3>1, <3>2, <3>3
  <2> HIDE DEF Above, around
  <2>6. Cardinality(Above(f)) < Cardinality(Above(e))
    <3>1. IsFiniteSet(Above(e)) /\ Above(f) # Above(e)
      BY <1>2, <2>3, <2>4
    <3>2. /\ Cardinality(Above(f)) <= Cardinality(Above(e))
          /\ (Cardinality(Above(f)) = Cardinality(Above(e)) => Above(e) = Above(f))
      BY <2>5, <3>1, FS_Subset
    <3> QED
      BY <1>2, <2>3, <3>1, <3>2
  <2> QED
    BY <1>2, <1>4, <2>3, <2>6
<1> QED
  BY <1>4, <1>5

(* A tracked site has an arc proved from the current text, or is a gap, or *)
(* is a dynamic site within one.                                           *)
THEOREM NothingIsSilent == GraphSpec => []NoSilentGap
<1>1. ServedInv => NoSilentGap
  <2> SUFFICES ASSUME ServedInv, ~torn, NEW d \in ToSet(stored.documents), d.tracked
               PROVE  \/ \E a \in stored.arcs : /\ <<a.path, a.span>> = Site(d) /\ a.kind = d.kind
                                                /\ a.hash = stored.hashes[d.path]
                      \/ Site(d) \in stored.gaps
                      \/ d.dynamic /\ \E g \in stored.gaps : g[1] = d.path /\ Within(d.span, g[2])
    BY DEF NoSilentGap
  <2> DEFINE h == stored.hashes
             docs == stored.documents
             arcs == stored.arcs
             Open(e) == ~\E a \in arcs : <<a.path, a.span>> = Site(e) /\ a.kind = e.kind /\ a.hash = h[a.path]
             open == {e \in ToSet(docs) : e.tracked /\ Open(e)}
             inner == {e \in open : e.dynamic /\ \E f \in open :
                         f.dynamic /\ f.path = e.path /\ f.span # e.span /\ Within(e.span, f.span)}
  <2>1. stored = Cold(h) /\ h \in Hashes
    BY DEF ServedInv, GraphInv, HoldsItsFacts
  <2>2. stored.gaps = {Site(e) : e \in open \ inner}
    <3>1. stored.gaps = GapsOf(docs, arcs, h)
      BY <2>1, ColdHas
    <3> QED
      BY <3>1 DEF GapsOf
  <2>3. IsFiniteSet(ToSet(docs)) /\ \A e \in ToSet(docs) : e.span \in Nat \X Nat
    <3>1. ToSet(docs) = Facts(h)
      BY <2>1, ColdHas
    <3> QED
      BY <2>1, <3>1, FactsAreOfTheirText, FactsHaveTheirKind
  <2>4. CASE ~Open(d)
    <3>1. PICK a \in arcs : <<a.path, a.span>> = Site(d) /\ a.kind = d.kind /\ a.hash = h[a.path]
      BY <2>4
    <3>2. a.path = d.path
      BY <3>1 DEF Site
    <3> QED
      BY <3>1, <3>2
  <2>5. CASE Open(d)
    <3>1. d \in open
      BY <2>5
    <3>2. CASE d \notin inner
      BY <2>2, <3>1, <3>2
    <3>3. CASE d \in inner
      <4> DEFINE S == {e \in open : e.dynamic /\ e.path = d.path}
      <4>1. d.dynamic /\ d \in S
        BY <3>1, <3>3
      <4>2. IsFiniteSet(S)
        <5>1. S \subseteq ToSet(docs)
          OBVIOUS
        <5> HIDE DEF S
        <5> QED
          BY <2>3, <5>1, FS_Subset
      <4>3. \A e \in S : e.span \in Nat \X Nat
        BY <2>3
      <4>4. PICK e \in S : /\ e.span = d.span \/ Within(d.span, e.span)
                           /\ \A f \in S : Within(e.span, f.span) => f.span = e.span
        <5> HIDE DEF S
        <5> QED
          BY <4>1, <4>2, <4>3, OutermostExists
      <4>5. e \in open \ inner /\ e.path = d.path
        BY <4>4
      <4>6. Site(e) \in stored.gaps /\ Site(e)[1] = d.path /\ Site(e)[2] = e.span
        <5> HIDE DEF open, inner
        <5> QED
          BY <2>2, <4>5 DEF Site
      <4>7. Within(d.span, e.span)
        <5>1. d.span \in Nat \X Nat
          BY <2>3
        <5> QED
          BY <4>4, <5>1 DEF Within
      <4> HIDE DEF open, inner, S
      <4> QED
        BY <4>1, <4>6, <4>7
    <3> QED
      BY <3>2, <3>3
  <2> QED
    BY <2>4, <2>5
<1> QED
  BY <1>1, ServedInvHolds, PTL

(* The pages of a search walked under one snapshot are the matches of one  *)
(* graph, in order: any number of files, pages of any size, any edits.     *)
THEOREM PagesAreOneGraphs == GraphSpec => []PagesAddUp
<1>1. ServedInv => PagesAddUp
  <2> SUFFICES ASSUME ServedInv, client.of # Nothing, client.clean
               PROVE  client.got = Search(Cold(client.of), Scanned(Cold(client.of)), WholeScope, client.query)
    BY DEF PagesAddUp
  <2>1. client # Idle
    BY DEF Idle
  <2>2. PICK h \in Hashes : Walking(client, h)
    BY <2>1 DEF ServedInv, ClientOK
  <2>3. client.of = h /\ client.got = Matches(h, client.query)
    BY <2>2 DEF Walking
  <2>4. Indexed(Cold(h)) = Scanned(Cold(h))
    BY ColdIndexIsScan
  <2> QED
    BY <2>3, <2>4 DEF Matches
<1> QED
  BY <1>1, ServedInvHolds, PTL

(* A symbol reference that still selects something selects what it was     *)
(* issued for, in the text it was issued from.                             *)
THEOREM ReferencesStay == GraphSpec => []ReferencesKeepTheirText
<1>1. ServedInv => ReferencesKeepTheirText
  <2> SUFFICES ASSUME ServedInv, client.of # Nothing, client.clean, NEW d \in ToSet(client.got),
                      NEW e \in SelectedByReference(stored,
                                  SymbolReference([snapshot |-> client.snapshot, hashes |-> client.of], d))
               PROVE  e = d /\ stored.hashes[d.path] = client.of[d.path]
    BY DEF ReferencesKeepTheirText
  <2> DEFINE issued == [snapshot |-> client.snapshot, hashes |-> client.of]
             g == stored.hashes
  <2>1. client # Idle
    BY DEF Idle
  <2>2. PICK h \in Hashes : Walking(client, h)
    BY <2>1 DEF ServedInv, ClientOK
  <2>3. client.of = h /\ client.got = Matches(h, client.query) /\ client.query \in Queries
    BY <2>2 DEF Walking
  <2>4. d \in Facts(h)
    BY <2>3, MatchesAreSymbols
  <2>5. e \in ToSet(stored.documents) /\ SymbolReference(stored, e) = SymbolReference(issued, d)
    BY DEF SelectedByReference, Only, Syntax
  <2>6. Node(e) = Node(d) /\ g[e.path] = h[d.path]
    BY <2>3, <2>5 DEF SymbolReference
  <2>7. e.path = d.path /\ e.id = d.id
    BY <2>6 DEF Node
  <2>8. g \in Hashes /\ e \in Facts(g)
    BY <2>5 DEF ServedInv, GraphInv, HoldsItsFacts
  <2>9. /\ d \in ToSet(Documents(d.path, h[d.path])) /\ d.path \in Paths
        /\ e \in ToSet(Documents(d.path, g[d.path]))
    BY <2>4, <2>7, <2>8, FactsAreOfTheirText
  <2>10. g[d.path] = h[d.path] /\ h[d.path] \in Texts
    BY <2>6, <2>7, <2>9 DEF Hashes
  <2>11. e = d
    BY <2>7, <2>9, <2>10, DocumentsAreFacts
  <2> QED
    BY <2>3, <2>10, <2>11
<1> QED
  BY <1>1, ServedInvHolds, PTL

-----------------------------------------------------------------------------
(* The tools *)

(* Who calls what of a frontier, by these arcs.                            *)
Callers(arcs, frontier) == {a.source : a \in {a \in arcs : a.target \in frontier}}

(* The callers of a symbol other than itself, and theirs that are new; and *)
(* the calls that are found at the same hops.                              *)
FirstHop(arcs, root) == Callers(arcs, {root}) \ {root}
SecondHop(arcs, root) == Callers(arcs, FirstHop(arcs, root)) \ ({root} \cup FirstHop(arcs, root))
CallersByHop(arcs, root) == [hop \in 1 .. 2 |-> IF hop = 1 THEN FirstHop(arcs, root) ELSE SecondHop(arcs, root)]
CallsTo(arcs, root) == {a \in arcs : a.target = root}
CallsBeyond(arcs, root) ==
  {a \in arcs : a.target \in FirstHop(arcs, root) /\
     (a.source \notin {root} \cup FirstHop(arcs, root) \/ a.source = a.target)}

(* The first hop of find_usages finds the calls of the root, and the next  *)
(* those of its callers that do not come from where it was.                *)
LEMMA UsagesOfTwoHops ==
  ASSUME NEW s, NEW keys, NEW scope, NEW root, NEW arcs, arcs = ScopedArcs(s, keys, scope),
         \A a \in arcs : a.kind = "CALLS"
  PROVE  /\ Usages(s, keys, scope, root, 2)[1] = CallsTo(arcs, root)
         /\ Usages(s, keys, scope, root, 2)[2] = CallsBeyond(arcs, root)
<1> DEFINE Found(frontier, visited) ==
             {a \in arcs : a.target \in frontier /\
                (a.source \notin visited \/ (a.kind = "CALLS" /\ a.source = a.target))}
           Then(last) ==
             LET new == Found(last.next, last.visited)
                 next == {a.source : a \in new} \ last.visited
             IN  [visited |-> last.visited \cup next, next |-> next, arcs |-> new]
           start == [visited |-> {root}, next |-> {root}, arcs |-> {}]
           Body(f) == [hop \in 0 .. 2 |-> IF hop = 0 THEN start ELSE Then(f[hop - 1])]
           seen == CHOOSE f : f = Body(f)
           run == [hop \in 0 .. 2 |-> IF hop = 0 THEN start ELSE IF hop = 1 THEN Then(start) ELSE Then(Then(start))]
           usages == Usages(s, keys, scope, root, 2)
           first == Callers(arcs, {root}) \ {root}
<1>1. usages = [hop \in 1 .. 2 |-> seen[hop].arcs]
  BY DEF Usages
<1>2. run = Body(run)
  <2> HIDE DEF Then, start
  <2>1. \A hop \in 0 .. 2 : run[hop] = IF hop = 0 THEN start ELSE Then(run[hop - 1])
    <3>1. 0 .. 2 = {0, 1, 2}
      OBVIOUS
    <3>2. run[0] = start /\ run[1] = Then(start) /\ run[2] = Then(Then(start))
      OBVIOUS
    <3> HIDE DEF run
    <3> QED
      BY <3>1, <3>2
  <2> QED
    BY <2>1
<1>3. seen = Body(seen)
  <2> HIDE DEF Body, run
  <2> QED
    BY <1>2
<1>4. seen[0] = start /\ seen[1] = Then(start) /\ seen[2] = Then(seen[1])
  <2> HIDE DEF seen, Then, start
  <2>1. seen[0] = start /\ seen[1] = Then(seen[0]) /\ seen[2] = Then(seen[1])
    BY <1>3
  <2> QED
    BY <2>1
<1>5. usages[1] = seen[1].arcs /\ usages[2] = seen[2].arcs
  <2> HIDE DEF seen, usages
  <2> QED
    BY <1>1
<1> HIDE DEF seen, usages
<1>6. Found({root}, {root}) = {a \in arcs : a.target = root}
  OBVIOUS
<1>7. {a.source : a \in Found({root}, {root})} \ {root} = first
  BY <1>6 DEF Callers
<1>8. seen[1] = [visited |-> {root} \cup first, next |-> first, arcs |-> {a \in arcs : a.target = root}]
  <2>1. start.next = {root} /\ start.visited = {root}
    OBVIOUS
  <2> HIDE DEF start, first, Found
  <2>2. Found(start.next, start.visited) = {a \in arcs : a.target = root}
    BY <1>6, <2>1
  <2>3. {a.source : a \in Found(start.next, start.visited)} \ start.visited = first
    BY <1>7, <2>1
  <2>4. Then(start) = [visited |-> start.visited \cup first, next |-> first,
                       arcs |-> {a \in arcs : a.target = root}]
    BY <2>2, <2>3
  <2> HIDE DEF Then
  <2> QED
    BY <1>4, <2>1, <2>4
<1>9. seen[2].arcs = Found(first, {root} \cup first)
  <2>1. seen[1].next = first /\ seen[1].visited = {root} \cup first
    <3> HIDE DEF first
    <3> QED
      BY <1>8
  <2> HIDE DEF first, Found
  <2>2. Then(seen[1]).arcs = Found(seen[1].next, seen[1].visited)
    OBVIOUS
  <2> HIDE DEF Then
  <2> QED
    BY <1>4, <2>1, <2>2
<1>10. Found(first, {root} \cup first) =
         {a \in arcs : a.target \in first /\ (a.source \notin {root} \cup first \/ a.source = a.target)}
  <2> HIDE DEF first
  <2> QED
    OBVIOUS
<1>11. seen[1].arcs = {a \in arcs : a.target = root}
  <2> HIDE DEF first
  <2> QED
    BY <1>8
<1> HIDE DEF Found, first
<1> QED
  BY <1>5, <1>9, <1>10, <1>11 DEF first, usages, CallsTo, CallsBeyond, FirstHop

(* trace_path and explain_symbol find at the first hop the callers of the  *)
(* root, and at the next those of these that are new.                      *)
LEMMA TraceOfTwoHops ==
  ASSUME NEW s, NEW keys, NEW scope, NEW root, NEW arcs, arcs = ScopedArcs(s, keys, scope)
  PROVE  Trace(s, keys, scope, root, "callers", 2) = CallersByHop(arcs, root)
<1> DEFINE direction == "callers"
           Beside(frontier) ==
             {a.target : a \in {a \in arcs : direction # "callers" /\ a.source \in frontier}} \cup
             {a.source : a \in {a \in arcs : direction # "callees" /\ a.target \in frontier}}
           Body(f) == [hop \in 0 .. 2 |-> IF hop = 0 THEN {root}
                                          ELSE Beside(f[hop - 1]) \ UNION {f[h] : h \in 0 .. hop - 1}]
           found == CHOOSE f : f = Body(f)
           one == Beside({root}) \ {root}
           two == Beside(one) \ ({root} \cup one)
           run == [hop \in 0 .. 2 |-> IF hop = 0 THEN {root} ELSE IF hop = 1 THEN one ELSE two]
           first == Callers(arcs, {root}) \ {root}
<1>1. Trace(s, keys, scope, root, "callers", 2) = [hop \in 1 .. 2 |-> found[hop]]
  BY DEF Trace
<1>2. run = Body(run)
  <2>1. \A hop \in 0 .. 2 :
          run[hop] = IF hop = 0 THEN {root} ELSE Beside(run[hop - 1]) \ UNION {run[h] : h \in 0 .. hop - 1}
    <3>1. 0 .. 2 = {0, 1, 2} /\ 0 .. 0 = {0} /\ 0 .. 1 = {0, 1} /\ 1 - 1 = 0 /\ 2 - 1 = 1
      OBVIOUS
    <3> HIDE DEF Beside
    <3>2. run[0] = {root} /\ run[1] = one /\ run[2] = two
      <4> HIDE DEF one, two
      <4> QED
        OBVIOUS
    <3> HIDE DEF run
    <3>3. UNION {run[h] : h \in 0 .. 0} = {root} /\ UNION {run[h] : h \in 0 .. 1} = {root} \cup one
      <4> HIDE DEF one, two
      <4> QED
        BY <3>1, <3>2
    <3>4. run[1] = Beside(run[1 - 1]) \ UNION {run[h] : h \in 0 .. 1 - 1}
      BY <3>1, <3>2, <3>3
    <3>5. run[2] = Beside(run[2 - 1]) \ UNION {run[h] : h \in 0 .. 2 - 1}
      <4> HIDE DEF one
      <4> QED
        BY <3>1, <3>2, <3>3
    <3> QED
      BY <3>1, <3>2, <3>4, <3>5
  <2> HIDE DEF Beside, one, two
  <2> QED
    BY <2>1
<1>3. found = Body(found)
  <2> HIDE DEF Body, run
  <2> QED
    BY <1>2
<1>4. found[0] = {root} /\ found[1] = one /\ found[2] = two
  <2>1. 0 .. 2 = {0, 1, 2} /\ 0 .. 0 = {0} /\ 0 .. 1 = {0, 1} /\ 1 - 1 = 0 /\ 2 - 1 = 1
    OBVIOUS
  <2> HIDE DEF found, Beside
  <2>2. /\ found[0] = {root}
        /\ found[1] = Beside(found[1 - 1]) \ UNION {found[h] : h \in 0 .. 1 - 1}
        /\ found[2] = Beside(found[2 - 1]) \ UNION {found[h] : h \in 0 .. 2 - 1}
    BY <1>3, <2>1
  <2>3. UNION {found[h] : h \in 0 .. 0} = {root}
    BY <2>1, <2>2
  <2>4. found[1] = one
    BY <2>1, <2>2, <2>3
  <2>5. UNION {found[h] : h \in 0 .. 1} = {root} \cup one
    <3> HIDE DEF one
    <3> QED
      BY <2>1, <2>2, <2>4
  <2>6. found[2] = two
    <3> HIDE DEF one
    <3> QED
      BY <2>1, <2>2, <2>4, <2>5
  <2> QED
    BY <2>2, <2>4, <2>6
<1>5. \A frontier : Beside(frontier) = Callers(arcs, frontier)
  BY DEF Callers
<1>6. one = first /\ two = Callers(arcs, first) \ ({root} \cup first)
  <2> HIDE DEF Beside
  <2> QED
    BY <1>5
<1>7. Trace(s, keys, scope, root, "callers", 2) =
        [hop \in 1 .. 2 |-> IF hop = 1 THEN first ELSE Callers(arcs, first) \ ({root} \cup first)]
  <2>1. \A hop \in 1 .. 2 : hop = 1 \/ hop = 2
    OBVIOUS
  <2> HIDE DEF found, one, two, first
  <2> QED
    BY <1>1, <1>4, <1>6, <2>1
<1> QED
  BY <1>7 DEF CallersByHop, FirstHop, SecondHop

(* In a scope of calls only, the relationships are between symbols.        *)
LEMMA CallsAreBetweenSymbols ==
  ASSUME NEW s, NEW keys, NEW scope, scope.relations = {"CALLS"}
  PROVE  /\ \A a \in ScopedArcs(s, keys, scope) :
              a.kind = "CALLS" /\ {a.source, a.target} \subseteq {Node(d) : d \in SyntaxDocuments(s, keys, scope)}
         /\ ScopedArcs(s, keys, scope) \subseteq keys.arcs
<1>1. RelationshipDocuments(s, keys, scope) = SyntaxDocuments(s, keys, scope)
  BY DEF RelationshipDocuments
<1> QED
  BY <1>1 DEF ScopedArcs

LEMMA ExplainOfTwoHops ==
  ASSUME NEW s, NEW keys, NEW scope, NEW root, NEW arcs, arcs = ScopedArcs(s, keys, scope),
         scope.relations = {"CALLS"}
  PROVE  Explain(s, keys, scope, root, 2).usages = CallersByHop(arcs, root)
<1> DEFINE between == {a \in ScopedArcs(s, keys, scope) :
                         {a.source, a.target} \subseteq {Node(d) : d \in SyntaxDocuments(s, keys, scope)}}
           Beside(frontier) == {a.source : a \in {a \in between : a.target \in frontier}}
           Body(f) == [hop \in 0 .. 2 |-> IF hop = 0 THEN {root}
                                          ELSE Beside(f[hop - 1]) \ UNION {f[h] : h \in 0 .. hop - 1}]
           found == CHOOSE f : f = Body(f)
           one == Beside({root}) \ {root}
           two == Beside(one) \ ({root} \cup one)
           run == [hop \in 0 .. 2 |-> IF hop = 0 THEN {root} ELSE IF hop = 1 THEN one ELSE two]
           first == Callers(arcs, {root}) \ {root}
<1>1. Explain(s, keys, scope, root, 2).usages = [hop \in 1 .. 2 |-> found[hop]]
  BY DEF Explain
<1>2. run = Body(run)
  <2>1. \A hop \in 0 .. 2 :
          run[hop] = IF hop = 0 THEN {root} ELSE Beside(run[hop - 1]) \ UNION {run[h] : h \in 0 .. hop - 1}
    <3>1. 0 .. 2 = {0, 1, 2} /\ 0 .. 0 = {0} /\ 0 .. 1 = {0, 1} /\ 1 - 1 = 0 /\ 2 - 1 = 1
      OBVIOUS
    <3> HIDE DEF Beside
    <3>2. run[0] = {root} /\ run[1] = one /\ run[2] = two
      <4> HIDE DEF one, two
      <4> QED
        OBVIOUS
    <3> HIDE DEF run
    <3>3. UNION {run[h] : h \in 0 .. 0} = {root} /\ UNION {run[h] : h \in 0 .. 1} = {root} \cup one
      <4> HIDE DEF one, two
      <4> QED
        BY <3>1, <3>2
    <3>4. run[1] = Beside(run[1 - 1]) \ UNION {run[h] : h \in 0 .. 1 - 1}
      BY <3>1, <3>2, <3>3
    <3>5. run[2] = Beside(run[2 - 1]) \ UNION {run[h] : h \in 0 .. 2 - 1}
      <4> HIDE DEF one
      <4> QED
        BY <3>1, <3>2, <3>3
    <3> QED
      BY <3>1, <3>2, <3>4, <3>5
  <2> HIDE DEF Beside, one, two
  <2> QED
    BY <2>1
<1>3. found = Body(found)
  <2> HIDE DEF Body, run
  <2> QED
    BY <1>2
<1>4. found[0] = {root} /\ found[1] = one /\ found[2] = two
  <2>1. 0 .. 2 = {0, 1, 2} /\ 0 .. 0 = {0} /\ 0 .. 1 = {0, 1} /\ 1 - 1 = 0 /\ 2 - 1 = 1
    OBVIOUS
  <2> HIDE DEF found, Beside
  <2>2. /\ found[0] = {root}
        /\ found[1] = Beside(found[1 - 1]) \ UNION {found[h] : h \in 0 .. 1 - 1}
        /\ found[2] = Beside(found[2 - 1]) \ UNION {found[h] : h \in 0 .. 2 - 1}
    BY <1>3, <2>1
  <2>3. UNION {found[h] : h \in 0 .. 0} = {root}
    BY <2>1, <2>2
  <2>4. found[1] = one
    BY <2>1, <2>2, <2>3
  <2>5. UNION {found[h] : h \in 0 .. 1} = {root} \cup one
    <3> HIDE DEF one
    <3> QED
      BY <2>1, <2>2, <2>4
  <2>6. found[2] = two
    <3> HIDE DEF one
    <3> QED
      BY <2>1, <2>2, <2>4, <2>5
  <2> QED
    BY <2>2, <2>4, <2>6
<1>5. between = arcs
  BY CallsAreBetweenSymbols
<1>6. one = first /\ two = Callers(arcs, first) \ ({root} \cup first)
  <2>1. \A frontier : Beside(frontier) = Callers(arcs, frontier)
    <3> HIDE DEF between
    <3> QED
      BY <1>5 DEF Callers
  <2> HIDE DEF Beside
  <2> QED
    BY <2>1
<1>7. Explain(s, keys, scope, root, 2).usages =
        [hop \in 1 .. 2 |-> IF hop = 1 THEN first ELSE Callers(arcs, first) \ ({root} \cup first)]
  <2>1. \A hop \in 1 .. 2 : hop = 1 \/ hop = 2
    OBVIOUS
  <2> HIDE DEF found, one, two, first
  <2> QED
    BY <1>1, <1>4, <1>6, <2>1
<1> QED
  BY <1>7 DEF CallersByHop, FirstHop, SecondHop

(* No caller is counted just when there is none.                           *)
LEMMA NoDegreeNoCaller ==
  ASSUME NEW s, NEW keys, IsFiniteSet(keys.arcs), NEW scope, scope.relations = {"CALLS"}, NEW node
  PROVE  Degrees(s, keys, scope, node).callers = 0 <=> {a \in ScopedArcs(s, keys, scope) : a.target = node} = {}
<1> DEFINE calls == {a \in ScopedArcs(s, keys, scope) : a.target = node}
           relation == [a \in calls |-> <<a.source, a.target, a.kind>>]
           relations == {<<a.source, a.target, a.kind>> : a \in calls}
<1>1. calls \subseteq keys.arcs
  BY CallsAreBetweenSymbols
<1>2. Degrees(s, keys, scope, node).callers = Cardinality(relations)
  BY DEF Degrees
<1>3. relations = {relation[a] : a \in calls}
  OBVIOUS
<1> HIDE DEF calls, relation
<1>4. IsFiniteSet(relations)
  <2>1. IsFiniteSet(calls)
    BY <1>1, FS_Subset
  <2> HIDE DEF relations
  <2> QED
    BY <1>3, <2>1, ImageIsFinite
<1>5. relations = {} <=> calls = {}
  OBVIOUS
<1> HIDE DEF relations
<1>6. Cardinality(relations) = 0 <=> relations = {}
  BY <1>4, FS_EmptySet
<1> QED
  BY <1>2, <1>5, <1>6 DEF calls

(* get_outline of a normalized graph lists every symbol of the file.       *)
LEMMA OutlineListsSymbols ==
  ASSUME NEW hashes \in Hashes, NEW s, s = Cold(hashes), NEW scope, NEW d \in SyntaxDocuments(s, Indexed(s), scope)
  PROVE  d \in ToSet(Outline(s, Indexed(s), d.path).symbols)
<1> DEFINE keys == Indexed(s)
           file == [paths |-> {d.path}]
           symbols == SyntaxDocuments(s, keys, file)
<1>1. s.documents \in Seq(AllFacts) /\ ToSet(s.documents) = Facts(hashes)
  BY ColdHas
<1>2. keys.documents = s.documents
  <2>1. keys = Scanned(s)
    BY ColdIndexIsScan
  <2> HIDE DEF keys
  <2> QED
    BY <2>1 DEF Scanned
<1> HIDE DEF keys
<1>3. d \in SyntaxDocuments(s, keys, scope)
  BY DEF keys
<1>4. d \in Facts(hashes) /\ d.kind = "SYNTAX"
  BY <1>1, <1>2, <1>3, SyntaxDocumentsAreFound
<1>5. symbols = {e \in Facts(hashes) : e.kind = "SYNTAX" /\ e.path \in file.paths}
  <2> HIDE DEF file
  <2>1. symbols = {e \in ToSet(s.documents) : e.kind = "SYNTAX" /\ e.path \in file.paths}
    BY <1>1, <1>2, SyntaxDocumentsAreFound
  <2> QED
    BY <1>1, <2>1
<1> HIDE DEF symbols
<1>6. d \in symbols /\ symbols \subseteq Facts(hashes)
  BY <1>4, <1>5
<1>7. ToSet(InOrder(symbols, Earlier)) = symbols
  <2>1. IsFiniteSet(symbols) /\ symbols \in SUBSET AllFacts /\ \A x, y \in symbols : Node(x) = Node(y) => x = y
    BY <1>6, FactsAreOfTheirText, FS_Subset
  <2> QED
    BY <2>1, SortedFacts
<1>8. Outline(s, keys, d.path).symbols = InOrder(symbols, Earlier)
  BY DEF Outline, symbols
<1> QED
  BY <1>6, <1>7, <1>8 DEF keys

(* The tools agree about who calls what, in a graph that was refreshed and *)
(* in one that a failed refresh left torn.                                 *)
THEOREM AgreementHolds == GraphSpec => []ToolsAgree
<1>1. ServedInv => ToolsAgree
  <2> DEFINE I == Indexed(stored)
  <2> SUFFICES ASSUME ServedInv, NEW scope \in CallScopes, NEW d \in SyntaxDocuments(stored, I, scope)
               PROVE  LET node == Node(d)
                          usages == Usages(stored, I, scope, node, 2)
                          callers == Trace(stored, I, scope, node, "callers", 2)
                      IN
                      /\ d \in DeadCode(stored, I, scope) <=> usages[1] = {}
                      /\ d \in DeadCode(stored, I, scope) <=> Degrees(stored, I, scope, node).callers = 0
                      /\ \A hop \in 1 .. 2 :
                           {a.source : a \in {a \in usages[hop] : a.source # a.target}} = callers[hop]
                      /\ Explain(stored, I, scope, node, 2).usages = callers
                      /\ ~torn => d \in ToSet(Outline(stored, I, d.path).symbols)
    BY DEF ToolsAgree
  <2> DEFINE node == Node(d)
             arcs == ScopedArcs(stored, I, scope)
             usages == Usages(stored, I, scope, node, 2)
             callers == Trace(stored, I, scope, node, "callers", 2)
  <2>1. scope.relations = {"CALLS"}
    BY DEF CallScopes
  <2>2. I.arcs = stored.index.arcs /\ IsFiniteSet(I.arcs)
    BY DEF Indexed, ServedInv, GraphInv
  <2>3. ~torn => d \in ToSet(Outline(stored, I, d.path).symbols)
    BY OutlineListsSymbols DEF ServedInv, GraphInv, HoldsItsFacts
  <2> HIDE DEF I
  <2>4. \A a \in arcs : a.kind = "CALLS"
    BY <2>1, CallsAreBetweenSymbols
  <2>5. usages[1] = CallsTo(arcs, node) /\ usages[2] = CallsBeyond(arcs, node)
    <3>1. arcs = ScopedArcs(stored, I, scope)
      OBVIOUS
    <3> HIDE DEF node, arcs
    <3> QED
      BY <2>4, <3>1, UsagesOfTwoHops
  <2>6. callers = CallersByHop(arcs, node)
    <3> HIDE DEF node
    <3> QED
      BY TraceOfTwoHops
  <2>7. Explain(stored, I, scope, node, 2).usages = CallersByHop(arcs, node)
    <3> HIDE DEF node
    <3> QED
      BY <2>1, ExplainOfTwoHops
  <2>8. Degrees(stored, I, scope, node).callers = 0 <=> CallsTo(arcs, node) = {}
    <3> HIDE DEF node
    <3> QED
      BY <2>1, <2>2, NoDegreeNoCaller DEF CallsTo
  <2>9. d \in DeadCode(stored, I, scope) <=> CallsTo(arcs, node) = {}
    <3> HIDE DEF arcs
    <3> QED
      BY <2>4 DEF DeadCode, arcs, CallsTo
  <2> HIDE DEF usages, callers, node, arcs
  <2>10. callers[1] = FirstHop(arcs, node) /\ callers[2] = SecondHop(arcs, node)
    BY <2>6 DEF CallersByHop
  <2>11. {a.source : a \in {a \in usages[1] : a.source # a.target}} = FirstHop(arcs, node)
    BY <2>5 DEF CallsTo, FirstHop, Callers
  <2>12. {a.source : a \in {a \in usages[2] : a.source # a.target}} = SecondHop(arcs, node)
    BY <2>5 DEF CallsBeyond, SecondHop, Callers
  <2>13. \A hop \in 1 .. 2 : {a.source : a \in {a \in usages[hop] : a.source # a.target}} = callers[hop]
    <3>1. \A hop \in 1 .. 2 : hop = 1 \/ hop = 2
      OBVIOUS
    <3> QED
      BY <2>10, <2>11, <2>12, <3>1
  <2> QED
    BY <2>3, <2>5, <2>6, <2>7, <2>8, <2>9, <2>13 DEF usages, callers, node
<1> QED
  BY <1>1, ServedInvHolds, PTL

-----------------------------------------------------------------------------
(* What a scan of a change sees.                                           *)

(* The gaps there can be, the calls a scan reports, and what it remembers. *)
GapSet == ({0} \cup RepoPaths) \X DOMAIN CodeOrder
CallSet == [caller : Symbols, target : Symbols]
KeySet == {"impact", "removed"} \X Symbols \X {NameOf[s] : s \in Symbols}
SeenSet ==
  [findings : Seq(CallSet), impacts : Seq(CallSet), gaps : SUBSET GapSet, dedup : SUBSET KeySet,
   incomplete : BOOLEAN]

LEMMA GapsAreFinite == IsFiniteSet(GapSet) /\ \A g \in GapSet : g[1] \in Nat /\ g[2] \in DOMAIN CodeOrder
<1>1. DOMAIN CodeOrder =
        {"AMBIGUOUS_CALLER", "DYNAMIC_DISPATCH", "PARSER", "RESULT_LIMIT", "SCAN_BUDGET_EXCEEDED",
         "SOURCE_UNVERIFIED_OR_BUDGET", "UNINDEXED_CHANGED_PATH", "VERIFICATION_PLAN_LIMIT"}
  BY DEF CodeOrder
<1>2. IsFiniteSet(DOMAIN CodeOrder)
  <2>1. IsFiniteSet({"AMBIGUOUS_CALLER"} \cup {"DYNAMIC_DISPATCH"} \cup {"PARSER"} \cup {"RESULT_LIMIT"}
           \cup {"SCAN_BUDGET_EXCEEDED"} \cup {"SOURCE_UNVERIFIED_OR_BUDGET"} \cup {"UNINDEXED_CHANGED_PATH"}
           \cup {"VERIFICATION_PLAN_LIMIT"})
    BY FS_Singleton, FS_Union
  <2>2. {"AMBIGUOUS_CALLER"} \cup {"DYNAMIC_DISPATCH"} \cup {"PARSER"} \cup {"RESULT_LIMIT"}
           \cup {"SCAN_BUDGET_EXCEEDED"} \cup {"SOURCE_UNVERIFIED_OR_BUDGET"} \cup {"UNINDEXED_CHANGED_PATH"}
           \cup {"VERIFICATION_PLAN_LIMIT"} = DOMAIN CodeOrder
    BY <1>1
  <2> QED
    BY <2>1, <2>2
<1>3. IsFiniteSet({0} \cup RepoPaths)
  BY BaselineAssumption, FS_Singleton, FS_Union
<1>4. IsFiniteSet(GapSet)
  BY <1>2, <1>3, FS_Product DEF GapSet
<1>5. ASSUME NEW g \in GapSet  PROVE g[1] \in Nat /\ g[2] \in DOMAIN CodeOrder
  <2> DEFINE codes == DOMAIN CodeOrder
  <2>1. g \in ({0} \cup RepoPaths) \X codes
    BY DEF GapSet
  <2> HIDE DEF codes
  <2>2. g[1] \in {0} \cup RepoPaths /\ g[2] \in codes
    BY <2>1
  <2>3. RepoPaths \subseteq Nat
    BY BaselineAssumption
  <2>4. g[1] \in Nat
    <3> DEFINE p == g[1]
    <3>1. p \in {0} \cup RepoPaths
      BY <2>2
    <3> HIDE DEF p
    <3>2. p \in Nat
      BY <2>3, <3>1
    <3> QED
      BY <3>2 DEF p
  <2>5. g[2] \in DOMAIN CodeOrder
    BY <2>2 DEF codes
  <2> QED
    BY <2>4, <2>5
<1> QED
  BY <1>4, <1>5

(* A gap of each of the codes is one of them.                              *)
LEMMA GapsAreGaps ==
  /\ \A code \in DOMAIN CodeOrder : \A p \in {0} \cup RepoPaths : <<p, code>> \in GapSet
  /\ {"AMBIGUOUS_CALLER", "RESULT_LIMIT", "SCAN_BUDGET_EXCEEDED", "SOURCE_UNVERIFIED_OR_BUDGET",
      "UNINDEXED_CHANGED_PATH", "VERIFICATION_PLAN_LIMIT"} \cup Reasons \subseteq DOMAIN CodeOrder
  /\ \A gapsOf, paths : GapsAt(gapsOf, paths) \subseteq GapSet
<1>1. {"AMBIGUOUS_CALLER", "RESULT_LIMIT", "SCAN_BUDGET_EXCEEDED", "SOURCE_UNVERIFIED_OR_BUDGET",
      "UNINDEXED_CHANGED_PATH", "VERIFICATION_PLAN_LIMIT"} \cup Reasons \subseteq DOMAIN CodeOrder
  BY DEF CodeOrder, Reasons
<1> QED
  BY <1>1 DEF GapsAt, GapSet

(* The row that a remembered call stands for is there.                     *)
CoveredIn(seen, key) ==
  LET Has(rows) == \E i \in DOMAIN rows : rows[i].caller = key[2] /\ NameOf[rows[i].target] = key[3]
  IN  /\ key[1] = "impact" => Has(seen.impacts)
      /\ key[1] = "removed" => Has(seen.findings)

IsSeen(change, limit, seen) ==
  /\ seen \in SeenSet
  /\ FirstGaps(change) \subseteq seen.gaps
  /\ seen.incomplete <=> FirstGaps(change) # {}
  /\ \A i \in DOMAIN seen.findings :
       /\ change.now[seen.findings[i].target] = "gone"
       /\ NameOf[seen.findings[i].target] \notin Names(change)
  /\ seen.gaps = {} => Len(seen.findings) <= limit /\ \A key \in seen.dedup : CoveredIn(seen, key)

(* Nothing seen is forgotten. *)
Keeps(seen, next) ==
  /\ seen.gaps \subseteq next.gaps
  /\ \A key \in KeySet : CoveredIn(seen, key) => CoveredIn(next, key)

LEMMA NotedIsSeen ==
  ASSUME NEW change, NEW limit \in Nat, NEW seen, IsSeen(change, limit, seen),
         NEW gaps \in SUBSET GapSet, NEW next, next = [seen EXCEPT !.gaps = @ \cup gaps]
  PROVE  /\ IsSeen(change, limit, next) /\ Keeps(seen, next)
         /\ next.gaps = seen.gaps \cup gaps
         /\ next.findings = seen.findings /\ next.impacts = seen.impacts /\ next.dedup = seen.dedup
<1>1. /\ next \in SeenSet /\ next.gaps = seen.gaps \cup gaps
      /\ next.findings = seen.findings /\ next.impacts = seen.impacts /\ next.dedup = seen.dedup
      /\ next.incomplete = seen.incomplete
  BY DEF IsSeen, SeenSet
<1>2. \A key : CoveredIn(next, key) <=> CoveredIn(seen, key)
  BY <1>1 DEF CoveredIn
<1>3. Keeps(seen, next)
  BY <1>1, <1>2 DEF Keeps
<1>4. IsSeen(change, limit, next)
  BY <1>1, <1>2 DEF IsSeen
<1> QED
  BY <1>1, <1>3, <1>4

(* So it is when a key and a gap are noted.                                *)
LEMMA KeyWithGap ==
  ASSUME NEW change, NEW limit \in Nat, NEW seen, IsSeen(change, limit, seen),
         NEW gaps \in SUBSET GapSet, gaps # {}, NEW key \in KeySet,
         NEW next, next = [seen EXCEPT !.dedup = @ \cup {key}, !.gaps = @ \cup gaps]
  PROVE  IsSeen(change, limit, next) /\ Keeps(seen, next) /\ next.gaps # {}
<1>1. /\ next \in SeenSet /\ next.gaps = seen.gaps \cup gaps
      /\ next.findings = seen.findings /\ next.impacts = seen.impacts
      /\ next.incomplete = seen.incomplete
  BY DEF IsSeen, SeenSet
<1>2. \A other : CoveredIn(next, other) <=> CoveredIn(seen, other)
  BY <1>1 DEF CoveredIn
<1>3. Keeps(seen, next)
  BY <1>1, <1>2 DEF Keeps
<1>4. IsSeen(change, limit, next)
  BY <1>1 DEF IsSeen
<1> QED
  BY <1>1, <1>3, <1>4

(* An impact is reported, or why it is not is a gap.                       *)
LEMMA ImpactIsSeen ==
  ASSUME NEW change, IsChange(change), NEW limit \in Nat, NEW seen, IsSeen(change, limit, seen),
         NEW caller \in Symbols, NEW target \in Symbols,
         NEW next, next = Impact(change, limit, seen, caller, target)
  PROVE  /\ IsSeen(change, limit, next) /\ Keeps(seen, next)
         /\ next.gaps = {} /\ change.now[target] = "edited" /\ <<caller, target>> \in change.live =>
              CoveredIn(next, <<"impact", caller, NameOf[target]>>)
<1> DEFINE unread == {PathOf[caller], PathOf[target]} \cap change.unread
           key == <<"impact", caller, NameOf[target]>>
           full == Len(seen.impacts) >= limit
           row == [caller |-> caller, target |-> target]
<1>1. key \in KeySet /\ PathOf[caller] \in RepoPaths /\ PathOf[target] \in RepoPaths
  BY BaselineAssumption DEF KeySet
<1>2. CASE change.now[target] # "edited" \/ <<caller, target>> \notin change.live \/ key \in seen.dedup
  <2>1. next = seen
    BY <1>2 DEF Impact
  <2>2. Keeps(seen, next)
    BY <2>1 DEF Keeps
  <2>3. next.gaps = {} /\ key \in seen.dedup => CoveredIn(next, key)
    BY <2>1 DEF IsSeen
  <2> QED
    BY <1>2, <2>1, <2>2, <2>3
<1>3. CASE /\ ~(change.now[target] # "edited" \/ <<caller, target>> \notin change.live \/ key \in seen.dedup)
           /\ unread # {}
  <2> DEFINE gaps == Unverified(IF PathOf[caller] \in unread THEN {PathOf[caller]} ELSE unread)
  <2>1. next = [seen EXCEPT !.dedup = @ \cup {key}, !.gaps = @ \cup gaps]
    BY <1>3 DEF Impact
  <2>2. gaps \subseteq GapSet
    BY <1>1, GapsAreGaps DEF Unverified
  <2>3. gaps # {}
    BY <1>3 DEF Unverified
  <2> HIDE DEF gaps, key, unread
  <2>4. IsSeen(change, limit, next) /\ Keeps(seen, next) /\ next.gaps # {}
    BY <1>1, <2>1, <2>2, <2>3, KeyWithGap
  <2> QED
    BY <2>4
<1>4. CASE /\ ~(change.now[target] # "edited" \/ <<caller, target>> \notin change.live \/ key \in seen.dedup)
           /\ unread = {} /\ full
  <2> DEFINE gaps == {<<0, "RESULT_LIMIT">>}
  <2>1. next = [seen EXCEPT !.dedup = @ \cup {key}, !.gaps = @ \cup gaps, !.impacts = @]
    BY <1>4 DEF Impact
  <2>2. next = [seen EXCEPT !.dedup = @ \cup {key}, !.gaps = @ \cup gaps]
    BY <2>1 DEF IsSeen, SeenSet
  <2>3. gaps \subseteq GapSet
    BY GapsAreGaps
  <2> HIDE DEF gaps, key, unread
  <2>4. IsSeen(change, limit, next) /\ Keeps(seen, next) /\ next.gaps # {}
    BY <1>1, <2>2, <2>3, KeyWithGap DEF gaps
  <2> QED
    BY <2>4
<1>5. CASE /\ ~(change.now[target] # "edited" \/ <<caller, target>> \notin change.live \/ key \in seen.dedup)
           /\ unread = {} /\ ~full
  <2>1. next = [seen EXCEPT !.dedup = @ \cup {key}, !.gaps = @ \cup {}, !.impacts = Append(@, row)]
    BY <1>5 DEF Impact
  <2>2. row \in CallSet /\ seen.impacts \in Seq(CallSet) /\ seen \in SeenSet
    BY DEF CallSet, IsSeen, SeenSet
  <2> HIDE DEF key, unread, row
  <2> DEFINE rows == Append(seen.impacts, row)
  <2>10. rows \in Seq(CallSet) /\ next = [seen EXCEPT !.dedup = @ \cup {key}, !.gaps = @ \cup {}, !.impacts = rows]
    BY <2>1, <2>2
  <2>3. /\ next \in SeenSet /\ next.gaps = seen.gaps /\ next.dedup = seen.dedup \cup {key}
        /\ next.findings = seen.findings /\ next.impacts = Append(seen.impacts, row)
        /\ next.incomplete = seen.incomplete
    <3> HIDE DEF rows
    <3>1. /\ next \in SeenSet /\ next.gaps = seen.gaps /\ next.dedup = seen.dedup \cup {key}
          /\ next.findings = seen.findings /\ next.impacts = rows /\ next.incomplete = seen.incomplete
      BY <1>1, <2>2, <2>10 DEF SeenSet
    <3> QED
      BY <3>1 DEF rows
  <2>4. \A i \in DOMAIN seen.impacts : i \in DOMAIN next.impacts /\ next.impacts[i] = seen.impacts[i]
    BY <2>2, <2>3
  <2>5. Len(next.impacts) \in DOMAIN next.impacts /\ next.impacts[Len(next.impacts)] = row
    BY <2>2, <2>3
  <2>6. CoveredIn(next, key)
    BY <2>5 DEF CoveredIn, key, row
  <2>7. \A other : CoveredIn(seen, other) => CoveredIn(next, other)
    BY <2>3, <2>4 DEF CoveredIn
  <2>8. Keeps(seen, next)
    BY <2>3, <2>7 DEF Keeps
  <2>9. IsSeen(change, limit, next)
    BY <2>3, <2>6, <2>7 DEF IsSeen
  <2> QED
    BY <2>6, <2>8, <2>9 DEF key
<1> QED
  BY <1>2, <1>3, <1>4, <1>5

(* A call that is broken is reported, or why it is not is a gap; and what  *)
(* is reported is gone.                                                    *)
LEMMA FindingIsSeen ==
  ASSUME NEW change, IsChange(change), NEW limit \in Nat, NEW seen, IsSeen(change, limit, seen),
         NEW caller \in Symbols, NEW target \in Symbols, change.now[target] = "gone",
         GapsOfCall(change, caller, target) \subseteq seen.gaps, Len(seen.findings) <= limit,
         NEW next, next = Finding(change, limit, seen, caller, target)
  PROVE  /\ IsSeen(change, limit, next) /\ Keeps(seen, next)
         /\ /\ next.gaps = {} /\ change.now[caller] = "same" /\ NameOf[target] \notin Names(change)
            /\ <<caller, target>> \in change.retained
            => CoveredIn(next, <<"removed", caller, NameOf[target]>>)
<1> DEFINE key == <<"removed", caller, NameOf[target]>>
           reached == Len(seen.findings) = limit
           row == [caller |-> caller, target |-> target]
           shut == \/ seen.incomplete \/ GapsOfCall(change, caller, target) # {}
                   \/ change.now[caller] # "same" \/ NameOf[target] \in Names(change)
                   \/ <<caller, target>> \notin change.retained \/ key \in seen.dedup
<1>1. key \in KeySet /\ PathOf[caller] \in RepoPaths
  BY BaselineAssumption DEF KeySet
<1>2. CASE shut
  <2>1. next = seen
    BY <1>2 DEF Finding
  <2>2. Keeps(seen, next)
    BY <2>1 DEF Keeps
  <2>3. next.gaps = {} /\ key \in seen.dedup => CoveredIn(next, key)
    BY <2>1 DEF IsSeen
  <2>4. next.gaps = {} => ~seen.incomplete /\ GapsOfCall(change, caller, target) = {}
    BY <2>1 DEF IsSeen
  <2> QED
    BY <1>2, <2>1, <2>2, <2>3, <2>4
<1>3. CASE ~shut /\ PathOf[caller] \in change.unread
  <2> DEFINE gaps == Unverified({PathOf[caller]})
  <2>1. next = [seen EXCEPT !.dedup = @ \cup {key}, !.gaps = @ \cup gaps]
    BY <1>3 DEF Finding
  <2>2. gaps \subseteq GapSet /\ gaps # {}
    BY <1>1, GapsAreGaps DEF Unverified
  <2> HIDE DEF gaps, key, row, reached, shut
  <2>3. IsSeen(change, limit, next) /\ Keeps(seen, next) /\ next.gaps # {}
    BY ONLY limit \in Nat, IsSeen(change, limit, seen), <1>1, <2>1, <2>2, KeyWithGap
  <2> QED
    BY <2>3
<1>4. CASE ~shut /\ PathOf[caller] \notin change.unread
  <2> DEFINE gaps == IF reached THEN {<<0, "RESULT_LIMIT">>} ELSE {}
             rows == Append(seen.findings, row)
  <2>1. next = [seen EXCEPT !.dedup = @ \cup {key}, !.findings = rows, !.gaps = @ \cup gaps]
    BY <1>4 DEF Finding
  <2>2. gaps \subseteq GapSet /\ (gaps = {} => ~reached)
    BY GapsAreGaps
  <2>3. row \in CallSet /\ seen.findings \in Seq(CallSet) /\ seen \in SeenSet
    BY DEF CallSet, IsSeen, SeenSet
  <2> HIDE DEF key, row, gaps, reached
  <2>4. /\ rows \in Seq(CallSet) /\ DOMAIN rows = 1 .. Len(seen.findings) + 1 /\ DOMAIN seen.findings = 1 .. Len(seen.findings)
        /\ Len(rows) = Len(seen.findings) + 1 /\ Len(seen.findings) \in Nat /\ rows[Len(seen.findings) + 1] = row
        /\ \A i \in DOMAIN seen.findings : rows[i] = seen.findings[i]
    BY <2>3
  <2> HIDE DEF rows, shut
  <2>5. /\ next \in SeenSet /\ next.gaps = seen.gaps \cup gaps /\ next.dedup = seen.dedup \cup {key}
        /\ next.findings = rows /\ next.impacts = seen.impacts /\ next.incomplete = seen.incomplete
    BY ONLY <1>1, <2>1, <2>2, <2>3, <2>4 DEF SeenSet
  <2>6. CoveredIn(next, key)
    <3>1. Len(seen.findings) + 1 \in DOMAIN rows
      BY <2>4
    <3>2. rows[Len(seen.findings) + 1].caller = caller /\ rows[Len(seen.findings) + 1].target = target
      BY <2>4 DEF row
    <3> QED
      BY <2>5, <3>1, <3>2 DEF CoveredIn, key
  <2>7. \A other : CoveredIn(seen, other) => CoveredIn(next, other)
    <3>1. \A i \in DOMAIN seen.findings : i \in DOMAIN rows
      BY <2>4
    <3> QED
      BY <2>4, <2>5, <3>1 DEF CoveredIn
  <2>8. Keeps(seen, next)
    BY <2>5, <2>7 DEF Keeps
  <2>9. \A i \in DOMAIN next.findings :
          /\ change.now[next.findings[i].target] = "gone"
          /\ NameOf[next.findings[i].target] \notin Names(change)
    <3> SUFFICES ASSUME NEW i \in DOMAIN rows
                 PROVE  /\ change.now[rows[i].target] = "gone"
                        /\ NameOf[rows[i].target] \notin Names(change)
      BY <2>5
    <3>1. CASE i \in DOMAIN seen.findings
      BY <2>4, <3>1 DEF IsSeen
    <3>2. CASE i \notin DOMAIN seen.findings
      <4>1. i = Len(seen.findings) + 1
        BY <2>4, <3>2
      <4>2. rows[i].target = target
        BY <2>4, <4>1 DEF row
      <4> QED
        BY <1>4, <4>2 DEF shut
    <3> QED
      BY <3>1, <3>2
  <2>10. next.gaps = {} => seen.gaps = {} /\ Len(next.findings) <= limit
    BY <2>2, <2>4, <2>5 DEF reached
  <2>11. IsSeen(change, limit, next)
    BY <2>5, <2>6, <2>7, <2>9, <2>10 DEF IsSeen
  <2> QED
    BY <2>6, <2>8, <2>11 DEF key
<1> QED
  BY <1>2, <1>3, <1>4

(* What a call must leave behind when a scan without gaps has looked at it.*)
IsDone(change, seen, call) ==
  {PathOf[call[1]], PathOf[call[2]]} \cap change.edited # {} =>
    /\ change.now[call[2]] = "edited" /\ change.now[call[1]] # "twice" /\ call \in change.live =>
         CoveredIn(seen, <<"impact", call[1], NameOf[call[2]]>>)
    /\ change.now[call[1]] = "same" /\ change.now[call[2]] = "gone" /\ NameOf[call[2]] \notin Names(change)
         /\ call \in change.retained => CoveredIn(seen, <<"removed", call[1], NameOf[call[2]]>>)

LEMMA InspectIsSeen ==
  ASSUME NEW change, IsChange(change), NEW limit \in Nat, NEW seen, IsSeen(change, limit, seen),
         NEW call \in Symbols \X Symbols, NEW next, next = Inspect(change, limit, seen, call)
  PROVE  /\ IsSeen(change, limit, next) /\ Keeps(seen, next)
         /\ next.gaps = {} => IsDone(change, next, call)
<1> DEFINE caller == call[1]
           target == call[2]
           gaps == GapsOfCall(change, caller, target)
           noted == [seen EXCEPT !.gaps = @ \cup gaps]
           far == {PathOf[caller], PathOf[target]} \cap change.edited = {}
           full == Len(seen.findings) > limit
           lost == Material(gaps) \/ change.now[caller] = "gone"
<1>1. caller \in Symbols /\ target \in Symbols /\ call = <<caller, target>> /\ PathOf[caller] \in RepoPaths
  BY BaselineAssumption
<1>2. gaps \subseteq GapSet
  BY GapsAreGaps DEF GapsOfCall
<1> HIDE DEF caller, target, gaps
<1>3. /\ IsSeen(change, limit, noted) /\ Keeps(seen, noted) /\ noted.gaps = seen.gaps \cup gaps
      /\ noted.findings = seen.findings
  BY <1>2, NotedIsSeen
<1>4. CASE far
  <2>1. next = seen
    BY <1>4 DEF Inspect, caller, target
  <2> QED
    BY <1>4, <2>1 DEF IsDone, Keeps, caller, target
<1>5. CASE ~far /\ full
  <2> DEFINE more == {<<0, "RESULT_LIMIT">>}
  <2>1. next = [seen EXCEPT !.gaps = @ \cup more]
    BY <1>5 DEF Inspect, caller, target
  <2>2. more \subseteq GapSet
    BY GapsAreGaps
  <2> HIDE DEF more
  <2>3. IsSeen(change, limit, next) /\ Keeps(seen, next) /\ next.gaps = seen.gaps \cup more
    BY <2>1, <2>2, NotedIsSeen
  <2> QED
    BY <2>3 DEF more
<1>6. CASE ~far /\ ~full /\ lost
  <2>1. next = noted
    BY <1>6 DEF Inspect, caller, target, gaps
  <2>2. CASE Material(gaps)
    <3>1. gaps # {}
      BY <2>2 DEF Material
    <3> QED
      BY <1>3, <2>1, <3>1
  <2>3. CASE change.now[caller] = "gone"
    <3>1. call \notin change.live /\ change.now[caller] # "same"
      BY <1>1, <2>3 DEF IsChange, Present, caller
    <3>2. IsDone(change, next, call)
      BY <3>1 DEF IsDone, caller
    <3> QED
      BY <1>3, <2>1, <3>2
  <2> QED
    BY <1>6, <2>2, <2>3
<1>7. CASE ~far /\ ~full /\ ~lost /\ change.now[caller] = "twice"
  <2> DEFINE more == {<<PathOf[caller], "AMBIGUOUS_CALLER">>}
  <2>1. next = [noted EXCEPT !.gaps = @ \cup more]
    BY <1>7 DEF Inspect, caller, target, gaps
  <2>2. more \subseteq GapSet
    BY <1>1, GapsAreGaps
  <2> HIDE DEF more, noted
  <2>3. IsSeen(change, limit, next) /\ Keeps(noted, next) /\ next.gaps = noted.gaps \cup more
    BY <1>3, <2>1, <2>2, NotedIsSeen
  <2>4. Keeps(seen, next)
    BY <1>3, <2>3 DEF Keeps
  <2> QED
    BY <2>3, <2>4 DEF more
<1>8. CASE ~far /\ ~full /\ ~lost /\ change.now[caller] # "twice" /\ change.now[target] # "gone"
  <2>1. next = Impact(change, limit, noted, caller, target)
    BY <1>8 DEF Inspect, caller, target, gaps
  <2> HIDE DEF noted
  <2>2. /\ IsSeen(change, limit, next) /\ Keeps(noted, next)
        /\ next.gaps = {} /\ change.now[target] = "edited" /\ <<caller, target>> \in change.live =>
             CoveredIn(next, <<"impact", caller, NameOf[target]>>)
    BY <1>1, <1>3, <2>1, ImpactIsSeen
  <2>3. Keeps(seen, next)
    BY <1>3, <2>2 DEF Keeps
  <2>4. next.gaps = {} => IsDone(change, next, call)
    BY <1>1, <1>8, <2>2 DEF IsDone, caller, target
  <2> QED
    BY <2>2, <2>3, <2>4
<1>9. CASE ~far /\ ~full /\ ~lost /\ change.now[caller] # "twice" /\ change.now[target] = "gone"
  <2>1. next = Finding(change, limit, noted, caller, target)
    BY <1>9 DEF Inspect, caller, target, gaps
  <2>2. Len(noted.findings) <= limit
    <3>1. Len(seen.findings) \in Nat
      BY DEF IsSeen, SeenSet
    <3> QED
      BY <1>3, <1>9, <3>1
  <2>3. GapsOfCall(change, caller, target) \subseteq noted.gaps
    BY <1>3 DEF gaps
  <2> HIDE DEF noted
  <2>4. /\ IsSeen(change, limit, next) /\ Keeps(noted, next)
        /\ /\ next.gaps = {} /\ change.now[caller] = "same" /\ NameOf[target] \notin Names(change)
           /\ <<caller, target>> \in change.retained
           => CoveredIn(next, <<"removed", caller, NameOf[target]>>)
    BY <1>1, <1>3, <1>9, <2>1, <2>2, <2>3, FindingIsSeen
  <2>5. Keeps(seen, next)
    BY <1>3, <2>4 DEF Keeps
  <2>6. next.gaps = {} => IsDone(change, next, call)
    BY <1>1, <1>9, <2>4 DEF IsDone, caller, target
  <2> QED
    BY <2>4, <2>5, <2>6
<1> QED
  BY <1>4, <1>5, <1>6, <1>7, <1>8, <1>9

(* First nothing is seen but the gaps.                                     *)
LEMMA FirstIsSeen ==
  ASSUME NEW change, IsChange(change), NEW limit \in Nat
  PROVE  IsSeen(change, limit, SeenFirst(change))
<1> DEFINE first == SeenFirst(change)
<1>1. FirstGaps(change) \subseteq GapSet
  <2> DEFINE cut == IF change.cut THEN {<<0, "SCAN_BUDGET_EXCEEDED">>} ELSE {}
             gone == {<<p, "UNINDEXED_CHANGED_PATH">> : p \in change.unindexed}
             held == GapsAt(change.after, change.edited)
  <2>1. cut \subseteq GapSet
    BY GapsAreGaps
  <2>2. gone \subseteq GapSet
    BY GapsAreGaps DEF IsChange
  <2>3. held \subseteq GapSet
    BY GapsAreGaps
  <2>4. FirstGaps(change) = cut \cup held \cup gone
    BY DEF FirstGaps
  <2> HIDE DEF cut, gone, held
  <2> QED
    BY <2>1, <2>2, <2>3, <2>4
<1>2. /\ first.findings = <<>> /\ first.impacts = <<>> /\ first.gaps = FirstGaps(change)
      /\ first.dedup = {} /\ (first.incomplete <=> FirstGaps(change) # {})
  BY DEF SeenFirst
<1>3. first \in SeenSet
  BY <1>1 DEF SeenFirst, SeenSet
<1> HIDE DEF first
<1>4. DOMAIN first.findings = {} /\ Len(first.findings) = 0
  BY <1>2
<1>5. \A i \in DOMAIN first.findings :
        /\ change.now[first.findings[i].target] = "gone"
        /\ NameOf[first.findings[i].target] \notin Names(change)
  BY <1>4
<1>6. Len(first.findings) <= limit /\ \A key \in first.dedup : CoveredIn(first, key)
  BY <1>2, <1>4
<1>7. FirstGaps(change) \subseteq first.gaps
  BY <1>2
<1>8. IsSeen(change, limit, first)
  BY ONLY <1>2, <1>3, <1>5, <1>6, <1>7 DEF IsSeen
<1> QED
  BY <1>8 DEF first

(* In the end every call has been looked at.                               *)
LEMMA InspectedIsSeen ==
  ASSUME NEW change, IsChange(change), NEW limit \in Nat,
         NEW last, last = Inspected(change, limit)
  PROVE  /\ IsSeen(change, limit, last)
         /\ last.gaps = {} => \A call \in ToSet(BaseCalls) : IsDone(change, last, call)
<1> DEFINE n == Len(BaseCalls)
           first == SeenFirst(change)
           A == {seen \in SeenSet : IsSeen(change, limit, seen)}
           Then(seen, k) == Inspect(change, limit, seen, BaseCalls[k])
           step == [ss \in A \X (1 .. n) |-> Then(ss[1], ss[2])]
           Body(f) == [k \in 0 .. n |-> IF k = 0 THEN first
                                        ELSE Inspect(change, limit, f[k - 1], BaseCalls[k])]
           seen == CHOOSE f : f = Body(f)
<1>1. n \in Nat /\ DOMAIN BaseCalls = 1 .. n /\ \A k \in 1 .. n : BaseCalls[k] \in Symbols \X Symbols
  BY BaselineAssumption
<1>2. first \in A
  BY FirstIsSeen DEF IsSeen
<1>3. ASSUME NEW s \in A, NEW k \in 1 .. n
      PROVE  /\ Then(s, k) \in A /\ Keeps(s, Then(s, k))
             /\ Then(s, k).gaps = {} => IsDone(change, Then(s, k), BaseCalls[k])
  <2> DEFINE next == Then(s, k)
  <2>1. BaseCalls[k] \in Symbols \X Symbols /\ IsSeen(change, limit, s)
    BY <1>1
  <2>2. next = Inspect(change, limit, s, BaseCalls[k])
    OBVIOUS
  <2> HIDE DEF next, A, n
  <2>3. /\ IsSeen(change, limit, next) /\ Keeps(s, next)
        /\ next.gaps = {} => IsDone(change, next, BaseCalls[k])
    BY <2>1, <2>2, InspectIsSeen
  <2> QED
    BY <2>3 DEF next, A, IsSeen
<1> HIDE DEF first
<1>4. step \in [A \X (1 .. n) -> A]
  <2>1. \A ss \in A \X (1 .. n) : Then(ss[1], ss[2]) \in A
    <3> HIDE DEF A, n, Then
    <3> QED
      BY <1>3
  <2> HIDE DEF A, n, Then
  <2> QED
    BY <2>1
<1>5. PICK run : IsRun(run, A, first, n, step)
  <2> HIDE DEF A, step, n
  <2> QED
    BY <1>1, <1>2, <1>4, RunExists
<1>6. run \in [0 .. n -> A] /\ \A k \in 0 .. n : run[k] = IF k = 0 THEN first ELSE step[<<run[k - 1], k>>]
  BY <1>5 DEF IsRun
<1>7. \A k \in 0 .. n : k # 0 => k \in 1 .. n /\ k - 1 \in 0 .. n
  BY <1>1
<1>8. \A k \in 0 .. n : k # 0 => step[<<run[k - 1], k>>] = Then(run[k - 1], k)
  <2> HIDE DEF A, n, Then
  <2> QED
    BY <1>6, <1>7
<1>9. run = Body(run)
  <2> HIDE DEF A, n, step
  <2> QED
    BY <1>6, <1>8
<1>10. seen = Body(seen)
  <2> HIDE DEF Body
  <2> QED
    BY <1>9
<1>11. seen[0] = first /\ \A k \in 1 .. n : seen[k] = Then(seen[k - 1], k)
  <2> HIDE DEF seen, n
  <2>1. seen = [k \in 0 .. n |-> IF k = 0 THEN first ELSE Then(seen[k - 1], k)]
    BY <1>10
  <2> HIDE DEF Then
  <2> QED
    BY <1>1, <2>1
<1> HIDE DEF seen
<1> DEFINE Done(k) == seen[k].gaps = {} => \A j \in 1 .. k : IsDone(change, seen[k], BaseCalls[j])
           T == {k \in 0 .. n : seen[k] \in A /\ Done(k)}
<1>12. 0 .. n \subseteq T
  <2>1. 0 \in T
    <3> HIDE DEF A
    <3> QED
      BY <1>1, <1>2, <1>11
  <2>2. ASSUME NEW k \in 1 .. n, k - 1 \in T  PROVE k \in T
    <3> DEFINE s == seen[k - 1]
               t == seen[k]
    <3>1. s \in A /\ Done(k - 1) /\ k \in 0 .. n
      BY <1>1, <2>2
    <3>2. t \in A /\ Keeps(s, t) /\ (t.gaps = {} => IsDone(change, t, BaseCalls[k]))
      <4>1. t = Then(s, k)
        BY <1>11
      <4> HIDE DEF A, Then, s, t
      <4> QED
        BY <1>3, <3>1, <4>1
    <3>3. ASSUME t.gaps = {}, NEW j \in 1 .. k  PROVE IsDone(change, t, BaseCalls[j])
      <4>1. CASE j = k
        BY <3>2, <3>3, <4>1
      <4>2. CASE j # k
        <5>1. j \in 1 .. k - 1 /\ s.gaps = {} /\ BaseCalls[j] \in Symbols \X Symbols
          BY <1>1, <3>2, <3>3, <4>2 DEF Keeps
        <5>2. IsDone(change, s, BaseCalls[j])
          BY <3>1, <5>1
        <5>3. /\ <<"impact", BaseCalls[j][1], NameOf[BaseCalls[j][2]]>> \in KeySet
              /\ <<"removed", BaseCalls[j][1], NameOf[BaseCalls[j][2]]>> \in KeySet
          BY <5>1 DEF KeySet
        <5> QED
          BY <3>2, <5>2, <5>3 DEF IsDone, Keeps
      <4> QED
        BY <4>1, <4>2
    <3> QED
      BY <3>1, <3>2, <3>3
  <2> HIDE DEF T, n
  <2> QED
    BY ONLY <1>1, <2>1, <2>2, UpTo
<1>13. n \in T
  BY <1>1, <1>12
<1>14. last = seen[n]
  BY DEF Inspected, seen, first
<1>15. last \in A /\ (last.gaps = {} => \A j \in 1 .. n : IsDone(change, last, BaseCalls[j]))
  BY <1>13, <1>14
<1>16. \A call \in ToSet(BaseCalls) : \E j \in 1 .. n : call = BaseCalls[j]
  BY <1>1 DEF ToSet
<1> QED
  BY <1>15, <1>16

-----------------------------------------------------------------------------
(* The tests of a plan.                                                    *)

PlanSet ==
  [tests : Seq([test : Symbols, impact : Nat]), dedup : SUBSET (Symbols \X Symbols), gaps : SUBSET GapSet,
   stop : BOOLEAN]

LEMMA AddTestIsPlan ==
  ASSUME NEW change, NEW limit, NEW impacts \in Seq(CallSet), NEW i \in 1 .. Len(impacts),
         NEW plan \in PlanSet, NEW test \in Symbols
  PROVE  AddTest(change, limit, impacts, i, plan, test) \in PlanSet
<1> DEFINE key == <<test, impacts[i].target>>
           path == PathOf[test]
           gaps == GapsAt(change.after, {path})
           noted == [plan EXCEPT !.dedup = @ \cup {key}, !.gaps = @ \cup gaps]
           next == AddTest(change, limit, impacts, i, plan, test)
           row == [test |-> test, impact |-> i]
           unread == Unverified({path})
           limited == {<<0, "VERIFICATION_PLAN_LIMIT">>}
<1>1. i \in Nat /\ impacts[i] \in CallSet
  OBVIOUS
<1>2. key \in Symbols \X Symbols /\ path \in RepoPaths /\ row \in [test : Symbols, impact : Nat]
  BY <1>1, BaselineAssumption DEF CallSet
<1>3. gaps \subseteq GapSet
  BY GapsAreGaps
<1>4. unread \subseteq GapSet /\ limited \subseteq GapSet
  BY <1>2, GapsAreGaps DEF Unverified
<1>5. \/ next = plan
      \/ next = noted
      \/ next = [noted EXCEPT !.gaps = @ \cup unread]
      \/ next = [noted EXCEPT !.stop = TRUE, !.gaps = @ \cup limited]
      \/ next = [noted EXCEPT !.tests = Append(@, row)]
  BY DEF AddTest
<1> HIDE DEF key, path, gaps, row, unread, limited, next
<1>6. noted \in PlanSet
  BY <1>2, <1>3 DEF PlanSet
<1> HIDE DEF noted
<1>7. Append(noted.tests, row) \in Seq([test : Symbols, impact : Nat])
  BY <1>2, <1>6 DEF PlanSet
<1>8. next \in PlanSet
  BY <1>4, <1>5, <1>6, <1>7 DEF PlanSet
<1> QED
  BY <1>8 DEF next

LEMMA TestsOfImpactIsPlan ==
  ASSUME NEW change, NEW limit, NEW impacts \in Seq(CallSet), NEW i \in 1 .. Len(impacts), NEW plan \in PlanSet
  PROVE  TestsOfImpact(change, limit, impacts, i, plan) \in PlanSet
<1> DEFINE candidates == TestCandidates(change, impacts[i].caller)
           n == Len(candidates)
           Then(p, k) == AddTest(change, limit, impacts, i, p, candidates[k])
           step == [ss \in PlanSet \X (1 .. n) |-> Then(ss[1], ss[2])]
           Body(f) == [k \in 0 .. n |-> IF k = 0 THEN plan
                                        ELSE AddTest(change, limit, impacts, i, f[k - 1], candidates[k])]
           added == CHOOSE f : f = Body(f)
<1>1. candidates \in Seq(Symbols)
  <2> DEFINE callers == {s \in Symbols : <<s, impacts[i].caller>> \in change.live}
           caller == impacts[i].caller
           sorted == InOrder(callers, <)
  <2>1. callers \in SUBSET Nat /\ IsFiniteSet(callers)
    BY BaselineAssumption, FS_Subset
  <2>2. caller \in Symbols
    <3>1. impacts[i] \in CallSet
      OBVIOUS
    <3> QED
      BY <3>1 DEF CallSet
  <2>3. callers \subseteq Symbols /\ candidates = <<caller>> \o sorted
    BY DEF TestCandidates
  <2> HIDE DEF callers, candidates, caller
  <2>4. sorted \in Seq(callers)
    BY <2>1, SortedNumbers
  <2> HIDE DEF sorted
  <2>5. sorted \in Seq(Symbols) /\ <<caller>> \in Seq(Symbols)
    BY <2>2, <2>3, <2>4
  <2> QED
    BY ONLY <2>3, <2>5
<1> HIDE DEF candidates
<1>2. n \in Nat /\ \A k \in 1 .. n : candidates[k] \in Symbols
  BY <1>1
<1>3. \A p \in PlanSet, k \in 1 .. n : Then(p, k) \in PlanSet
  BY <1>2, AddTestIsPlan
<1>4. step \in [PlanSet \X (1 .. n) -> PlanSet]
  <2>1. \A ss \in PlanSet \X (1 .. n) : Then(ss[1], ss[2]) \in PlanSet
    <3> HIDE DEF n, Then
    <3> QED
      BY <1>3
  <2> HIDE DEF n, Then
  <2> QED
    BY <2>1
<1>5. PICK run : IsRun(run, PlanSet, plan, n, step)
  <2> HIDE DEF step, n
  <2> QED
    BY <1>2, <1>4, RunExists
<1>6. run \in [0 .. n -> PlanSet] /\ \A k \in 0 .. n : run[k] = IF k = 0 THEN plan ELSE step[<<run[k - 1], k>>]
  BY <1>5 DEF IsRun
<1>7. \A k \in 0 .. n : k # 0 => k \in 1 .. n /\ k - 1 \in 0 .. n
  BY <1>2
<1>8. \A k \in 0 .. n : k # 0 => step[<<run[k - 1], k>>] = Then(run[k - 1], k)
  <2> HIDE DEF n, Then
  <2> QED
    BY <1>6, <1>7
<1>9. run = Body(run)
  <2> HIDE DEF n, step
  <2> QED
    BY <1>6, <1>8
<1>10. added = Body(added)
  <2> HIDE DEF Body
  <2> QED
    BY <1>9
<1>11. added[0] = plan /\ \A k \in 1 .. n : added[k] = Then(added[k - 1], k)
  <2> HIDE DEF added
  <2> QED
    BY <1>2, <1>10
<1> DEFINE T == {k \in 0 .. n : added[k] \in PlanSet}
<1>12. 0 .. n \subseteq T
  <2>1. 0 \in T
    <3> HIDE DEF added
    <3> QED
      BY <1>2, <1>11
  <2>2. ASSUME NEW k \in 1 .. n, k - 1 \in T  PROVE k \in T
    <3> HIDE DEF added, Then
    <3> QED
      BY <1>2, <1>3, <1>11, <2>2
  <2> HIDE DEF T, n
  <2> QED
    BY ONLY <1>2, <2>1, <2>2, UpTo
<1>13. added[n] \in PlanSet
  <2> HIDE DEF added
  <2> QED
    BY <1>2, <1>12
<1>14. TestsOfImpact(change, limit, impacts, i, plan) = added[n]
  BY DEF TestsOfImpact, candidates
<1> QED
  <2> HIDE DEF added
  <2> QED
    BY <1>13, <1>14

LEMMA TestsOfIsPlan ==
  ASSUME NEW change, NEW limit, NEW impacts \in Seq(CallSet)
  PROVE  TestsOf(change, limit, impacts) \in PlanSet
<1> DEFINE n == Len(impacts)
           Then(p, i) == TestsOfImpact(change, limit, impacts, i, p)
           step == [ss \in PlanSet \X (1 .. n) |-> Then(ss[1], ss[2])]
           Body(f) == [i \in 0 .. n |-> IF i = 0 THEN NoTests
                                        ELSE TestsOfImpact(change, limit, impacts, i, f[i - 1])]
           planned == CHOOSE f : f = Body(f)
<1>1. n \in Nat
  OBVIOUS
<1>2. NoTests \in PlanSet
  BY DEF NoTests, PlanSet
<1>3. \A p \in PlanSet, i \in 1 .. n : Then(p, i) \in PlanSet
  BY TestsOfImpactIsPlan
<1>4. step \in [PlanSet \X (1 .. n) -> PlanSet]
  <2>1. \A ss \in PlanSet \X (1 .. n) : Then(ss[1], ss[2]) \in PlanSet
    <3> HIDE DEF n, Then
    <3> QED
      BY <1>3
  <2> HIDE DEF n, Then
  <2> QED
    BY <2>1
<1>5. PICK run : IsRun(run, PlanSet, NoTests, n, step)
  <2> HIDE DEF step, n
  <2> QED
    BY <1>1, <1>2, <1>4, RunExists
<1>6. run \in [0 .. n -> PlanSet] /\ \A k \in 0 .. n : run[k] = IF k = 0 THEN NoTests ELSE step[<<run[k - 1], k>>]
  BY <1>5 DEF IsRun
<1>7. \A k \in 0 .. n : k # 0 => k \in 1 .. n /\ k - 1 \in 0 .. n
  BY <1>1
<1>8. \A k \in 0 .. n : k # 0 => step[<<run[k - 1], k>>] = Then(run[k - 1], k)
  <2> HIDE DEF n, Then
  <2> QED
    BY <1>6, <1>7
<1>9. run = Body(run)
  <2> HIDE DEF n, step
  <2> QED
    BY <1>6, <1>8
<1>10. planned = Body(planned)
  <2> HIDE DEF Body
  <2> QED
    BY <1>9
<1>11. planned[0] = NoTests /\ \A i \in 1 .. n : planned[i] = Then(planned[i - 1], i)
  <2> HIDE DEF planned
  <2> QED
    BY <1>1, <1>10
<1> DEFINE T == {i \in 0 .. n : planned[i] \in PlanSet}
<1>12. 0 .. n \subseteq T
  <2>1. 0 \in T
    <3> HIDE DEF planned
    <3> QED
      BY <1>1, <1>2, <1>11
  <2>2. ASSUME NEW i \in 1 .. n, i - 1 \in T  PROVE i \in T
    <3> HIDE DEF planned, Then
    <3> QED
      BY <1>1, <1>3, <1>11, <2>2
  <2> HIDE DEF T, n
  <2> QED
    BY ONLY <1>1, <2>1, <2>2, UpTo
<1>13. planned[n] \in PlanSet
  <2> HIDE DEF planned
  <2> QED
    BY <1>1, <1>12
<1>14. TestsOf(change, limit, impacts) = planned[n]
  BY DEF TestsOf
<1> QED
  <2> HIDE DEF planned
  <2> QED
    BY <1>13, <1>14

(* A plan that is called passed has a fresh success of every test, and no  *)
(* failure; and one without tests is not run.                              *)
LEMMA ExecutionIsTold ==
  ASSUME NEW T, NEW tests \in Seq(T), NEW runs, \A r \in ToSet(runs) : r.status \in {"passed", "failed"},
         NEW plan, plan.tests = tests, plan.execution = Execution(tests, runs)
  PROVE  NotMasked(runs, plan)
<1> DEFINE outcomes == [i \in 1 .. Len(tests) |-> Outcome(tests[i].test, runs)]
<1>1. Len(tests) \in Nat /\ DOMAIN tests = 1 .. Len(tests)
  OBVIOUS
<1>2. ToSet(outcomes) = {Outcome(tests[i].test, runs) : i \in 1 .. Len(tests)}
  BY DEF ToSet
<1>3. ASSUME plan.execution = "passed", NEW t \in ToSet(tests)
      PROVE  LET fresh == {r \in ToSet(runs) : r.test = t.test /\ r.fresh} IN
             fresh # {} /\ \A r \in fresh : r.status = "passed"
  <2> DEFINE fresh == {r \in ToSet(runs) : r.test = t.test /\ r.fresh}
  <2>1. PICK i \in 1 .. Len(tests) : t = tests[i]
    BY <1>1 DEF ToSet
  <2>2. "failed" \notin ToSet(outcomes) /\ "not_run" \notin ToSet(outcomes)
    BY <1>3 DEF Execution
  <2>3. Outcome(t.test, runs) \notin {"failed", "not_run"}
    BY <1>2, <2>1, <2>2
  <2>4. fresh # {} /\ ~\E r \in fresh : r.status = "failed"
    BY <2>3 DEF Outcome
  <2> QED
    BY <2>4
<1>4. ASSUME plan.tests = <<>>  PROVE plan.execution = "not_run"
  <2>1. 1 .. Len(tests) = {}
    BY <1>4
  <2>2. ToSet(outcomes) = {}
    BY <1>2, <2>1
  <2> QED
    BY <2>2 DEF Execution
<1> QED
  BY <1>3, <1>4 DEF NotMasked

-----------------------------------------------------------------------------
(* The page of an answer.                                                  *)

LEMMA FirstOfIsPrefix ==
  ASSUME NEW A, NEW s \in Seq(A), NEW n \in Nat, NEW page, page = FirstOf(n, s)
  PROVE  /\ page \in Seq(A) /\ Len(page) \in Nat /\ Len(page) <= n /\ Len(page) <= Len(s)
         /\ \A i \in 1 .. Len(page) : i \in 1 .. Len(s) /\ page[i] = s[i]
         /\ Len(s) <= n => page = s
<1> DEFINE last == IF n < Len(s) THEN n ELSE Len(s)
<1>1. Len(s) \in Nat /\ last \in Nat /\ last <= n /\ last <= Len(s) /\ (Len(s) <= n => last = Len(s))
  OBVIOUS
<1>2. page = SubSeq(s, 1, last)
  BY DEF FirstOf
<1> HIDE DEF last
<1>3. \A i \in 1 .. last : i \in 1 .. Len(s) /\ s[i] \in A
  BY <1>1
<1>4. page \in Seq(A) /\ Len(page) = last /\ \A i \in 1 .. last : page[i] = s[i]
  BY <1>1, <1>2, <1>3
<1>5. last = Len(s) => page = s
  BY <1>1, <1>4
<1> QED
  BY <1>1, <1>3, <1>4, <1>5

(* What a scan answers: the first findings and impacts that were seen, the *)
(* gaps of them, of the page and of the tests, and the missions.           *)
IsAnswered(change, limit, runs, scan, seen, plan) ==
  /\ scan.findings = FirstOf(limit, seen.findings)
  /\ scan.impacts = ImpactsOfPage(scan.findings, seen.impacts, limit)
  /\ scan.tests = plan.tests
  /\ scan.execution = Execution(plan.tests, runs)
  /\ scan.gaps = seen.gaps \cup OverLimit(scan.findings, seen.impacts, limit) \cup plan.gaps
  /\ scan.partial = (scan.gaps # {})
  /\ LET missions == MissionsOf(change, scan.findings, scan.impacts) IN
     scan.missions = Schedule([i \in 1 .. Len(missions) |->
                                 WithEvidence(missions[i], plan.tests, ToSet(ListedGaps(scan.gaps)))])

LEMMA ScanIsAnswered ==
  ASSUME NEW change, NEW limit, NEW runs, NEW scan, scan = ScanRisks(change, limit, runs),
         NEW seen, seen = Inspected(change, limit)
  PROVE  IsAnswered(change, limit, runs, scan, seen, TestsOf(change, limit, scan.impacts))
<1> DEFINE findings == FirstOf(limit, seen.findings)
           impacts == ImpactsOfPage(findings, seen.impacts, limit)
           plan == TestsOf(change, limit, impacts)
           gaps == seen.gaps \cup OverLimit(findings, seen.impacts, limit) \cup plan.gaps
           missions == MissionsOf(change, findings, impacts)
<1>1. scan = Reported(change, limit, runs, seen)
  BY DEF ScanRisks
<1>2. scan = Answered(findings, impacts, plan.tests, gaps, missions, runs)
  BY <1>1 DEF Reported, Paged, Planned
<1> HIDE DEF findings, impacts, plan, gaps, missions
<1>3. /\ scan.findings = findings /\ scan.impacts = impacts /\ scan.tests = plan.tests
      /\ scan.execution = Execution(plan.tests, runs) /\ scan.gaps = gaps /\ scan.partial = (gaps # {})
  BY <1>2 DEF Answered
<1>4. scan.missions = Schedule([i \in 1 .. Len(missions) |->
                                  WithEvidence(missions[i], plan.tests, ToSet(ListedGaps(gaps)))])
  BY <1>2 DEF Answered
<1> QED
  BY <1>3, <1>4 DEF IsAnswered, findings, impacts, plan, gaps, missions

(* The rows of it are calls, its gaps gaps, and a page with no gap has all *)
(* that was seen.                                                          *)
LEMMA AnswerIsTyped ==
  ASSUME NEW change, IsChange(change), NEW limit \in Nat, NEW runs,
         NEW scan, scan = ScanRisks(change, limit, runs),
         NEW seen, seen = Inspected(change, limit)
  PROVE  /\ scan.findings \in Seq(CallSet) /\ scan.impacts \in Seq(CallSet)
         /\ scan.tests \in Seq([test : Symbols, impact : Nat])
         /\ scan.gaps \in SUBSET GapSet
         /\ \A i \in DOMAIN scan.findings :
              i \in DOMAIN seen.findings /\ scan.findings[i] = seen.findings[i]
         /\ scan.gaps = {} =>
              seen.gaps = {} /\ scan.findings = seen.findings /\ scan.impacts = seen.impacts
<1> DEFINE plan == TestsOf(change, limit, scan.impacts)
           over == OverLimit(scan.findings, seen.impacts, limit)
<1>1. IsAnswered(change, limit, runs, scan, seen, plan)
  BY ScanIsAnswered
<1>2. IsSeen(change, limit, seen)
  BY InspectedIsSeen
<1>3. /\ seen.findings \in Seq(CallSet) /\ seen.impacts \in Seq(CallSet) /\ seen.gaps \in SUBSET GapSet
      /\ seen.gaps = {} => Len(seen.findings) <= limit
  BY <1>2 DEF IsSeen, SeenSet
<1> HIDE DEF plan, over
<1>4. /\ scan.findings = FirstOf(limit, seen.findings)
      /\ scan.impacts = FirstOf(limit - Len(scan.findings), seen.impacts)
      /\ scan.gaps = seen.gaps \cup over \cup plan.gaps /\ scan.tests = plan.tests
  BY <1>1 DEF IsAnswered, ImpactsOfPage, over
<1>5. /\ scan.findings \in Seq(CallSet) /\ Len(scan.findings) \in Nat /\ Len(scan.findings) <= limit
      /\ \A i \in 1 .. Len(scan.findings) :
           i \in 1 .. Len(seen.findings) /\ scan.findings[i] = seen.findings[i]
      /\ Len(seen.findings) <= limit => scan.findings = seen.findings
  BY <1>3, <1>4, FirstOfIsPrefix
<1>6. DOMAIN scan.findings = 1 .. Len(scan.findings) /\ DOMAIN seen.findings = 1 .. Len(seen.findings)
  BY <1>3, <1>5
<1> DEFINE room == limit - Len(scan.findings)
<1>7. room \in Nat
  BY <1>5
<1>8. scan.impacts \in Seq(CallSet) /\ (Len(seen.impacts) <= room => scan.impacts = seen.impacts)
  <2> HIDE DEF room
  <2>1. scan.impacts = FirstOf(room, seen.impacts)
    BY <1>4 DEF room
  <2> QED
    BY <1>3, <1>7, <2>1, FirstOfIsPrefix
<1>9. plan \in PlanSet
  BY <1>8, TestsOfIsPlan DEF plan
<1>10. plan.gaps \in SUBSET GapSet /\ plan.tests \in Seq([test : Symbols, impact : Nat])
  BY <1>9 DEF PlanSet
<1>11. over \in SUBSET GapSet /\ (over = {} => Len(seen.impacts) <= room)
  <2>1. <<0, "RESULT_LIMIT">> \in GapSet
    BY GapsAreGaps
  <2>2. Len(seen.impacts) \in Nat
    BY <1>3
  <2>3. over = {<<0, "RESULT_LIMIT">>} \/ (over = {} /\ ~(Len(scan.findings) + Len(seen.impacts) > limit))
    BY DEF over, OverLimit
  <2>4. ~(Len(scan.findings) + Len(seen.impacts) > limit) => Len(seen.impacts) <= room
    <3> DEFINE n == Len(scan.findings)
               m == Len(seen.impacts)
    <3>1. n \in Nat /\ m \in Nat
      BY <1>5, <2>2
    <3> HIDE DEF n, m
    <3>2. ~(n + m > limit) => m <= limit - n
      BY ONLY <3>1, limit \in Nat
    <3> QED
      BY <3>2 DEF n, m
  <2> HIDE DEF room
  <2> QED
    BY <2>1, <2>3, <2>4
<1>12. scan.gaps \in SUBSET GapSet
  BY <1>3, <1>4, <1>10, <1>11
<1>13. scan.gaps = {} => seen.gaps = {} /\ scan.findings = seen.findings /\ scan.impacts = seen.impacts
  BY <1>3, <1>4, <1>5, <1>8, <1>11
<1> QED
  BY <1>4, <1>5, <1>6, <1>8, <1>10, <1>12, <1>13

(* A scan with no gap missed nothing.                                      *)
LEMMA ScanMisses ==
  ASSUME NEW change, IsChange(change), NEW limit \in Nat, NEW runs,
         NEW scan, scan = ScanRisks(change, limit, runs)
  PROVE  MissesNothing(change, scan)
<1> DEFINE seen == Inspected(change, limit)
           calls == {c \in ToSet(BaseCalls) : {PathOf[c[1]], PathOf[c[2]]} \cap change.edited # {}}
           Covers(rows, c) == \E i \in DOMAIN rows : rows[i].caller = c[1] /\ NameOf[rows[i].target] = NameOf[c[2]]
<1>1. /\ IsSeen(change, limit, seen)
      /\ seen.gaps = {} => \A call \in ToSet(BaseCalls) : IsDone(change, seen, call)
  BY InspectedIsSeen
<1>2. /\ scan.findings \in Seq(CallSet)
      /\ \A i \in DOMAIN scan.findings :
           i \in DOMAIN seen.findings /\ scan.findings[i] = seen.findings[i]
      /\ scan.gaps = {} =>
           seen.gaps = {} /\ scan.findings = seen.findings /\ scan.impacts = seen.impacts
  BY AnswerIsTyped
<1>3. scan.partial = (scan.gaps # {})
  <2>1. IsAnswered(change, limit, runs, scan, seen, TestsOf(change, limit, scan.impacts))
    BY ScanIsAnswered
  <2> QED
    BY ONLY <2>1 DEF IsAnswered
<1> HIDE DEF seen
<1>4. ASSUME ~scan.partial, NEW c \in calls
      PROVE  /\ change.now[c[2]] = "edited" /\ change.now[c[1]] # "twice" /\ c \in change.live =>
                  Covers(scan.impacts, c)
             /\ change.now[c[1]] = "same" /\ change.now[c[2]] = "gone" /\ NameOf[c[2]] \notin Names(change)
                  /\ c \in change.retained => Covers(scan.findings, c)
  <2>1. IsDone(change, seen, c) /\ scan.findings = seen.findings /\ scan.impacts = seen.impacts
    BY <1>1, <1>2, <1>3, <1>4
  <2>2. CoveredIn(seen, <<"impact", c[1], NameOf[c[2]]>>) => Covers(seen.impacts, c)
    BY DEF CoveredIn
  <2>3. CoveredIn(seen, <<"removed", c[1], NameOf[c[2]]>>) => Covers(seen.findings, c)
    BY DEF CoveredIn
  <2> HIDE DEF Covers
  <2> QED
    BY <2>1, <2>2, <2>3 DEF IsDone
<1>5. ASSUME NEW i \in DOMAIN scan.findings
      PROVE  /\ <<scan.findings[i].caller, scan.findings[i].target>> \notin change.live
             /\ NameOf[scan.findings[i].target] \notin Names(change)
  <2> DEFINE f == scan.findings[i]
  <2>1. f = seen.findings[i] /\ i \in DOMAIN seen.findings
    BY <1>2
  <2>2. change.now[f.target] = "gone" /\ NameOf[f.target] \notin Names(change)
    BY <1>1, <2>1 DEF IsSeen
  <2> HIDE DEF f
  <2>3. f.target \notin Present(change)
    BY <2>2 DEF Present
  <2>4. change.live \subseteq Present(change) \X Present(change)
    BY DEF IsChange
  <2>5. <<f.caller, f.target>> \notin change.live
    BY <2>3, <2>4
  <2> QED
    BY <2>2, <2>5 DEF f
<1> QED
  BY <1>4, <1>5 DEF MissesNothing

(* A scan calls no plan passed that is not.                                *)
LEMMA ScanIsNotMasked ==
  ASSUME NEW change, IsChange(change), NEW limit \in Nat,
         NEW runs, \A r \in ToSet(runs) : r.status \in {"passed", "failed"}
  PROVE  NotMasked(runs, ScanRisks(change, limit, runs))
<1> DEFINE scan == ScanRisks(change, limit, runs)
           seen == Inspected(change, limit)
<1>1. scan.tests \in Seq([test : Symbols, impact : Nat])
  BY AnswerIsTyped
<1>2. scan.execution = Execution(scan.tests, runs)
  <2> DEFINE plan == TestsOf(change, limit, scan.impacts)
  <2> HIDE DEF scan
  <2>1. scan = ScanRisks(change, limit, runs)
    BY DEF scan
  <2>2. IsAnswered(change, limit, runs, scan, seen, plan)
    BY <2>1, ScanIsAnswered
  <2> HIDE DEF plan, seen
  <2> QED
    BY ONLY <2>2 DEF IsAnswered
<1> HIDE DEF scan
<1>3. NotMasked(runs, scan)
  BY <1>1, <1>2, ExecutionIsTold
<1> QED
  BY <1>3 DEF scan

-----------------------------------------------------------------------------
(* Missions in the order of their keys.                                    *)

KindSet == {"retained_call_candidate", "changed_dependency", "review_changed_path"}
MissionSet ==
  [kind : KindSet, key : Nat \X Nat \X Nat, change : SUBSET RepoPaths, findings : SUBSET Nat,
   impacts : SUBSET Nat, touched : SUBSET RepoPaths, tests : SUBSET Nat, blocking : SUBSET GapSet,
   group : Nat, after : SUBSET Nat]

LEMMA MissionIsTyped ==
  ASSUME NEW kind \in KindSet, NEW key \in Nat \X Nat \X Nat, NEW change \in SUBSET RepoPaths,
         NEW review \in SUBSET RepoPaths, NEW findings \in SUBSET Nat, NEW impacts \in SUBSET Nat,
         NEW mission, mission = Mission(kind, key, change, review, findings, impacts)
  PROVE  /\ mission \in MissionSet /\ mission.key = key /\ mission.change = change
         /\ mission.findings = findings /\ mission.impacts = impacts /\ mission.touched = change \cup review
<1>1. change \cup review \in SUBSET RepoPaths
  OBVIOUS
<1> QED
  BY <1>1 DEF Mission, MissionSet

(* The order by three numbers.                                             *)
LEMMA BeforeByKeys ==
  ASSUME NEW x \in MissionSet, NEW y \in MissionSet
  PROVE  /\ x.key[1] \in Nat /\ x.key[2] \in Nat /\ x.key[3] \in Nat
         /\ x.key = <<x.key[1], x.key[2], x.key[3]>>
         /\ BeforeMission(x, y) <=>
              \/ x.key[1] < y.key[1]
              \/ x.key[1] = y.key[1] /\ x.key[2] < y.key[2]
              \/ x.key[1] = y.key[1] /\ x.key[2] = y.key[2] /\ x.key[3] < y.key[3]
<1> DEFINE k == x.key
           l == y.key
<1>1. k \in Nat \X Nat \X Nat
  BY DEF MissionSet
<1>2. BeforeMission(x, y) <=> \E i \in 1 .. 3 : k[i] < l[i] /\ \A j \in 1 .. i - 1 : k[j] = l[j]
  BY DEF BeforeMission
<1> HIDE DEF k, l
<1>3. k[1] \in Nat /\ k[2] \in Nat /\ k[3] \in Nat /\ k = <<k[1], k[2], k[3]>>
  BY <1>1
<1>4. 1 .. 3 = {1, 2, 3} /\ 1 .. 1 - 1 = {} /\ 1 .. 2 - 1 = {1} /\ 1 .. 3 - 1 = {1, 2}
  OBVIOUS
<1>5. (\E i \in 1 .. 3 : k[i] < l[i] /\ \A j \in 1 .. i - 1 : k[j] = l[j]) <=>
        \/ k[1] < l[1]
        \/ k[1] = l[1] /\ k[2] < l[2]
        \/ k[1] = l[1] /\ k[2] = l[2] /\ k[3] < l[3]
  BY <1>4
<1> QED
  BY <1>2, <1>3, <1>5 DEF k, l

LEMMA KeysAreOrdered ==
  ASSUME NEW S \in SUBSET MissionSet, IsFiniteSet(S),
         \A x, y \in S : x.key = y.key => x = y
  PROVE  /\ InOrder(S, BeforeMission) \in Seq(S) /\ Len(InOrder(S, BeforeMission)) \in Nat
         /\ ToSet(InOrder(S, BeforeMission)) = S
<1> DEFINE below == [x \in S |-> {y \in S : BeforeMission(y, x)}]
           f == InOrder(S, BeforeMission)
           Key(x, n) == x.key[n]
<1>1. IsOrder(below, S)
  <2>1. \A x \in S : Key(x, 1) \in Nat /\ Key(x, 2) \in Nat /\ Key(x, 3) \in Nat
    BY BeforeByKeys
  <2>2. \A x, y \in S : BeforeMission(x, y) <=>
          \/ Key(x, 1) < Key(y, 1)
          \/ Key(x, 1) = Key(y, 1) /\ Key(x, 2) < Key(y, 2)
          \/ Key(x, 1) = Key(y, 1) /\ Key(x, 2) = Key(y, 2) /\ Key(x, 3) < Key(y, 3)
    BY BeforeByKeys
  <2>3. \A x, y \in S : Key(x, 1) = Key(y, 1) /\ Key(x, 2) = Key(y, 2) /\ Key(x, 3) = Key(y, 3) => x = y
    <3> TAKE x, y \in S
    <3>1. x.key = <<x.key[1], x.key[2], x.key[3]>> /\ y.key = <<y.key[1], y.key[2], y.key[3]>>
      BY BeforeByKeys
    <3> QED
      BY <3>1
  <2>4. below \in [S -> SUBSET S]
    OBVIOUS
  <2>5. \A x, y \in S : y \in below[x] <=> BeforeMission(y, x)
    OBVIOUS
  <2> HIDE DEF below, Key
  <2>6. \A x \in S : ~BeforeMission(x, x)
    BY <2>1, <2>2
  <2>7. \A x, y \in S : x # y => BeforeMission(x, y) \/ BeforeMission(y, x)
    BY <2>1, <2>2, <2>3
  <2>8. \A x, y, z \in S : BeforeMission(z, y) /\ BeforeMission(y, x) => BeforeMission(z, x)
    BY <2>1, <2>2
  <2>9. \A x, y \in S : y \in below[x] => below[y] \subseteq below[x]
    BY <2>4, <2>5, <2>8
  <2> QED
    BY <2>4, <2>5, <2>6, <2>7, <2>9 DEF IsOrder
<1>2. IsListing(f, S, below)
  <2> DEFINE placed == {<<Cardinality({y \in S : BeforeMission(y, x)}) + 1, x>> : x \in S}
  <2>1. f = [k \in 1 .. Cardinality(S) |-> (CHOOSE p \in placed : p[1] = k)[2]]
    BY DEF InOrder
  <2>2. placed = {<<Cardinality(below[x]) + 1, x>> : x \in S}
    OBVIOUS
  <2> HIDE DEF below, placed, f
  <2> QED
    BY <2>1, <2>2 DEF IsListing
<1> HIDE DEF below
<1> QED
  BY <1>1, <1>2, ListingListsAll

(* One by one the gaps are listed, and when they are few, all of them.     *)
LEMMA FewGapsAreListed ==
  ASSUME NEW gaps \in SUBSET GapSet
  PROVE  /\ ToSet(ListedGaps(gaps)) \subseteq gaps
         /\ Cardinality(gaps) <= GapRows => ToSet(ListedGaps(gaps)) = gaps
<1> DEFINE below == [x \in gaps |-> {y \in gaps : GapBefore(y, x)}]
           f == InOrder(gaps, GapBefore)
           Path(g) == g[1]
           Code(g) == CodeOrder[g[2]]
<1>1. IsFiniteSet(gaps)
  BY GapsAreFinite, FS_Subset
<1>2. IsOrder(below, gaps)
  <2>1. \A c, d \in DOMAIN CodeOrder : CodeOrder[c] \in Nat /\ (CodeOrder[c] = CodeOrder[d] => c = d)
    BY DEF CodeOrder
  <2>2. \A g \in gaps : g[1] \in Nat /\ g[2] \in DOMAIN CodeOrder /\ g = <<g[1], g[2]>>
    <3> TAKE g \in gaps
    <3>1. g \in GapSet
      OBVIOUS
    <3>2. g[1] \in Nat /\ g[2] \in DOMAIN CodeOrder
      BY <3>1, GapsAreFinite
    <3> DEFINE codes == DOMAIN CodeOrder
    <3>3. g \in ({0} \cup RepoPaths) \X codes
      BY <3>1 DEF GapSet
    <3> HIDE DEF codes
    <3>4. g = <<g[1], g[2]>>
      BY <3>3
    <3> QED
      BY <3>2, <3>4
  <2>3. \A g, h \in gaps : GapBefore(g, h) <=> Path(g) < Path(h) \/ (Path(g) = Path(h) /\ Code(g) < Code(h))
    BY DEF GapBefore
  <2>4. \A g \in gaps : Path(g) \in Nat /\ Code(g) \in Nat
    BY <2>1, <2>2
  <2>5. \A g, h \in gaps : Path(g) = Path(h) /\ Code(g) = Code(h) => g = h
    <3> TAKE g, h \in gaps
    <3> HAVE Path(g) = Path(h) /\ Code(g) = Code(h)
    <3>1. g[2] = h[2]
      BY <2>1, <2>2
    <3> QED
      BY <2>2, <3>1
  <2>6. below \in [gaps -> SUBSET gaps]
    OBVIOUS
  <2>7. \A x, y \in gaps : y \in below[x] <=> GapBefore(y, x)
    OBVIOUS
  <2> HIDE DEF below, Path, Code
  <2>8. \A x \in gaps : ~GapBefore(x, x)
    BY <2>3, <2>4
  <2>9. \A x, y \in gaps : x # y => GapBefore(x, y) \/ GapBefore(y, x)
    BY <2>3, <2>4, <2>5
  <2>10. \A x, y, z \in gaps : GapBefore(z, y) /\ GapBefore(y, x) => GapBefore(z, x)
    BY <2>3, <2>4
  <2>11. \A x, y \in gaps : y \in below[x] => below[y] \subseteq below[x]
    BY <2>6, <2>7, <2>10
  <2> QED
    BY <2>6, <2>7, <2>8, <2>9, <2>11 DEF IsOrder
<1>3. IsListing(f, gaps, below)
  <2> DEFINE placed == {<<Cardinality({y \in gaps : GapBefore(y, x)}) + 1, x>> : x \in gaps}
  <2>1. f = [k \in 1 .. Cardinality(gaps) |-> (CHOOSE p \in placed : p[1] = k)[2]]
    BY DEF InOrder
  <2>2. placed = {<<Cardinality(below[x]) + 1, x>> : x \in gaps}
    OBVIOUS
  <2> HIDE DEF below, placed, f
  <2> QED
    BY <2>1, <2>2 DEF IsListing
<1> HIDE DEF below
<1>4. f \in Seq(gaps) /\ Len(f) = Cardinality(gaps) /\ ToSet(f) = gaps
  BY <1>1, <1>2, <1>3, ListingListsAll
<1> HIDE DEF f
<1> DEFINE listed == ListedGaps(gaps)
<1>5. listed = FirstOf(GapRows, f) /\ GapRows \in Nat
  BY BaselineAssumption DEF ListedGaps, f
<1> HIDE DEF listed
<1>6. /\ listed \in Seq(gaps)
      /\ Len(f) <= GapRows => listed = f
  BY <1>4, <1>5, FirstOfIsPrefix
<1>7. ToSet(listed) \subseteq gaps
  BY <1>6 DEF ToSet
<1> QED
  BY <1>4, <1>6, <1>7 DEF listed

-----------------------------------------------------------------------------
(* The missions of a page.                                                 *)

LEMMA MissionsAreListed ==
  ASSUME NEW change, IsChange(change), NEW findings \in Seq(CallSet), NEW impacts \in Seq(CallSet),
         NEW missions, missions = MissionsOf(change, findings, impacts)
  PROVE  /\ missions \in Seq(MissionSet)
         /\ \A i \in 1 .. Len(findings) : \E n \in 1 .. Len(missions) : i \in missions[n].findings
         /\ \A i \in 1 .. Len(impacts) : \E n \in 1 .. Len(missions) : i \in missions[n].impacts
         /\ \A p \in change.edited : \E n \in 1 .. Len(missions) : p \in missions[n].touched
<1> DEFINE OfFinding(i) == Mission("retained_call_candidate", <<1, findings[i].target, i>>,
                                   {PathOf[findings[i].target]}, {PathOf[findings[i].caller]}, {i}, {})
           indexesOf(t) == {i \in 1 .. Len(impacts) : impacts[i].target = t}
           OfImpacts(t) == Mission("changed_dependency", <<2, t, 0>>, {PathOf[t]},
                                   {PathOf[impacts[i].caller] : i \in indexesOf(t)}, {}, indexesOf(t))
           OfPath(p) == Mission("review_changed_path", <<3, p, 0>>, {p}, {p}, {}, {})
           targets == {impacts[i].target : i \in 1 .. Len(impacts)}
           ofFindings == {OfFinding(i) : i \in 1 .. Len(findings)}
           ofImpacts == {OfImpacts(t) : t \in targets}
           represented == UNION {mission.change : mission \in ofFindings \cup ofImpacts}
           others == change.edited \ represented
           ofPaths == {OfPath(p) : p \in others}
           all == ofFindings \cup ofImpacts \cup ofPaths
<1>1. missions = InOrder(all, BeforeMission)
  BY DEF MissionsOf
<1>2. /\ Len(findings) \in Nat /\ Len(impacts) \in Nat
      /\ \A i \in 1 .. Len(findings) : findings[i].target \in Symbols /\ findings[i].caller \in Symbols
      /\ \A i \in 1 .. Len(impacts) : impacts[i].target \in Symbols /\ impacts[i].caller \in Symbols
  <2>1. \A c \in CallSet : c.target \in Symbols /\ c.caller \in Symbols
    BY DEF CallSet
  <2> QED
    BY <2>1
<1>3. /\ Symbols \subseteq Nat /\ IsFiniteSet(Symbols) /\ RepoPaths \subseteq Nat /\ IsFiniteSet(RepoPaths)
      /\ \A s \in Symbols : PathOf[s] \in RepoPaths
      /\ change.edited \subseteq RepoPaths
  BY BaselineAssumption DEF IsChange
<1>4. targets \subseteq Symbols
  BY <1>2
<1> HIDE DEF targets, others
<1>5. others \subseteq change.edited
  BY DEF others
<1>6. ASSUME NEW i \in 1 .. Len(findings)
      PROVE  /\ OfFinding(i) \in MissionSet /\ OfFinding(i).key = <<1, findings[i].target, i>>
             /\ OfFinding(i).change = {PathOf[findings[i].target]} /\ OfFinding(i).findings = {i}
             /\ OfFinding(i).change \subseteq OfFinding(i).touched
  <2> DEFINE mission == OfFinding(i)
             key == <<1, findings[i].target, i>>
             home == {PathOf[findings[i].target]}
             review == {PathOf[findings[i].caller]}
             only == {i}
             none == {}
  <2>1. i \in Nat /\ findings[i].target \in Nat
    <3>1. i \in Nat
      BY <1>2
    <3>2. findings[i].target \in Symbols
      BY <1>2
    <3> QED
      BY <1>3, <3>1, <3>2
  <2>2. key \in Nat \X Nat \X Nat /\ only \in SUBSET Nat
    BY <2>1
  <2>3. home \in SUBSET RepoPaths /\ review \in SUBSET RepoPaths
    BY <1>2, <1>3
  <2>4. mission = Mission("retained_call_candidate", key, home, review, only, none)
    OBVIOUS
  <2>5. "retained_call_candidate" \in KindSet /\ none \in SUBSET Nat
    BY DEF KindSet
  <2> HIDE DEF mission, key, home, review, only, none
  <2>6. /\ mission \in MissionSet /\ mission.key = key /\ mission.change = home
        /\ mission.findings = only /\ mission.touched = home \cup review
    <3>1. only \in SUBSET Nat /\ none \in SUBSET Nat
      BY <2>2, <2>5
    <3>2. key \in Nat \X Nat \X Nat
      BY <2>2
    <3>3. home \cup review \in SUBSET RepoPaths
      BY <2>3
    <3> QED
      BY ONLY <3>1, <3>2, <3>3, <2>3, <2>4, <2>5 DEF Mission, MissionSet
  <2> QED
    BY <2>6 DEF mission, key, home, only
<1>7. ASSUME NEW t \in targets
      PROVE  /\ OfImpacts(t) \in MissionSet /\ OfImpacts(t).key = <<2, t, 0>>
             /\ OfImpacts(t).change = {PathOf[t]} /\ OfImpacts(t).impacts = indexesOf(t)
             /\ OfImpacts(t).change \subseteq OfImpacts(t).touched
  <2> DEFINE mission == OfImpacts(t)
             key == <<2, t, 0>>
             home == {PathOf[t]}
             indexes == indexesOf(t)
             review == {PathOf[impacts[i].caller] : i \in indexes}
  <2>1. key \in Nat \X Nat \X Nat /\ home \in SUBSET RepoPaths /\ indexes \in SUBSET Nat
    BY <1>2, <1>3, <1>4
  <2>2. review \in SUBSET RepoPaths
    BY <1>2, <1>3
  <2>3. mission = Mission("changed_dependency", key, home, review, {}, indexes)
    OBVIOUS
  <2>4. "changed_dependency" \in KindSet /\ {} \in SUBSET Nat
    BY DEF KindSet
  <2> HIDE DEF mission, key, home, review, indexes
  <2>5. /\ mission \in MissionSet /\ mission.key = key /\ mission.change = home
        /\ mission.impacts = indexes /\ mission.touched = home \cup review
    BY <2>1, <2>2, <2>3, <2>4, MissionIsTyped
  <2> QED
    BY <2>5 DEF mission, key, home, indexes
<1>8. ASSUME NEW p \in others
      PROVE  /\ OfPath(p) \in MissionSet /\ OfPath(p).key = <<3, p, 0>> /\ p \in OfPath(p).touched
  <2> DEFINE mission == OfPath(p)
             key == <<3, p, 0>>
  <2>1. key \in Nat \X Nat \X Nat /\ {p} \in SUBSET RepoPaths
    BY <1>3, <1>5
  <2>2. mission = Mission("review_changed_path", key, {p}, {p}, {}, {})
    OBVIOUS
  <2>3. "review_changed_path" \in KindSet /\ {} \in SUBSET Nat
    BY DEF KindSet
  <2> HIDE DEF mission, key
  <2> DEFINE home == {p}
  <2>4. mission = Mission("review_changed_path", key, home, home, {}, {}) /\ home \in SUBSET RepoPaths
    BY <2>1, <2>2
  <2> HIDE DEF home
  <2>5. mission \in MissionSet /\ mission.key = key /\ mission.touched = home \cup home
    BY <2>1, <2>3, <2>4, MissionIsTyped
  <2> QED
    BY <2>5 DEF mission, key, home
<1> HIDE DEF OfFinding, OfImpacts, OfPath
<1>9. all \in SUBSET MissionSet
  BY <1>6, <1>7, <1>8
<1>10. IsFiniteSet(all)
  <2>1. IsFiniteSet(1 .. Len(findings)) /\ IsFiniteSet(targets) /\ IsFiniteSet(others)
    <3>1. IsFiniteSet(1 .. Len(findings))
      BY <1>2, FS_Interval
    <3>2. IsFiniteSet(targets)
      BY <1>3, <1>4, FS_Subset
    <3>3. IsFiniteSet(others)
      <4>1. others \subseteq RepoPaths
        BY <1>3, <1>5
      <4> QED
        BY <1>3, <4>1, FS_Subset
    <3> QED
      BY <3>1, <3>2, <3>3
  <2>2. IsFiniteSet(ofFindings)
    <3> DEFINE S == 1 .. Len(findings)
               f == [i \in S |-> OfFinding(i)]
    <3>1. ofFindings = {f[i] : i \in S}
      OBVIOUS
    <3> HIDE DEF f, S, ofFindings
    <3>2. IsFiniteSet({f[i] : i \in S})
      BY <2>1, ImageIsFinite DEF S
    <3> QED
      BY <3>1, <3>2
  <2>3. IsFiniteSet(ofImpacts)
    <3> DEFINE f == [t \in targets |-> OfImpacts(t)]
    <3>1. ofImpacts = {f[t] : t \in targets}
      OBVIOUS
    <3> HIDE DEF f, ofImpacts
    <3>2. IsFiniteSet({f[t] : t \in targets})
      BY <2>1, ImageIsFinite
    <3> QED
      BY <3>1, <3>2
  <2>4. IsFiniteSet(ofPaths)
    <3> DEFINE f == [p \in others |-> OfPath(p)]
    <3>1. ofPaths = {f[p] : p \in others}
      OBVIOUS
    <3> HIDE DEF f, ofPaths
    <3>2. IsFiniteSet({f[p] : p \in others})
      BY <2>1, ImageIsFinite
    <3> QED
      BY <3>1, <3>2
  <2> HIDE DEF ofFindings, ofImpacts, ofPaths
  <2> QED
    BY <2>2, <2>3, <2>4, FS_Union
<1>11. \A x, y \in all : x.key = y.key => x = y
  <2>1. \A x \in ofFindings : \E i \in 1 .. Len(findings) : x = OfFinding(i) /\ x.key = <<1, findings[i].target, i>>
    BY <1>6
  <2>2. \A x \in ofImpacts : \E t \in targets : x = OfImpacts(t) /\ x.key = <<2, t, 0>>
    BY <1>7
  <2>3. \A x \in ofPaths : \E p \in others : x = OfPath(p) /\ x.key = <<3, p, 0>>
    BY <1>8
  <2>4. \A x \in all : x \in ofFindings \/ x \in ofImpacts \/ x \in ofPaths
    OBVIOUS
  <2> HIDE DEF ofFindings, ofImpacts, ofPaths, all
  <2>5. \A x, y \in ofFindings : x.key = y.key => x = y
    BY <2>1
  <2>6. \A x, y \in ofImpacts : x.key = y.key => x = y
    BY <2>2
  <2>7. \A x, y \in ofPaths : x.key = y.key => x = y
    BY <2>3
  <2>8. \A x \in ofFindings : x.key[1] = 1
    BY <2>1
  <2>9. \A x \in ofImpacts : x.key[1] = 2
    BY <2>2
  <2>10. \A x \in ofPaths : x.key[1] = 3
    BY <2>3
  <2> QED
    BY <2>4, <2>5, <2>6, <2>7, <2>8, <2>9, <2>10
<1>12. missions \in Seq(all) /\ ToSet(missions) = all
  <2> HIDE DEF all
  <2> QED
    BY <1>1, <1>9, <1>10, <1>11, KeysAreOrdered
<1>13. \A x \in all : \E n \in 1 .. Len(missions) : x = missions[n]
  <2> HIDE DEF all
  <2> QED
    BY <1>12 DEF ToSet
<1>14. missions \in Seq(MissionSet)
  <2> HIDE DEF all
  <2> QED
    BY <1>9, <1>12
<1>15. ASSUME NEW i \in 1 .. Len(findings)
       PROVE  \E n \in 1 .. Len(missions) : i \in missions[n].findings
  <2>1. OfFinding(i) \in all /\ i \in OfFinding(i).findings
    BY <1>6
  <2> HIDE DEF all
  <2> QED
    BY <1>13, <2>1
<1>16. ASSUME NEW i \in 1 .. Len(impacts)
       PROVE  \E n \in 1 .. Len(missions) : i \in missions[n].impacts
  <2> DEFINE t == impacts[i].target
  <2>1. t \in targets /\ i \in indexesOf(t)
    BY DEF targets
  <2> HIDE DEF t
  <2>2. OfImpacts(t) \in all /\ i \in OfImpacts(t).impacts
    BY <1>7, <2>1
  <2> HIDE DEF all
  <2> QED
    BY <1>13, <2>2
<1>17. ASSUME NEW p \in change.edited
       PROVE  \E n \in 1 .. Len(missions) : p \in missions[n].touched
  <2>1. CASE p \in others
    <3>1. OfPath(p) \in all /\ p \in OfPath(p).touched
      BY <1>8, <2>1
    <3> HIDE DEF all
    <3> QED
      BY <1>13, <3>1
  <2>2. CASE p \notin others
    <3>1. PICK mission \in ofFindings \cup ofImpacts : p \in mission.change
      BY <2>2 DEF others
    <3>2. mission.change \subseteq mission.touched
      BY <1>6, <1>7
    <3>3. mission \in all
      OBVIOUS
    <3> HIDE DEF all, ofFindings, ofImpacts
    <3> QED
      BY <1>13, <3>1, <3>2, <3>3
  <2> QED
    BY <2>1, <2>2
<1> QED
  BY <1>14, <1>15, <1>16, <1>17

-----------------------------------------------------------------------------
(* Missions in groups.                                                     *)

(* Numbers with a bound have a greatest.                                   *)
LEMMA GreatestExists ==
  ASSUME NEW S \in SUBSET Nat, S # {}, NEW bound \in Nat, \A x \in S : x <= bound
  PROVE  Max(S) \in S /\ \A x \in S : x <= Max(S)
<1> DEFINE uppers == {u \in Nat : \A x \in S : x <= u}
<1>1. PICK least \in uppers : \A u \in uppers : least <= u
  <2>1. uppers \in SUBSET Nat /\ uppers # {}
    OBVIOUS
  <2> HIDE DEF uppers
  <2> QED
    BY <2>1, LeastExists
<1>2. least \in S
  <2> SUFFICES ASSUME least \notin S PROVE FALSE
    OBVIOUS
  <2>1. PICK x \in S : TRUE
    OBVIOUS
  <2>2. \A y \in S : y \in Nat /\ y <= least /\ y # least
    BY <1>1
  <2>3. least \in Nat /\ least # 0
    BY <1>1, <2>1, <2>2
  <2>4. least - 1 \in uppers
    BY <2>2, <2>3
  <2> QED
    BY <1>1, <2>3, <2>4
<1>3. \E x \in S : \A y \in S : x >= y
  BY <1>1, <1>2
<1>4. Max(S) \in S /\ \A y \in S : Max(S) >= y
  BY <1>3 DEF Max
<1> QED
  BY <1>4

(* The group of a mission that follows others: above all of theirs.        *)
LEMMA GroupIsAfter ==
  ASSUME NEW k \in Nat \ {0}, NEW groups \in Seq(Nat), NEW prior \in SUBSET (1 .. Len(groups)),
         Len(groups) = k - 1, \A i \in 1 .. Len(groups) : groups[i] < i,
         NEW group, group = GroupAfter(groups, prior)
  PROVE  group \in Nat /\ group < k /\ \A j \in prior : groups[j] < group
<1> DEFINE S == {0} \cup {groups[j] + 1 : j \in prior}
<1>1. \A j \in prior : j \in 1 .. k - 1 /\ groups[j] \in Nat /\ groups[j] < j
  OBVIOUS
<1>2. S \in SUBSET Nat /\ S # {} /\ k - 1 \in Nat /\ \A x \in S : x <= k - 1
  BY <1>1
<1>3. group = Max(S)
  BY DEF GroupAfter
<1>4. \A j \in prior : groups[j] + 1 \in S
  OBVIOUS
<1> HIDE DEF S
<1>5. group \in S /\ \A x \in S : x <= group
  BY <1>2, <1>3, GreatestExists
<1> QED
  BY <1>1, <1>2, <1>4, <1>5

(* The groups of missions, of which each is after those it follows.        *)
LEMMA GroupsAscend ==
  ASSUME NEW A, NEW missions \in Seq(A), NEW groups, groups = Groups(missions)
  PROVE  /\ groups \in Seq(Nat) /\ Len(groups) = Len(missions)
         /\ \A i \in 1 .. Len(missions) : \A j \in ConflictsBefore(missions, i) : groups[j] < groups[i]
<1> DEFINE n == Len(missions)
           G == {g \in Seq(Nat) : Len(g) \in 0 .. n /\ \A i \in 1 .. Len(g) : g[i] < i}
           Then(g, k) == IF Len(g) = k - 1 THEN Placed(missions, g, k) ELSE g
           step == [ss \in G \X (1 .. n) |-> Then(ss[1], ss[2])]
           Body(f) == [k \in 0 .. n |-> IF k = 0 THEN <<>> ELSE Placed(missions, f[k - 1], k)]
           grown == CHOOSE f : f = Body(f)
           Ascends(g) == \A i \in 1 .. Len(g) : \A j \in ConflictsBefore(missions, i) : g[j] < g[i]
<1>1. n \in Nat
  OBVIOUS
<1>2. <<>> \in G
  OBVIOUS
<1>3. ASSUME NEW g \in G, NEW k \in 1 .. n, Len(g) = k - 1
      PROVE  /\ Placed(missions, g, k) \in G /\ Len(Placed(missions, g, k)) = k
             /\ Ascends(g) => Ascends(Placed(missions, g, k))
  <2> DEFINE prior == ConflictsBefore(missions, k)
             group == GroupAfter(g, prior)
             next == Placed(missions, g, k)
  <2>1. prior \in SUBSET (1 .. Len(g)) /\ \A i \in 1 .. k : ConflictsBefore(missions, i) \subseteq 1 .. i - 1
    BY <1>3 DEF ConflictsBefore
  <2>2. g \in Seq(Nat) /\ k \in Nat \ {0} /\ \A i \in 1 .. Len(g) : g[i] < i
    BY <1>1
  <2>3. next = Append(g, group)
    BY DEF Placed
  <2> HIDE DEF G, n, prior
  <2>4. group \in Nat /\ group < k /\ \A j \in prior : g[j] < group
    BY <1>3, <2>1, <2>2, GroupIsAfter
  <2> HIDE DEF group, next
  <2>5. next \in Seq(Nat) /\ Len(next) = k /\ next[k] = group /\ \A i \in 1 .. k - 1 : next[i] = g[i]
    BY <1>3, <2>2, <2>3, <2>4
  <2>6. \A i \in 1 .. k : i \in 1 .. k - 1 \/ i = k
    BY <2>2
  <2>7. \A i \in 1 .. k : next[i] < i
    BY <1>3, <2>2, <2>4, <2>5, <2>6
  <2>8. next \in G
    BY <1>1, <2>5, <2>7 DEF G
  <2>9. ASSUME Ascends(g), NEW i \in 1 .. k, NEW j \in ConflictsBefore(missions, i)
        PROVE  next[j] < next[i]
    <3>1. j \in 1 .. i - 1 /\ j \in 1 .. k - 1
      BY <2>1, <2>2
    <3>2. CASE i = k
      BY <2>4, <2>5, <3>1, <3>2 DEF prior
    <3>3. CASE i # k
      <4>1. i \in 1 .. Len(g) /\ i \in 1 .. k - 1
        BY <1>3, <2>6, <3>3
      <4> QED
        BY <2>5, <2>9, <3>1, <4>1
    <3> QED
      BY <3>2, <3>3
  <2> QED
    BY <2>5, <2>8, <2>9 DEF next
<1>4. step \in [G \X (1 .. n) -> G]
  <2>1. \A g \in G, k \in 1 .. n : Then(g, k) \in G
    <3> HIDE DEF G, n
    <3> QED
      BY <1>3
  <2> HIDE DEF G, n, Then
  <2>2. \A ss \in G \X (1 .. n) : Then(ss[1], ss[2]) \in G
    BY <2>1
  <2> QED
    BY <2>2
<1>5. PICK run : IsRun(run, G, <<>>, n, step)
  <2> HIDE DEF G, step, n
  <2> QED
    BY <1>1, <1>2, <1>4, RunExists
<1>6. run \in [0 .. n -> G] /\ \A k \in 0 .. n : run[k] = IF k = 0 THEN <<>> ELSE step[<<run[k - 1], k>>]
  BY <1>5 DEF IsRun
<1>7. \A k \in 0 .. n : k # 0 => k \in 1 .. n /\ k - 1 \in 0 .. n
  BY <1>1
<1>8. \A k \in 0 .. n : k # 0 => step[<<run[k - 1], k>>] = Then(run[k - 1], k)
  <2> HIDE DEF G, n, Then
  <2> QED
    BY <1>6, <1>7
<1> DEFINE L == {k \in 0 .. n : Len(run[k]) = k}
<1>9. 0 .. n \subseteq L
  <2>1. 0 \in L
    <3>1. run[0] = <<>> /\ Len(<<>>) = 0
      BY <1>1, <1>6
    <3> QED
      BY <1>1, <3>1
  <2>2. ASSUME NEW k \in 1 .. n, k - 1 \in L  PROVE k \in L
    <3>1. Len(run[k - 1]) = k - 1 /\ k \in 0 .. n /\ k # 0 /\ k - 1 \in 0 .. n
      BY <1>1, <2>2
    <3> HIDE DEF G, n
    <3>2. run[k - 1] \in G /\ run[k] = Placed(missions, run[k - 1], k)
      BY <1>6, <1>8, <3>1
    <3>3. Len(run[k]) = k
      BY <1>3, <3>1, <3>2
    <3> QED
      BY <3>1, <3>3
  <2> HIDE DEF L, n
  <2> QED
    BY ONLY <1>1, <2>1, <2>2, UpTo
<1>10. run = Body(run)
  <2>1. \A k \in 0 .. n : k # 0 => Len(run[k - 1]) = k - 1
    BY <1>7, <1>9
  <2> HIDE DEF G, n, step
  <2>2. \A k \in 0 .. n : run[k] = IF k = 0 THEN <<>> ELSE Placed(missions, run[k - 1], k)
    BY <1>6, <1>8, <2>1
  <2> QED
    BY <1>6, <2>2
<1>11. grown = Body(grown)
  <2> HIDE DEF Body
  <2> QED
    BY <1>10
<1>12. grown[0] = <<>> /\ \A k \in 1 .. n : grown[k] = Placed(missions, grown[k - 1], k)
  <2> HIDE DEF grown
  <2> QED
    BY <1>1, <1>11
<1> DEFINE T == {k \in 0 .. n : grown[k] \in G /\ Len(grown[k]) = k /\ Ascends(grown[k])}
<1>13. 0 .. n \subseteq T
  <2>1. 0 \in T
    <3> HIDE DEF grown, G
    <3>1. Len(<<>>) = 0 /\ 1 .. 0 = {}
      OBVIOUS
    <3>2. Ascends(<<>>)
      BY <3>1
    <3> HIDE DEF Ascends
    <3> QED
      BY <1>1, <1>2, <1>12, <3>1, <3>2
  <2>2. ASSUME NEW k \in 1 .. n, k - 1 \in T  PROVE k \in T
    <3>1. k \in 0 .. n
      BY <1>1
    <3> HIDE DEF grown, G, n, Ascends
    <3>2. grown[k - 1] \in G /\ Len(grown[k - 1]) = k - 1 /\ Ascends(grown[k - 1])
      BY <2>2
    <3>3. grown[k] = Placed(missions, grown[k - 1], k)
      BY <1>12
    <3>4. grown[k] \in G /\ Len(grown[k]) = k /\ Ascends(grown[k])
      BY <1>3, <3>2, <3>3
    <3> QED
      BY <3>1, <3>4
  <2> HIDE DEF T, n
  <2> QED
    BY ONLY <1>1, <2>1, <2>2, UpTo
<1>14. groups = grown[n]
  BY DEF Groups
<1>15. grown[n] \in G /\ Len(grown[n]) = n /\ Ascends(grown[n])
  <2> HIDE DEF grown, G, Ascends
  <2> QED
    BY <1>1, <1>13
<1> HIDE DEF grown
<1>16. groups \in Seq(Nat) /\ Len(groups) = n
  BY <1>14, <1>15
<1> QED
  BY <1>14, <1>15, <1>16

(* What a schedule adds to missions is their groups and what they follow.  *)
LEMMA ScheduleIsSound ==
  ASSUME NEW missions \in Seq(MissionSet), NEW schedule, schedule = Schedule(missions)
  PROVE  /\ DOMAIN schedule = 1 .. Len(missions)
         /\ \A i \in DOMAIN schedule :
              /\ schedule[i].findings = missions[i].findings /\ schedule[i].impacts = missions[i].impacts
              /\ schedule[i].touched = missions[i].touched /\ schedule[i].blocking = missions[i].blocking
              /\ \A j \in schedule[i].after : j \in DOMAIN schedule /\ schedule[j].group < schedule[i].group
              /\ \A j \in DOMAIN schedule : i # j /\ schedule[i].group = schedule[j].group =>
                   schedule[i].touched \cap schedule[j].touched = {}
<1> DEFINE n == Len(missions)
           groups == Groups(missions)
<1>1. n \in Nat /\ \A i \in 1 .. n : missions[i] \in MissionSet
  OBVIOUS
<1>2. /\ groups \in Seq(Nat) /\ Len(groups) = n
      /\ \A i \in 1 .. n : \A j \in ConflictsBefore(missions, i) : groups[j] < groups[i]
  BY GroupsAscend
<1>3. schedule = [i \in 1 .. n |->
                    [missions[i] EXCEPT !.after = ConflictsBefore(missions, i), !.group = groups[i]]]
  BY DEF Schedule
<1> HIDE DEF groups, n
<1>4. DOMAIN schedule = 1 .. n /\ \A i \in 1 .. n : groups[i] \in Nat
  <2>1. DOMAIN schedule = 1 .. n
    BY ONLY <1>3
  <2>2. \A i \in 1 .. n : groups[i] \in Nat
    BY ONLY <1>2
  <2> QED
    BY <2>1, <2>2
<1>5. ASSUME NEW i \in 1 .. n
      PROVE  /\ schedule[i].findings = missions[i].findings /\ schedule[i].impacts = missions[i].impacts
             /\ schedule[i].touched = missions[i].touched /\ schedule[i].blocking = missions[i].blocking
             /\ schedule[i].after = ConflictsBefore(missions, i) /\ schedule[i].group = groups[i]
  <2> DEFINE mission == missions[i]
             prior == ConflictsBefore(missions, i)
             group == groups[i]
  <2>1. mission \in MissionSet /\ schedule[i] = [mission EXCEPT !.after = prior, !.group = group]
    BY <1>1, <1>3
  <2> HIDE DEF mission, prior, group
  <2>2. /\ schedule[i].findings = mission.findings /\ schedule[i].impacts = mission.impacts
        /\ schedule[i].touched = mission.touched /\ schedule[i].blocking = mission.blocking
        /\ schedule[i].after = prior /\ schedule[i].group = group
    BY <2>1 DEF MissionSet
  <2> QED
    BY <2>2 DEF mission, prior, group
<1>6. ASSUME NEW i \in 1 .. n, NEW j \in 1 .. n, j < i,
             schedule[i].touched \cap schedule[j].touched # {}
      PROVE  schedule[j].group < schedule[i].group
  <2>1. j \in 1 .. i - 1
    BY <1>1, <1>6
  <2>2. missions[j].touched \cap missions[i].touched # {}
    BY <1>5, <1>6
  <2>3. j \in ConflictsBefore(missions, i)
    BY <2>1, <2>2 DEF ConflictsBefore
  <2>4. groups[j] < groups[i]
    BY <1>2, <2>3
  <2> QED
    BY <1>5, <2>4
<1>7. ASSUME NEW i \in 1 .. n, NEW j \in 1 .. n, i # j, schedule[i].group = schedule[j].group
      PROVE  schedule[i].touched \cap schedule[j].touched = {}
  <2>1. i < j \/ j < i
    BY <1>1, <1>7
  <2>2. schedule[i].group \in Nat /\ schedule[j].group \in Nat
    BY <1>4, <1>5
  <2>3. ~(schedule[i].group < schedule[j].group) /\ ~(schedule[j].group < schedule[i].group)
    BY <1>7, <2>2
  <2> QED
    BY <1>6, <2>1, <2>3
<1>8. ASSUME NEW i \in 1 .. n, NEW j \in schedule[i].after
      PROVE  j \in 1 .. n /\ schedule[j].group < schedule[i].group
  <2>1. j \in ConflictsBefore(missions, i)
    BY <1>5
  <2>2. j \in 1 .. n
    BY <1>1, <2>1 DEF ConflictsBefore
  <2>3. groups[j] < groups[i]
    BY <1>2, <2>1
  <2> QED
    BY <1>5, <2>2, <2>3
<1>9. DOMAIN schedule = 1 .. Len(missions)
  BY <1>4 DEF n
<1> QED
  BY <1>4, <1>5, <1>7, <1>8, <1>9

(* The evidence of a mission: tests and gaps of the paths it touches.      *)
IsEvidenceOf(next, mission, gaps) ==
  /\ next \in MissionSet
  /\ next.findings = mission.findings /\ next.impacts = mission.impacts
  /\ mission.touched \subseteq next.touched
  /\ next.blocking = {g \in gaps : g[1] \in next.touched \cup {0}}

LEMMA EvidenceIsTyped ==
  ASSUME NEW mission \in MissionSet, NEW tests \in Seq([test : Symbols, impact : Nat]),
         NEW gaps \in SUBSET GapSet, NEW next, next = WithEvidence(mission, tests, gaps)
  PROVE  IsEvidenceOf(next, mission, gaps)
<1> DEFINE ofTests == {i \in 1 .. Len(tests) : tests[i].impact \in mission.impacts}
           touched == mission.touched \cup {PathOf[tests[i].test] : i \in ofTests}
           blocking == {g \in gaps : g[1] \in touched \cup {0}}
<1>1. next = [mission EXCEPT !.tests = ofTests, !.touched = touched, !.blocking = blocking]
  BY DEF WithEvidence
<1>2. ofTests \in SUBSET Nat
  OBVIOUS
<1>3. ASSUME NEW i \in 1 .. Len(tests)  PROVE tests[i].test \in Symbols
  <2> DEFINE rows == [test : Symbols, impact : Nat]
  <2>1. tests[i] \in rows
    <3>1. tests \in Seq(rows)
      OBVIOUS
    <3> HIDE DEF rows
    <3> QED
      BY ONLY <3>1, i \in 1 .. Len(tests)
  <2> QED
    BY <2>1
<1>4. \A s \in Symbols : PathOf[s] \in RepoPaths
  BY BaselineAssumption
<1>5. touched \in SUBSET RepoPaths
  <2>1. mission.touched \in SUBSET RepoPaths
    BY DEF MissionSet
  <2>2. \A i \in ofTests : PathOf[tests[i].test] \in RepoPaths
    BY <1>3, <1>4
  <2> QED
    BY <2>1, <2>2
<1>6. blocking \in SUBSET GapSet /\ mission.touched \subseteq touched
  OBVIOUS
<1>7. blocking = {g \in gaps : g[1] \in touched \cup {0}}
  OBVIOUS
<1> HIDE DEF ofTests, touched, blocking
<1>8. /\ next \in MissionSet
      /\ next.findings = mission.findings /\ next.impacts = mission.impacts
      /\ next.touched = touched /\ next.blocking = blocking
  BY <1>1, <1>2, <1>5, <1>6 DEF MissionSet
<1> QED
  BY <1>6, <1>7, <1>8 DEF IsEvidenceOf

LEMMA ScanDoesNotClash ==
  ASSUME NEW change, IsChange(change), NEW limit \in Nat, NEW runs,
         NEW scan, scan = ScanRisks(change, limit, runs)
  PROVE  DoNotClash(change, scan)
<1> DEFINE seen == Inspected(change, limit)
           listed == ToSet(ListedGaps(scan.gaps))
           first == MissionsOf(change, scan.findings, scan.impacts)
           n == Len(first)
           tests == scan.tests
           second == [i \in 1 .. n |-> WithEvidence(first[i], tests, listed)]
           missions == scan.missions
<1>1. /\ scan.findings \in Seq(CallSet) /\ scan.impacts \in Seq(CallSet)
      /\ tests \in Seq([test : Symbols, impact : Nat]) /\ scan.gaps \in SUBSET GapSet
  BY AnswerIsTyped
<1>2. missions = Schedule(second)
  <2> DEFINE plan == TestsOf(change, limit, scan.impacts)
  <2>1. IsAnswered(change, limit, runs, scan, seen, plan)
    BY ScanIsAnswered
  <2> HIDE DEF plan, seen
  <2> QED
    BY ONLY <2>1 DEF IsAnswered
<1>3. listed \subseteq scan.gaps /\ (Cardinality(scan.gaps) <= GapRows => listed = scan.gaps)
  BY <1>1, FewGapsAreListed
<1>4. /\ first \in Seq(MissionSet)
      /\ \A i \in 1 .. Len(scan.findings) : \E m \in 1 .. n : i \in first[m].findings
      /\ \A i \in 1 .. Len(scan.impacts) : \E m \in 1 .. n : i \in first[m].impacts
      /\ \A p \in change.edited : \E m \in 1 .. n : p \in first[m].touched
  <2> DEFINE findings == scan.findings
             impacts == scan.impacts
  <2>1. first = MissionsOf(change, findings, impacts) /\ findings \in Seq(CallSet) /\ impacts \in Seq(CallSet)
    BY <1>1
  <2> HIDE DEF first, findings, impacts
  <2>2. /\ first \in Seq(MissionSet)
        /\ \A i \in 1 .. Len(findings) : \E m \in 1 .. Len(first) : i \in first[m].findings
        /\ \A i \in 1 .. Len(impacts) : \E m \in 1 .. Len(first) : i \in first[m].impacts
        /\ \A p \in change.edited : \E m \in 1 .. Len(first) : p \in first[m].touched
    BY <2>1, MissionsAreListed
  <2> QED
    BY <2>2 DEF findings, impacts
<1> HIDE DEF first, listed, tests, seen
<1>5. n \in Nat /\ \A i \in 1 .. n : first[i] \in MissionSet
  BY <1>4
<1>6. ASSUME NEW i \in 1 .. n
      PROVE  /\ second[i] \in MissionSet
             /\ second[i].findings = first[i].findings /\ second[i].impacts = first[i].impacts
             /\ first[i].touched \subseteq second[i].touched
             /\ second[i].blocking = {g \in listed : g[1] \in second[i].touched \cup {0}}
  <2> DEFINE mission == first[i]
             next == second[i]
  <2>1. mission \in MissionSet /\ next = WithEvidence(mission, tests, listed)
    BY <1>5
  <2>2. tests \in Seq([test : Symbols, impact : Nat]) /\ listed \in SUBSET GapSet
    BY <1>1, <1>3
  <2> HIDE DEF mission, next, second
  <2>3. IsEvidenceOf(next, mission, listed)
    BY ONLY <2>1, <2>2, EvidenceIsTyped
  <2> QED
    BY <2>3 DEF mission, next, IsEvidenceOf
<1>7. second \in Seq(MissionSet) /\ Len(second) = n
  <2> HIDE DEF n
  <2>1. second \in [1 .. n -> MissionSet]
    BY <1>6
  <2> HIDE DEF second
  <2> QED
    BY <1>5, <2>1
<1> HIDE DEF n, second, missions
<1>8. /\ DOMAIN missions = 1 .. n
      /\ \A i \in DOMAIN missions :
           /\ missions[i].findings = second[i].findings /\ missions[i].impacts = second[i].impacts
           /\ missions[i].touched = second[i].touched /\ missions[i].blocking = second[i].blocking
           /\ \A j \in missions[i].after : j \in DOMAIN missions /\ missions[j].group < missions[i].group
           /\ \A j \in DOMAIN missions : i # j /\ missions[i].group = missions[j].group =>
                missions[i].touched \cap missions[j].touched = {}
  BY <1>2, <1>7, ScheduleIsSound
<1>9. DOMAIN scan.findings = 1 .. Len(scan.findings) /\ DOMAIN scan.impacts = 1 .. Len(scan.impacts)
  BY <1>1
<1>10. DOMAIN scan.findings \subseteq UNION {missions[i].findings : i \in DOMAIN missions}
  <2> SUFFICES ASSUME NEW i \in DOMAIN scan.findings
               PROVE  i \in UNION {missions[m].findings : m \in DOMAIN missions}
    OBVIOUS
  <2>1. PICK m \in 1 .. n : i \in first[m].findings
    BY <1>4, <1>9
  <2>2. m \in DOMAIN missions /\ i \in missions[m].findings
    BY <1>6, <1>8, <2>1
  <2> QED
    BY <2>2
<1>11. DOMAIN scan.impacts \subseteq UNION {missions[i].impacts : i \in DOMAIN missions}
  <2> SUFFICES ASSUME NEW i \in DOMAIN scan.impacts
               PROVE  i \in UNION {missions[m].impacts : m \in DOMAIN missions}
    OBVIOUS
  <2>1. PICK m \in 1 .. n : i \in first[m].impacts
    BY <1>4, <1>9
  <2>2. m \in DOMAIN missions /\ i \in missions[m].impacts
    BY <1>6, <1>8, <2>1
  <2> QED
    BY <2>2
<1>12. change.edited \subseteq UNION {missions[i].touched : i \in DOMAIN missions}
  <2> SUFFICES ASSUME NEW p \in change.edited
               PROVE  p \in UNION {missions[m].touched : m \in DOMAIN missions}
    OBVIOUS
  <2>1. PICK m \in 1 .. n : p \in first[m].touched
    BY <1>4
  <2>2. m \in DOMAIN missions /\ p \in missions[m].touched
    BY <1>6, <1>8, <2>1
  <2> QED
    BY <2>2
<1>13. ASSUME Cardinality(scan.gaps) <= GapRows, NEW i \in DOMAIN missions
       PROVE  missions[i].blocking = {} <=> ~\E g \in scan.gaps : g[1] \in missions[i].touched \cup {0}
  <2>1. missions[i].blocking = {g \in listed : g[1] \in missions[i].touched \cup {0}}
    BY <1>6, <1>8
  <2>2. listed = scan.gaps
    BY <1>3, <1>13
  <2> QED
    BY <2>1, <2>2
<1> QED
  BY <1>8, <1>10, <1>11, <1>12, <1>13 DEF DoNotClash, missions

-----------------------------------------------------------------------------
(* A repository is always one that a refresh has read.                     *)
IsRead == repository \in Repositories \cup Refreshes

LEMMA GatesStart == GatesInit => IsRead
  BY DEF GatesInit, IsRead

LEMMA GatesStep == IsRead /\ [GatesNext]_gatesVars => IsRead'
<1> SUFFICES ASSUME IsRead, [GatesNext]_gatesVars PROVE IsRead'
  OBVIOUS
<1>1. CASE RefreshRepository \/ RefreshCoverage \/ FailRefresh
  BY <1>1 DEF RefreshRepository, RefreshCoverage, FailRefresh, IsRead
<1>2. ASSUME NEW request \in Requests, AskArchitecture(request)  PROVE IsRead'
  BY <1>2 DEF AskArchitecture, IsRead
<1>3. ASSUME NEW failOn, NEW level, NEW warn,
             \/ CheckRepositoryGates(DOMAIN PackageOf, failOn, level, warn)
             \/ CheckChangeGates(failOn, level, warn)
             \/ CheckFrameworkGates(failOn, level, warn)
             \/ CheckSecurityGates(failOn, level)
      PROVE  IsRead'
  BY <1>3 DEF CheckRepositoryGates, CheckChangeGates, CheckFrameworkGates, CheckSecurityGates, IsRead
<1>4. CASE UNCHANGED gatesVars
  BY <1>4 DEF gatesVars, IsRead
<1> QED
  BY <1>1, <1>2, <1>3, <1>4 DEF GatesNext

(* scan_risks, asked of any change: when it lists no gap, then each call   *)
(* of HEAD into edited text that is still made has an impact, and each     *)
(* call of what is gone, and is not found elsewhere, a finding; it reports *)
(* no call that may be resolved; and a plan is passed only when every test *)
(* of it succeeded on the scanned text and none failed.                    *)
THEOREM ScansHideNothing == GatesSpec => []ScanHidesNothing
<1>1. IsRead => ScanHidesNothing
  <2> SUFFICES ASSUME IsRead PROVE ScanHidesNothing
    OBVIOUS
  <2> DEFINE change == repository.change
  <2>1. ScanLimit \in Nat /\ IsChange(change)
    BY GatesAssumption DEF IsRead
  <2> HIDE DEF change
  <2>2. MissesNothing(change, ScanRisks(change, ScanLimit, <<>>))
    BY <2>1, ScanMisses
  <2>3. ASSUME NEW runs \in TestRuns  PROVE NotMasked(runs, ScanRisks(change, ScanLimit, runs))
    <3>1. \A r \in ToSet(runs) : r.status \in {"passed", "failed"}
      BY GatesAssumption
    <3> QED
      BY <2>1, <3>1, ScanIsNotMasked
  <2> QED
    BY <2>2, <2>3 DEF ScanHidesNothing, ScanMissesNothing, FailuresAreNotMasked, Scan, change
<1> QED
  BY <1>1, GatesStart, GatesStep, PTL DEF GatesSpec

(* Missions that may be worked on at once touch no common path, a mission  *)
(* waits for earlier groups only, every finding, impact and edited path    *)
(* has one, and the gaps that are listed block those they touch.           *)
THEOREM MissionsNeverClash == GatesSpec => []MissionsDoNotClash
<1>1. IsRead => MissionsDoNotClash
  <2> SUFFICES ASSUME IsRead PROVE MissionsDoNotClash
    OBVIOUS
  <2> DEFINE change == repository.change
  <2>1. ScanLimit \in Nat /\ IsChange(change)
    BY GatesAssumption DEF IsRead
  <2> HIDE DEF change
  <2>2. DoNotClash(change, ScanRisks(change, ScanLimit, <<>>))
    BY <2>1, ScanDoesNotClash
  <2> QED
    BY <2>2 DEF MissionsDoNotClash, Scan, change
<1> QED
  BY <1>1, GatesStart, GatesStep, PTL DEF GatesSpec

-----------------------------------------------------------------------------
(* The generations on disk.                                                *)

(* What each stage of a publication may rely on.                           *)
LockInv ==
  /\ OneDescription
  /\ \A p \in Procs : pc[p] \in Locked => Holds(p)

(* A generation under its final name is complete, and its entries durable. *)
DirectoryInv ==
  \A g \in Gens : final[g] # None => Valid(final[g]) /\ final[g].synced

Preparing == {"write", "validate", "sync", "revalidate", "rename"}
Pointing == {"pointer", "fill", "syncPointer", "swap", "syncStore"}

(* What a publisher knows of the disk at its stage. *)
Stage(p) ==
  LET g == op[p].gen IN
  /\ pc[p] \in Preparing => final[g] = None /\ tmp[g] # None
  /\ pc[p] \in {"revalidate", "rename"} => tmp[g].synced
  /\ pc[p] = "rename" => Valid(tmp[g])
  /\ pc[p] \in Pointing \cup {"syncNames"} => final[g] # None
  /\ pc[p] \in Pointing => g \notin floating
  /\ pc[p] \in {"fill", "syncPointer", "swap"} => ptmp # None /\ ptmp.gen = g
  /\ pc[p] \in {"syncPointer", "swap"} => ptmp.whole
  /\ pc[p] = "swap" => ptmp.synced

StageInv == \A p \in Procs : Stage(p)

(* The generation a reader found stays, with the entries it validated. *)
ReaderInv ==
  \A r \in Readers :
    view[r] # None =>
      /\ view[r].phase # "failed"
      /\ final[view[r].gen] # None
      /\ view[r].phase = "open" => final[view[r].gen].seg = view[r].man

IInv == TypeOK /\ LockInv /\ DirectoryInv /\ StageInv /\ CurrentResolves /\ ReaderInv

USE NoneAssumption, SegmentCountAssumption, MaxOutagesAssumption

-----------------------------------------------------------------------------
(* A fresh directory is a directory. *)
LEMMA EmptyIsDirectory == EmptyDirectory \in Directory /\ EmptyDirectory # None
<1>1. [s \in Segments |-> None] \in SegmentFiles
  BY DEF SegmentFiles
<1>2. EmptyDirectory \in Directory
  BY <1>1 DEF EmptyDirectory, Directory
<1> QED
  BY <1>2

(* While one process publishes, no other does. *)
LEMMA Alone ==
  ASSUME LockInv, NEW p \in Procs, pc[p] \in Locked
  PROVE  \A q \in Procs : q # p => pc[q] \notin Locked
  BY DEF LockInv, OneDescription, Holds, Parent

(* A step of the publishing process leaves the stages of the others. *)
LEMMA StageOfOthers ==
  ASSUME NEW p \in Procs, NEW stage, TypeOK, LockInv, pc[p] \in Locked,
         pc' = [pc EXCEPT ![p] = stage], Stage(p)'
  PROVE  StageInv'
<1> SUFFICES ASSUME NEW q \in Procs, q # p
             PROVE  Stage(q)'
  BY DEF StageInv
<1>1. pc[q] \notin Locked /\ pc'[q] = pc[q]
  BY Alone DEF TypeOK
<1> QED
  BY <1>1 DEF Stage, Preparing, Pointing, Locked

-----------------------------------------------------------------------------
(* Steps of a publication. *)

(* A step that leaves the generations, CURRENT and the readers alone.        *)
LEMMA GenerationsUntouched ==
  ASSUME IInv, UNCHANGED <<final, floating, current, safeCurrent, view>>
  PROVE  DirectoryInv' /\ CurrentResolves' /\ ReaderInv'
  BY DEF IInv, DirectoryInv, CurrentResolves, Resolves, Valid, ReaderInv

(* The lock stays with the process that publishes until it returns.        *)
LEMMA LockKept ==
  ASSUME NEW p \in Procs, NEW stage \in Locked, IInv, pc[p] \in Locked,
         pc' = [pc EXCEPT ![p] = stage], holders' = holders
  PROVE  LockInv'
  BY DEF IInv, TypeOK, LockInv, OneDescription, Holds, Locked

(* Unlocking frees the lock of the only process that publishes.            *)
LEMMA LockReleased ==
  ASSUME NEW p \in Procs, NEW stage, stage \notin Locked, IInv, pc[p] \in Locked,
         pc' = [pc EXCEPT ![p] = stage], holders' = {}
  PROVE  LockInv'
<1>1. \A q \in Procs : q # p => pc[q] \notin Locked
  BY Alone DEF IInv
<1> QED
  BY <1>1 DEF IInv, TypeOK, LockInv, OneDescription

(* Creating the temporary directory touches no final name. *)
LEMMA CreateTemporaryStep ==
  ASSUME NEW p \in Procs, IInv, CreateTemporary(p)
  PROVE  IInv'
<1>1. /\ pc[p] = "begin" /\ pc[p] \in Locked /\ op[p] \in Writer
      /\ pc' = [pc EXCEPT ![p] = "write"] /\ op' = op
  BY DEF CreateTemporary, At, Goto, Locked, Stages, Writer, IInv, TypeOK
<1>2. TypeOK'
  BY <1>1, EmptyIsDirectory DEF CreateTemporary, IInv, TypeOK, LockTypeOK, disk, Stages, Locked, Writer
<1>3. LockInv'
  BY <1>1, LockKept DEF CreateTemporary, Locked
<1>4. Stage(p)'
  BY <1>1, EmptyIsDirectory DEF CreateTemporary, IInv, TypeOK, StageInv, Stage, Preparing, Pointing, disk, Writer
<1>5. StageInv'
  BY <1>1, <1>4, StageOfOthers DEF IInv
<1>6. DirectoryInv'
  BY <1>1 DEF CreateTemporary, IInv, TypeOK, disk, DirectoryInv, StageInv, Stage, Preparing, Pointing, Valid, Writer
<1>7. CurrentResolves'
  BY <1>1 DEF CreateTemporary, IInv, TypeOK, disk, DirectoryInv, StageInv, Stage, Preparing, Pointing, CurrentResolves, Resolves, Valid, Pointer
<1>8. ReaderInv'
  BY <1>1 DEF CreateTemporary, IInv, TypeOK, disk, StageInv, Stage, Preparing, Pointing, ReaderInv, Writer
<1> QED
  BY <1>2, <1>3, <1>5, <1>6, <1>7, <1>8 DEF IInv

(* begin on an existing generation gives the lock up. *)
LEMMA FindExistingStep ==
  ASSUME NEW p \in Procs, IInv, FindExisting(p)
  PROVE  IInv'
<1>1. /\ pc[p] = "begin" /\ pc[p] \in Locked /\ op[p] \in Writer
      /\ pc' = [pc EXCEPT ![p] = "exists"] /\ op' = op
  BY DEF FindExisting, At, Goto, Locked, Stages, Writer, IInv, TypeOK
<1>2. TypeOK'
  BY <1>1 DEF FindExisting, IInv, TypeOK, LockTypeOK, disk, Stages, Locked, Writer, Unlock
<1>3. LockInv'
  BY <1>1, LockReleased DEF FindExisting, Unlock, Locked
<1>4. Stage(p)'
  BY <1>1 DEF FindExisting, IInv, TypeOK, StageInv, Stage, Preparing, Pointing, disk
<1>5. StageInv'
  BY <1>1, <1>4, StageOfOthers DEF IInv
<1>6. DirectoryInv' /\ CurrentResolves' /\ ReaderInv'
  BY GenerationsUntouched DEF FindExisting, disk
<1> QED
  BY <1>2, <1>3, <1>5, <1>6 DEF IInv

(* A segment goes to the temporary directory of the process with the lock. *)
LEMMA WriteSegmentStep ==
  ASSUME NEW p \in Procs, IInv, WriteSegment(p)
  PROVE  IInv'
<1> DEFINE g == op[p].gen
<1>1. pc[p] = "write" /\ pc[p] \in Locked /\ op[p] \in Writer /\ op' = op
  BY DEF WriteSegment, At, Locked, Stages, Writer, IInv, TypeOK
<1>2. tmp[g] \in Directory /\ final[g] = None
  BY <1>1 DEF IInv, TypeOK, StageInv, Stage, Preparing, Writer
<1>3. PICK s \in Segments :
        /\ tmp' = [tmp EXCEPT ![g].seg[s] = op[p].content]
        /\ IF s = SegmentCount THEN Goto(p, "validate") ELSE UNCHANGED pc
  BY DEF WriteSegment
<1>4. PICK stage \in {"write", "validate"} : pc' = [pc EXCEPT ![p] = stage]
  BY <1>1, <1>3 DEF Goto, IInv, TypeOK
<1>5. tmp'[g] \in Directory /\ tmp' = [tmp EXCEPT ![g] = tmp'[g]]
  BY <1>1, <1>2, <1>3 DEF IInv, TypeOK, Directory, SegmentFiles, Writer
<1>6. TypeOK'
  <2>1. /\ pc' \in [Procs -> Stages]
        /\ \A q \in Procs : pc'[q] = "idle" <=> pc[q] = "idle"
    <3>1. pc \in [Procs -> Stages]
      BY DEF IInv, TypeOK
    <3>2. stage \in Stages /\ stage # "idle" /\ pc[p] # "idle"
      BY <1>1 DEF Stages, Locked
    <3> QED
      BY ONLY <1>4, <3>1, <3>2
  <2>2. tmp' \in [Gens -> Directory \cup {None}]
    BY <1>1, <1>5 DEF IInv, TypeOK, Writer
  <2>3. UNCHANGED <<holders, op, final, floating, ptmp, current, safeCurrent, view, outages>>
    BY DEF WriteSegment
  <2> QED
    BY <2>1, <2>2, <2>3 DEF IInv, TypeOK, LockTypeOK
<1>7. LockInv'
  BY <1>1, <1>4, LockKept DEF WriteSegment, Locked
<1>8. Stage(p)'
  BY <1>1, <1>2, <1>4, <1>5 DEF WriteSegment, Stage, Preparing, Pointing, IInv, TypeOK
<1>9. StageInv'
  BY <1>1, <1>4, <1>8, StageOfOthers DEF IInv
<1>10. DirectoryInv' /\ CurrentResolves' /\ ReaderInv'
  BY GenerationsUntouched DEF WriteSegment
<1> QED
  BY <1>6, <1>7, <1>9, <1>10 DEF IInv

(* The manifest goes to the same temporary directory. *)
LEMMA ValidateStep ==
  ASSUME NEW p \in Procs, IInv, Validate(p)
  PROVE  IInv'
<1>1. /\ pc[p] = "validate" /\ pc[p] \in Locked /\ op[p] \in Writer
      /\ pc' = [pc EXCEPT ![p] = "sync"] /\ op' = op
  BY DEF Validate, At, Goto, Locked, Stages, Writer, IInv, TypeOK
<1>a. tmp[op[p].gen] \in Directory
  BY <1>1 DEF IInv, TypeOK, StageInv, Stage, Preparing, Writer
<1>2. TypeOK'
  BY <1>1, <1>a DEF Validate, IInv, TypeOK, LockTypeOK, disk, Stages, Locked, Writer, Directory
<1>3. LockInv'
  BY <1>1, LockKept DEF Validate, Locked
<1>4. Stage(p)'
  BY <1>1, <1>a DEF Validate, IInv, TypeOK, StageInv, Stage, Preparing, Pointing, disk, Directory, Writer
<1>5. StageInv'
  BY <1>1, <1>4, StageOfOthers DEF IInv
<1>6. DirectoryInv' /\ CurrentResolves' /\ ReaderInv'
  BY GenerationsUntouched DEF Validate, disk
<1> QED
  BY <1>2, <1>3, <1>5, <1>6 DEF IInv

(* Syncing makes the temporary directory durable, and it stays so. *)
LEMMA SyncTemporaryStep ==
  ASSUME NEW p \in Procs, IInv, SyncTemporary(p)
  PROVE  IInv'
<1>1. /\ pc[p] = "sync" /\ pc[p] \in Locked /\ op[p] \in Writer
      /\ pc' = [pc EXCEPT ![p] = "revalidate"] /\ op' = op
  BY DEF SyncTemporary, At, Goto, Locked, Stages, Writer, IInv, TypeOK
<1>a. tmp[op[p].gen] \in Directory
  BY <1>1 DEF IInv, TypeOK, StageInv, Stage, Preparing, Writer
<1>b. tmp'[op[p].gen] = [tmp[op[p].gen] EXCEPT !.synced = TRUE]
  BY <1>1, <1>a DEF SyncTemporary, IInv, TypeOK, Writer
<1>c. \A d \in Directory : [d EXCEPT !.synced = TRUE] \in Directory /\ [d EXCEPT !.synced = TRUE].synced
  BY DEF Directory
<1>2. TypeOK'
  BY <1>1, <1>a, <1>b, <1>c DEF SyncTemporary, IInv, TypeOK, LockTypeOK, disk, Stages, Locked, Writer
<1>3. LockInv'
  BY <1>1, LockKept DEF SyncTemporary, Locked
<1>4. Stage(p)'
  BY <1>1, <1>a, <1>b, <1>c DEF SyncTemporary, IInv, TypeOK, StageInv, Stage, Preparing, Pointing, disk, Writer
<1>5. StageInv'
  BY <1>1, <1>4, StageOfOthers DEF IInv
<1>6. DirectoryInv' /\ CurrentResolves' /\ ReaderInv'
  BY GenerationsUntouched DEF SyncTemporary, disk
<1> QED
  BY <1>2, <1>3, <1>5, <1>6 DEF IInv

(* Only a valid temporary directory goes on to the rename. *)
LEMMA RevalidateStep ==
  ASSUME NEW p \in Procs, IInv, Revalidate(p)
  PROVE  IInv'
<1>1. /\ pc[p] = "revalidate" /\ pc[p] \in Locked /\ op[p] \in Writer
      /\ pc' = [pc EXCEPT ![p] = "rename"] /\ op' = op
  BY DEF Revalidate, At, Goto, Locked, Stages, Writer, IInv, TypeOK
<1>2. TypeOK'
  BY <1>1 DEF Revalidate, IInv, TypeOK, LockTypeOK, disk, Stages, Locked, Writer
<1>3. LockInv'
  BY <1>1, LockKept DEF Revalidate, Locked
<1>4. Stage(p)'
  BY <1>1 DEF Revalidate, IInv, TypeOK, StageInv, Stage, Preparing, Pointing, disk
<1>5. StageInv'
  BY <1>1, <1>4, StageOfOthers DEF IInv
<1>6. DirectoryInv' /\ CurrentResolves' /\ ReaderInv'
  BY GenerationsUntouched DEF Revalidate, disk
<1> QED
  BY <1>2, <1>3, <1>5, <1>6 DEF IInv

(* The rename installs a valid, durable directory under a free name. *)
LEMMA RenameStep ==
  ASSUME NEW p \in Procs, IInv, Rename(p)
  PROVE  IInv'
<1>1. /\ pc[p] = "rename" /\ pc[p] \in Locked /\ op[p] \in Writer
      /\ pc' = [pc EXCEPT ![p] = "syncNames"] /\ op' = op
  BY DEF Rename, At, Goto, Locked, Stages, Writer, IInv, TypeOK
<1>2. TypeOK'
  BY <1>1 DEF Rename, IInv, TypeOK, LockTypeOK, disk, Stages, Locked, Writer
<1>3. LockInv'
  BY <1>1, LockKept DEF Rename, Locked
<1>4. Stage(p)'
  BY <1>1 DEF Rename, IInv, TypeOK, StageInv, Stage, Preparing, Pointing, disk, Writer
<1>5. StageInv'
  BY <1>1, <1>4, StageOfOthers DEF IInv
<1>6. DirectoryInv'
  BY <1>1 DEF Rename, IInv, TypeOK, disk, DirectoryInv, StageInv, Stage, Preparing, Pointing, Valid, Writer
<1>7. CurrentResolves'
  BY <1>1 DEF Rename, IInv, TypeOK, disk, DirectoryInv, StageInv, Stage, Preparing, Pointing, CurrentResolves, Resolves, Valid, Pointer
<1>8. ReaderInv'
  BY <1>1 DEF Rename, IInv, TypeOK, disk, StageInv, Stage, Preparing, Pointing, ReaderInv, Writer
<1> QED
  BY <1>2, <1>3, <1>5, <1>6, <1>7, <1>8 DEF IInv

(* Syncing the generations directory leaves no rename floating. *)
LEMMA SyncNamesStep ==
  ASSUME NEW p \in Procs, IInv, SyncNames(p)
  PROVE  IInv'
<1>1. /\ pc[p] = "syncNames" /\ pc[p] \in Locked /\ op[p] \in Writer
      /\ pc' = [pc EXCEPT ![p] = "pointer"] /\ op' = op
  BY DEF SyncNames, At, Goto, Locked, Stages, Writer, IInv, TypeOK
<1>2. TypeOK'
  BY <1>1 DEF SyncNames, IInv, TypeOK, LockTypeOK, disk, Stages, Locked, Writer
<1>3. LockInv'
  BY <1>1, LockKept DEF SyncNames, Locked
<1>4. Stage(p)'
  BY <1>1 DEF SyncNames, IInv, TypeOK, StageInv, Stage, Preparing, Pointing, disk
<1>5. StageInv'
  BY <1>1, <1>4, StageOfOthers DEF IInv
<1>6. DirectoryInv'
  BY <1>1 DEF SyncNames, IInv, TypeOK, disk, DirectoryInv, StageInv, Stage, Preparing, Pointing, Valid, Writer
<1>7. CurrentResolves'
  BY <1>1 DEF SyncNames, IInv, TypeOK, disk, DirectoryInv, StageInv, Stage, Preparing, Pointing, CurrentResolves, Resolves, Valid, Pointer
<1>8. ReaderInv'
  BY <1>1 DEF SyncNames, IInv, TypeOK, disk, StageInv, Stage, Preparing, Pointing, ReaderInv, Writer
<1> QED
  BY <1>2, <1>3, <1>5, <1>6, <1>7, <1>8 DEF IInv

(* reactivate goes on with a valid generation, or gives the lock up. *)
LEMMA CompareExistingStep ==
  ASSUME NEW p \in Procs, IInv, CompareExisting(p)
  PROVE  IInv'
<1>1. pc[p] = "reactivate" /\ pc[p] \in Locked /\ UNCHANGED <<disk, view, outages>>
  BY DEF CompareExisting, At, Locked
<1>2. DirectoryInv' /\ CurrentResolves' /\ ReaderInv'
  BY <1>1, GenerationsUntouched DEF disk
<1>3. CASE /\ pc' = [pc EXCEPT ![p] = "syncNames"] /\ final[op[p].gen] # None
           /\ UNCHANGED <<holders, op>>
  <2>1. TypeOK'
    BY <1>1, <1>3 DEF IInv, TypeOK, LockTypeOK, disk, Stages, Locked
  <2>2. LockInv'
    BY <1>1, <1>3, LockKept DEF Locked
  <2>3. Stage(p)'
    BY <1>1, <1>3 DEF IInv, TypeOK, Stage, Preparing, Pointing, disk
  <2>4. StageInv'
    BY <1>1, <1>3, <2>3, StageOfOthers DEF IInv
  <2> QED
    BY <1>2, <2>1, <2>2, <2>4 DEF IInv
<1>4. CASE Unlock(p) /\ Return(p)
  <2>1. TypeOK'
    BY <1>1, <1>4 DEF Unlock, Return, IInv, TypeOK, LockTypeOK, disk, Stages
  <2>2. LockInv'
    BY <1>1, <1>4, LockReleased DEF Unlock, Return, Locked
  <2>3. Stage(p)'
    BY <1>4 DEF Return, IInv, TypeOK, Stage, Preparing, Pointing
  <2>4. StageInv'
    BY <1>1, <1>4, <2>3, StageOfOthers DEF IInv, Return
  <2> QED
    BY <1>2, <2>1, <2>2, <2>4 DEF IInv
<1> QED
  BY <1>3, <1>4 DEF CompareExisting, Valid, Goto

(* CURRENT.tmp is the publisher's alone. *)
LEMMA CreatePointerStep ==
  ASSUME NEW p \in Procs, IInv, CreatePointer(p)
  PROVE  IInv'
<1>1. /\ pc[p] = "pointer" /\ pc[p] \in Locked /\ op[p] \in Writer
      /\ pc' = [pc EXCEPT ![p] = "fill"] /\ op' = op
  BY DEF CreatePointer, At, Goto, Locked, Stages, Writer, IInv, TypeOK
<1>a. ptmp' \in Pointer /\ ptmp'.gen = op[p].gen
  BY <1>1 DEF CreatePointer, Pointer, Writer
<1>2. TypeOK'
  BY <1>1, <1>a DEF CreatePointer, IInv, TypeOK, LockTypeOK, disk, Stages, Locked, Writer
<1>3. LockInv'
  BY <1>1, LockKept DEF CreatePointer, Locked
<1>4. Stage(p)'
  BY <1>1, <1>a DEF CreatePointer, IInv, TypeOK, StageInv, Stage, Preparing, Pointing, disk
<1>5. StageInv'
  BY <1>1, <1>4, StageOfOthers DEF IInv
<1>6. DirectoryInv' /\ CurrentResolves' /\ ReaderInv'
  BY GenerationsUntouched DEF CreatePointer, disk
<1> QED
  BY <1>2, <1>3, <1>5, <1>6 DEF IInv

(* CURRENT.tmp becomes whole. *)
LEMMA FillPointerStep ==
  ASSUME NEW p \in Procs, IInv, FillPointer(p)
  PROVE  IInv'
<1>1. /\ pc[p] = "fill" /\ pc[p] \in Locked /\ op[p] \in Writer
      /\ pc' = [pc EXCEPT ![p] = "syncPointer"] /\ op' = op
  BY DEF FillPointer, At, Goto, Locked, Stages, Writer, IInv, TypeOK
<1>a. ptmp \in Pointer /\ ptmp.gen = op[p].gen
  BY <1>1 DEF IInv, TypeOK, StageInv, Stage
<1>2. TypeOK'
  BY <1>1, <1>a DEF FillPointer, IInv, TypeOK, LockTypeOK, disk, Stages, Locked, Writer, Pointer
<1>3. LockInv'
  BY <1>1, LockKept DEF FillPointer, Locked
<1>4. Stage(p)'
  BY <1>1, <1>a DEF FillPointer, IInv, TypeOK, StageInv, Stage, Preparing, Pointing, disk, Pointer
<1>5. StageInv'
  BY <1>1, <1>4, StageOfOthers DEF IInv
<1>6. DirectoryInv' /\ CurrentResolves' /\ ReaderInv'
  BY GenerationsUntouched DEF FillPointer, disk
<1> QED
  BY <1>2, <1>3, <1>5, <1>6 DEF IInv

(* CURRENT.tmp becomes durable. *)
LEMMA SyncPointerStep ==
  ASSUME NEW p \in Procs, IInv, SyncPointer(p)
  PROVE  IInv'
<1>1. /\ pc[p] = "syncPointer" /\ pc[p] \in Locked /\ op[p] \in Writer
      /\ pc' = [pc EXCEPT ![p] = "swap"] /\ op' = op
  BY DEF SyncPointer, At, Goto, Locked, Stages, Writer, IInv, TypeOK
<1>a. ptmp \in Pointer /\ ptmp.whole /\ ptmp.gen = op[p].gen
  BY <1>1 DEF IInv, TypeOK, StageInv, Stage
<1>b. ptmp' \in Pointer /\ ptmp'.synced /\ ptmp'.whole /\ ptmp'.gen = op[p].gen
  BY <1>a DEF SyncPointer, Pointer
<1>2. TypeOK'
  BY <1>1, <1>b DEF SyncPointer, IInv, TypeOK, LockTypeOK, disk, Stages, Locked, Writer
<1>3. LockInv'
  BY <1>1, LockKept DEF SyncPointer, Locked
<1>4. Stage(p)'
  BY <1>1, <1>b DEF SyncPointer, IInv, TypeOK, StageInv, Stage, Preparing, Pointing, disk
<1>5. StageInv'
  BY <1>1, <1>4, StageOfOthers DEF IInv
<1>6. DirectoryInv' /\ CurrentResolves' /\ ReaderInv'
  BY GenerationsUntouched DEF SyncPointer, disk
<1> QED
  BY <1>2, <1>3, <1>5, <1>6 DEF IInv

(* CURRENT becomes a whole, durable pointer to a durable generation. *)
LEMMA SwapPointerStep ==
  ASSUME NEW p \in Procs, IInv, SwapPointer(p)
  PROVE  IInv'
<1>1. /\ pc[p] = "swap" /\ pc[p] \in Locked /\ op[p] \in Writer
      /\ pc' = [pc EXCEPT ![p] = "syncStore"] /\ op' = op
  BY DEF SwapPointer, At, Goto, Locked, Stages, Writer, IInv, TypeOK
<1>2. TypeOK'
  BY <1>1 DEF SwapPointer, IInv, TypeOK, LockTypeOK, disk, Stages, Locked, Writer
<1>3. LockInv'
  BY <1>1, LockKept DEF SwapPointer, Locked
<1>4. Stage(p)'
  BY <1>1 DEF SwapPointer, IInv, TypeOK, StageInv, Stage, Preparing, Pointing, disk
<1>5. StageInv'
  BY <1>1, <1>4, StageOfOthers DEF IInv
<1>6. DirectoryInv'
  BY <1>1 DEF SwapPointer, IInv, TypeOK, disk, DirectoryInv, StageInv, Stage, Preparing, Pointing, Valid, Writer
<1>7. CurrentResolves'
  BY <1>1 DEF SwapPointer, IInv, TypeOK, disk, DirectoryInv, StageInv, Stage, Preparing, Pointing, CurrentResolves, Resolves, Valid, Pointer
<1>8. ReaderInv'
  BY <1>1 DEF SwapPointer, IInv, TypeOK, disk, StageInv, Stage, Preparing, Pointing, ReaderInv, Writer
<1> QED
  BY <1>2, <1>3, <1>5, <1>6, <1>7, <1>8 DEF IInv

(* The swap becomes durable, and the lock free. *)
LEMMA SyncStoreStep ==
  ASSUME NEW p \in Procs, IInv, SyncStore(p)
  PROVE  IInv'
<1>1. /\ pc[p] = "syncStore" /\ pc[p] \in Locked /\ op[p] \in Writer
      /\ pc' = [pc EXCEPT ![p] = "idle"]
  BY DEF SyncStore, At, Goto, Locked, Stages, Writer, IInv, TypeOK, Return
<1>2. TypeOK'
  BY <1>1 DEF SyncStore, IInv, TypeOK, LockTypeOK, disk, Stages, Locked, Writer, Unlock, Return
<1>3. LockInv'
  BY <1>1, LockReleased DEF SyncStore, Unlock, Locked
<1>4. Stage(p)'
  BY <1>1 DEF SyncStore, IInv, TypeOK, StageInv, Stage, Preparing, Pointing, disk, Return
<1>5. StageInv'
  BY <1>1, <1>4, StageOfOthers DEF IInv
<1>6. DirectoryInv'
  BY <1>1 DEF SyncStore, IInv, TypeOK, disk, DirectoryInv, StageInv, Stage, Preparing, Pointing, Valid, Writer
<1>7. CurrentResolves'
  BY <1>1 DEF SyncStore, IInv, TypeOK, disk, DirectoryInv, StageInv, Stage, Preparing, Pointing, CurrentResolves, Resolves, Valid, Pointer
<1>8. ReaderInv'
  BY <1>1 DEF SyncStore, IInv, TypeOK, disk, StageInv, Stage, Preparing, Pointing, ReaderInv, Writer
<1> QED
  BY <1>2, <1>3, <1>5, <1>6, <1>7, <1>8 DEF IInv

(* An error gives the lock up and leaves the files. *)
LEMMA IoErrorStep ==
  ASSUME NEW p \in Procs, IInv, IoError(p)
  PROVE  IInv'
<1>1. /\ pc[p] \in Locked /\ op[p] \in Writer
      /\ pc' = [pc EXCEPT ![p] = "idle"]
  BY DEF IoError, At, Goto, Locked, Stages, Writer, IInv, TypeOK, Return
<1>2. TypeOK'
  BY <1>1 DEF IoError, IInv, TypeOK, LockTypeOK, disk, Stages, Locked, Writer, Unlock, Return
<1>3. LockInv'
  BY <1>1, LockReleased DEF IoError, Unlock, Locked
<1>4. Stage(p)'
  BY <1>1 DEF IoError, IInv, TypeOK, StageInv, Stage, Preparing, Pointing, disk, Return
<1>5. StageInv'
  BY <1>1, <1>4, StageOfOthers DEF IInv
<1>6. DirectoryInv' /\ CurrentResolves' /\ ReaderInv'
  BY GenerationsUntouched DEF IoError, disk
<1> QED
  BY <1>2, <1>3, <1>5, <1>6 DEF IInv

(* reactivate takes the lock again or finds it taken. *)
LEMMA ReactivateStep ==
  ASSUME NEW p \in Procs, IInv, Reactivate(p)
  PROVE  IInv'
<1>1. TypeOK'
  BY DEF Reactivate, TryLock, LockIsFree, Return, Goto, At, IInv, TypeOK, LockTypeOK, disk, Parent, Child, Stages, Locked
<1>2. LockInv'
  BY DEF Reactivate, TryLock, LockIsFree, Return, Goto, At, IInv, TypeOK, LockTypeOK, LockInv, OneDescription, Holds, Parent, Child, Locked
<1>3. StageInv'
  BY DEF Reactivate, TryLock, LockIsFree, Return, Goto, At, IInv, TypeOK, StageInv, Stage, disk, Preparing, Pointing
<1>4. DirectoryInv' /\ CurrentResolves' /\ ReaderInv'
  BY GenerationsUntouched DEF Reactivate, disk
<1> QED
  BY <1>1, <1>2, <1>3, <1>4 DEF IInv

(* A child gets a copy of its parent's lock. *)
LEMMA ForkStep ==
  ASSUME NEW p \in Procs, IInv, Fork(p)
  PROVE  IInv'
<1>1. TypeOK'
  BY DEF Fork, ForkChild, IInv, TypeOK, LockTypeOK, disk, Parent, Child, Stages, Locked
<1>2. LockInv'
  BY DEF Fork, ForkChild, IInv, TypeOK, LockTypeOK, LockInv, OneDescription, Holds, Parent, Child, Locked
<1>3. StageInv'
  BY DEF Fork, ForkChild, IInv, TypeOK, StageInv, Stage, disk, Preparing, Pointing
<1>4. DirectoryInv' /\ CurrentResolves' /\ ReaderInv'
  BY GenerationsUntouched DEF Fork, disk
<1> QED
  BY <1>1, <1>2, <1>3, <1>4 DEF IInv

(* A child that ends takes no lock with it. *)
LEMMA ChildExitStep ==
  ASSUME NEW p \in Procs, IInv, ChildExit(p)
  PROVE  IInv'
<1>1. TypeOK'
  BY DEF ChildExit, CloseChild, IInv, TypeOK, LockTypeOK, disk, Parent, Child, Stages, Locked
<1>2. LockInv'
  BY DEF ChildExit, CloseChild, IInv, TypeOK, LockTypeOK, LockInv, OneDescription, Holds, Parent, Child, Locked
<1>3. StageInv'
  BY DEF ChildExit, CloseChild, IInv, TypeOK, StageInv, Stage, disk, Preparing, Pointing
<1>4. DirectoryInv' /\ CurrentResolves' /\ ReaderInv'
  BY GenerationsUntouched DEF ChildExit, disk
<1> QED
  BY <1>1, <1>2, <1>3, <1>4 DEF IInv

(* A process that dies leaves the disk as it is. *)
LEMMA CrashStep ==
  ASSUME NEW p \in Procs, IInv, Crash(p)
  PROVE  IInv'
<1>1. TypeOK'
  BY DEF Crash, OwnerDies, Return, IInv, TypeOK, LockTypeOK, disk, Parent, Child, Stages, Locked
<1>2. LockInv'
  BY DEF Crash, OwnerDies, Return, IInv, TypeOK, LockTypeOK, LockInv, OneDescription, Holds, Parent, Child, Locked
<1>3. StageInv'
  BY DEF Crash, OwnerDies, Return, IInv, TypeOK, StageInv, Stage, disk, Preparing, Pointing
<1>4. DirectoryInv' /\ CurrentResolves' /\ ReaderInv'
  BY GenerationsUntouched DEF Crash, disk
<1> QED
  BY <1>1, <1>2, <1>3, <1>4 DEF IInv

(* A call takes the lock, which no other process can have.                 *)
LEMMA StartIndexStep ==
  ASSUME NEW p \in Procs, NEW g \in Gens, NEW c \in Contents, IInv, StartIndex(p, g, c)
  PROVE  IInv'
<1>1. TypeOK'
  BY DEF StartIndex, TryLock, Goto, At, IInv, TypeOK, LockTypeOK, disk, Parent, Stages, Locked, Writer
<1>2. LockInv'
  BY DEF StartIndex, TryLock, LockIsFree, Goto, At, IInv, TypeOK, LockInv, OneDescription, Holds, Parent, Locked
<1>3. StageInv'
  BY DEF StartIndex, Goto, At, IInv, TypeOK, StageInv, Stage, disk, Preparing, Pointing
<1>4. DirectoryInv' /\ CurrentResolves' /\ ReaderInv'
  BY GenerationsUntouched DEF StartIndex, disk
<1> QED
  BY <1>1, <1>2, <1>3, <1>4 DEF IInv

-----------------------------------------------------------------------------
(* Readers. *)

(* A reader reads CURRENT: the generation it names is there.               *)
LEMMA ReadPointerStep ==
  ASSUME NEW r \in Readers, IInv, ReadPointer(r)
  PROVE  IInv'
<1> DEFINE found == [gen |-> current.gen, phase |-> "named", man |-> None]
<1>1. current \in Pointer /\ current.whole /\ final[current.gen] # None
  BY DEF IInv, TypeOK, CurrentResolves, Resolves, Valid, ReadPointer, Pointer
<1>2. found \in View /\ view' = [view EXCEPT ![r] = found]
  BY <1>1 DEF ReadPointer, View, Pointer
<1>3. UNCHANGED <<holders, pc, op, disk, outages>>
  BY DEF ReadPointer
<1>4. TypeOK'
  BY <1>2, <1>3 DEF IInv, TypeOK, disk, LockTypeOK
<1>5. ReaderInv'
  BY <1>1, <1>2, <1>3 DEF IInv, TypeOK, disk, ReaderInv, View
<1> QED
  BY <1>3, <1>4, <1>5 DEF IInv, disk, LockInv, OneDescription, Holds, DirectoryInv, Valid, StageInv, Stage,
     CurrentResolves, Resolves

(* What a reader found is still valid when it opens it. *)
LEMMA OpenGenerationStep ==
  ASSUME NEW r \in Readers, IInv, OpenGeneration(r)
  PROVE  IInv'
<1> DEFINE d == final[view[r].gen]
           opened == [view[r] EXCEPT !.phase = "open", !.man = d.man]
<1>1. view[r] \in View /\ view[r].phase = "named" /\ d # None /\ d \in Directory
  BY DEF IInv, TypeOK, OpenGeneration, ReaderInv, View
<1>2. Valid(d)
  BY <1>1 DEF IInv, DirectoryInv, View
<1>3. view' = [view EXCEPT ![r] = opened]
  BY <1>2 DEF OpenGeneration
<1>4. UNCHANGED <<holders, pc, op, disk, outages>>
  BY DEF OpenGeneration
<1>5. opened \in View /\ opened.phase = "open" /\ opened.gen = view[r].gen /\ opened.man = d.seg
  BY <1>1, <1>2 DEF View, Valid, Directory
<1>6. TypeOK'
  BY <1>3, <1>4, <1>5 DEF IInv, TypeOK, disk, LockTypeOK
<1>7. ReaderInv'
  <2> SUFFICES ASSUME NEW q \in Readers, view'[q] # None
               PROVE  /\ view'[q].phase # "failed"
                      /\ final'[view'[q].gen] # None
                      /\ view'[q].phase = "open" => final'[view'[q].gen].seg = view'[q].man
    BY DEF ReaderInv
  <2>1. final' = final /\ view \in [Readers -> View \cup {None}]
    BY <1>4 DEF disk, IInv, TypeOK
  <2>2. CASE q = r
    BY <2>1, <2>2, <1>1, <1>3, <1>5
  <2>3. CASE q # r
    <3>1. view'[q] = view[q]
      BY <2>1, <2>3, <1>3
    <3> QED
      BY <2>1, <3>1 DEF IInv, ReaderInv
  <2> QED
    BY <2>2, <2>3
<1> QED
  BY <1>4, <1>6, <1>7 DEF IInv, disk, LockInv, OneDescription, Holds, DirectoryInv, Valid, StageInv, Stage,
     CurrentResolves, Resolves

(* A reader that closes changes nothing else. *)
LEMMA CloseReaderStep ==
  ASSUME NEW r \in Readers, IInv, CloseReader(r)
  PROVE  IInv'
  BY DEF CloseReader, IInv, TypeOK, disk, LockTypeOK, LockInv, OneDescription, Holds, DirectoryInv, Valid,
     StageInv, Stage, CurrentResolves, Resolves, ReaderInv

-----------------------------------------------------------------------------
(* A loss of power: a generation keeps its final name or loses it whole,   *)
(* and one whose rename was durable keeps it.                              *)
LEMMA PowerLossKeepsGenerations ==
  ASSUME IInv, PowerLoss
  PROVE  /\ final' \in [Gens -> Directory \cup {None}]
         /\ tmp' \in [Gens -> Directory \cup {None}]
         /\ \A g \in Gens : final'[g] # None => final'[g] = final[g]
         /\ \A g \in Gens : g \notin floating => final'[g] = final[g]
<1>1. PICK undone \in SUBSET floating :
        LET named == [g \in Gens |-> IF g \in undone THEN None ELSE final[g]]
            temporary == [g \in Gens |-> IF g \in undone THEN final[g] ELSE tmp[g]]
        IN /\ final' \in [Gens -> UNION {Survivors(named[g]) : g \in Gens}]
           /\ \A g \in Gens : final'[g] \in Survivors(named[g])
           /\ tmp' \in [Gens -> UNION {Survivors(temporary[g]) : g \in Gens}]
           /\ \A g \in Gens : tmp'[g] \in Survivors(temporary[g])
  BY DEF PowerLoss
<1> DEFINE named == [g \in Gens |-> IF g \in undone THEN None ELSE final[g]]
           temporary == [g \in Gens |-> IF g \in undone THEN final[g] ELSE tmp[g]]
<1>2. \A d \in Directory \cup {None} : Survivors(d) \subseteq Directory \cup {None}
  <2> SUFFICES ASSUME NEW d \in Directory, ~d.synced, NEW e \in Survivors(d)
               PROVE  e \in Directory
    BY DEF Survivors
  <2>1. d # None
    OBVIOUS
  <2>2. PICK kept \in SUBSET Segments, man \in {None, d.man} :
          e = [seg |-> [s \in Segments |-> IF s \in kept THEN d.seg[s] ELSE None],
               man |-> man, synced |-> TRUE]
    BY <2>1 DEF Survivors
  <2>3. [s \in Segments |-> IF s \in kept THEN d.seg[s] ELSE None] \in SegmentFiles
    BY DEF Directory, SegmentFiles
  <2> QED
    BY <2>2, <2>3 DEF Directory
<1>3. ASSUME NEW g \in Gens
      PROVE  /\ final'[g] \in Directory \cup {None}
             /\ tmp'[g] \in Directory \cup {None}
  <2>1. named[g] \in Directory \cup {None} /\ temporary[g] \in Directory \cup {None}
    BY DEF IInv, TypeOK
  <2>2. final'[g] \in Survivors(named[g]) /\ tmp'[g] \in Survivors(temporary[g])
    BY <1>1
  <2> QED
    BY <2>1, <2>2, <1>2
<1>4. ASSUME NEW g \in Gens
      PROVE  /\ final'[g] # None => final'[g] = final[g]
             /\ g \notin floating => final'[g] = final[g]
  <2>1. final'[g] \in Survivors(IF g \in undone THEN None ELSE final[g])
    BY <1>1
  <2>2. final[g] # None => final[g].synced
    BY DEF IInv, DirectoryInv
  <2>3. Survivors(None) = {None} /\ Survivors(final[g]) = {final[g]}
    BY <2>2 DEF Survivors
  <2> QED
    BY <2>1, <2>3
<1>5. DOMAIN final' = Gens /\ DOMAIN tmp' = Gens
  BY <1>1
<1>6. final' = [g \in Gens |-> final'[g]] /\ tmp' = [g \in Gens |-> tmp'[g]]
  BY <1>1
<1> QED
  BY <1>3, <1>4, <1>6

(* A loss of power keeps the invariant. *)
LEMMA PowerLossStep ==
  ASSUME IInv, PowerLoss
  PROVE  IInv'
<1>1. /\ final' \in [Gens -> Directory \cup {None}]
      /\ tmp' \in [Gens -> Directory \cup {None}]
      /\ \A g \in Gens : final'[g] # None => final'[g] = final[g]
      /\ \A g \in Gens : g \notin floating => final'[g] = final[g]
  BY PowerLossKeepsGenerations
<1>2. current' \in {current, safeCurrent} /\ safeCurrent' = current'
  BY DEF PowerLoss, SurvivingPointers, IInv, CurrentResolves
<1>3. ptmp' \in Pointer \cup {None}
  <2>1. ptmp' = None \/ ptmp' \in SurvivingPointers(ptmp)
    BY DEF PowerLoss
  <2>2. ASSUME ptmp \in Pointer, NEW q \in SurvivingPointers(ptmp)
        PROVE  q \in Pointer
    <3>1. CASE ptmp.synced
      BY <2>2, <3>1 DEF SurvivingPointers
    <3>2. CASE ~ptmp.synced
      <4>1. PICK whole \in {FALSE, ptmp.whole} : q = [ptmp EXCEPT !.whole = whole, !.synced = TRUE]
        BY <2>2, <3>2 DEF SurvivingPointers
      <4> QED
        BY <2>2, <4>1 DEF Pointer
    <3> QED
      BY <3>1, <3>2
  <2> QED
    BY <2>1, <2>2 DEF SurvivingPointers, IInv, TypeOK
<1>4. TypeOK'
  BY <1>1, <1>2, <1>3 DEF PowerLoss, IInv, TypeOK, LockTypeOK, Stages
<1>5. LockInv'
  BY DEF PowerLoss, LockInv, OneDescription, Locked
<1>6. DirectoryInv'
  BY <1>1 DEF IInv, DirectoryInv, Valid
<1>7. StageInv'
  BY DEF PowerLoss, StageInv, Stage, Preparing, Pointing
<1>8. CurrentResolves'
  <2>1. floating' = {}
    BY DEF PowerLoss
  <2>2. current' # None => /\ current'.gen \in Gens
                           /\ current'.synced /\ current'.whole
                           /\ Valid(final[current'.gen])
                           /\ final[current'.gen].synced
                           /\ current'.gen \notin floating
    BY <1>2 DEF IInv, TypeOK, CurrentResolves, Resolves, Pointer
  <2>3. current' # None => final'[current'.gen] = final[current'.gen]
    BY <1>1, <2>2
  <2> QED
    BY <1>2, <2>1, <2>2, <2>3 DEF CurrentResolves, Resolves, Valid
<1>9. ReaderInv'
  BY DEF PowerLoss, ReaderInv
<1> QED
  BY <1>4, <1>5, <1>6, <1>7, <1>8, <1>9 DEF IInv

-----------------------------------------------------------------------------
(* The invariant holds of an empty store. *)
LEMMA InitInv == Init => IInv
  BY DEF Init, LockInit, IInv, TypeOK, LockTypeOK, Stages, LockInv, OneDescription, Locked, DirectoryInv,
     StageInv, Stage, Preparing, Pointing, CurrentResolves, ReaderInv

(* Every step keeps the invariant. *)
LEMMA NextInv == IInv /\ [Next]_vars => IInv'
<1> SUFFICES ASSUME IInv, [Next]_vars
             PROVE  IInv'
  OBVIOUS
<1>1. ASSUME NEW p \in Procs, NEW g \in Gens, NEW c \in Contents, StartIndex(p, g, c)
      PROVE  IInv'
  BY <1>1, StartIndexStep
<1>2. ASSUME NEW p \in Procs, Advance(p)
      PROVE  IInv'
  BY <1>2, CreateTemporaryStep, FindExistingStep, WriteSegmentStep, ValidateStep, SyncTemporaryStep,
     RevalidateStep, RenameStep, SyncNamesStep, ReactivateStep, CompareExistingStep, CreatePointerStep,
     FillPointerStep, SyncPointerStep, SwapPointerStep, SyncStoreStep DEF Advance
<1>3. ASSUME NEW p \in Procs, Fork(p) \/ ChildExit(p) \/ Fail(p)
      PROVE  IInv'
  BY <1>3, ForkStep, ChildExitStep, IoErrorStep, CrashStep DEF Fail
<1>4. CASE PowerLoss
  BY <1>4, PowerLossStep
<1>5. ASSUME NEW r \in Readers, Read(r)
      PROVE  IInv'
  BY <1>5, ReadPointerStep, OpenGenerationStep, CloseReaderStep DEF Read
<1>6. CASE UNCHANGED vars
  BY <1>6 DEF vars, disk, IInv, TypeOK, LockTypeOK, LockInv, OneDescription, Holds, DirectoryInv, Valid,
     StageInv, Stage, CurrentResolves, Resolves, ReaderInv
<1> QED
  BY <1>1, <1>2, <1>3, <1>4, <1>5, <1>6 DEF Next

(* The invariant holds in every reachable state. *)
LEMMA Inductive == Spec => []IInv
  BY InitInv, NextInv, PTL DEF Spec

(* The types of the store, and a writer for every call in progress. *)
THEOREM TypeCorrect == Spec => []TypeOK
  BY Inductive, PTL DEF IInv

(* Two processes never publish at once, whatever fails or forks. *)
THEOREM WritersExcludeEachOther == Spec => []MutualExclusion
<1>1. IInv => MutualExclusion
  BY Alone DEF IInv, MutualExclusion
<1> QED
  BY <1>1, Inductive, PTL

(* CURRENT, and what a loss of power leaves of it, always resolves to a    *)
(* complete and durable generation.                                        *)
THEOREM CurrentAlwaysResolves == Spec => []CurrentResolves
  BY Inductive, PTL DEF IInv

(* A reader that found CURRENT opens what it names, and what it opened     *)
(* never changes under it.                                                 *)
THEOREM ReadersSeeOneGeneration == Spec => []ReaderSeesOneGeneration
<1>1. IInv => ReaderSeesOneGeneration
  BY DEF IInv, TypeOK, View, DirectoryInv, ReaderInv, ReaderSeesOneGeneration
<1> QED
  BY <1>1, Inductive, PTL

(* All of it, as the run checks it.                                        *)
THEOREM StoreStaysSound == Spec => []StoreIsSound
BY WritersExcludeEachOther, CurrentAlwaysResolves, ReadersSeeOneGeneration, PTL DEF StoreIsSound

-----------------------------------------------------------------------------
(* The store implements its promise.  Under the invariant a directory with *)
(* a final name is a generation that is installed.                         *)
Named == {g \in Gens : final[g] # None}

(* The generations installed are those with a final name.                  *)
LEMMA InstalledIsNamed ==
  ASSUME IInv
  PROVE  /\ Installed \in [Gens -> Contents \cup {None}]
         /\ \A g \in Gens : Installed[g] # None <=> final[g] # None
         /\ {g \in Gens : Installed[g] # None} = Named
<1>1. 1 \in Segments
  BY DEF Segments
<1>2. ASSUME NEW g \in Gens
      PROVE  /\ Installed[g] \in Contents \cup {None}
             /\ Installed[g] # None <=> final[g] # None
  BY <1>1, <1>2 DEF IInv, TypeOK, DirectoryInv, Installed, Valid, Directory, SegmentFiles
<1> QED
  BY <1>2 DEF Installed, Named

(* What a reader can find is untouched by most steps. *)
LEMMA Stutters ==
  ASSUME UNCHANGED <<final, floating, current, safeCurrent>>
  PROVE  UNCHANGED Promise!vars
  BY DEF Promise!vars, Installed, Valid

(* The rename installs the generation, not yet durably. *)
LEMMA RenameInstalls ==
  ASSUME IInv, NEW p \in Procs, Rename(p)
  PROVE  Promise!Next
<1> DEFINE g == op[p].gen
           c == tmp[g].seg[1]
<1>1. 1 \in Segments
  BY DEF Segments
<1>2. g \in Gens
  BY DEF Rename, At, IInv, TypeOK, Writer
<1>3. tmp[g] # None /\ tmp[g] \in Directory /\ Valid(tmp[g])
  BY <1>2 DEF Rename, At, IInv, TypeOK, StageInv, Stage, Preparing
<1>4. c \in Contents /\ c # None
  BY <1>1, <1>3 DEF Valid, Directory, SegmentFiles
<1>5. /\ final[g] = None
      /\ final' = [final EXCEPT ![g] = tmp[g]]
      /\ floating' = floating \cup {g}
      /\ current' = current /\ safeCurrent' = safeCurrent
      /\ final \in [Gens -> Directory \cup {None}]
  BY DEF Rename, IInv, TypeOK
<1>6. Installed[g] = None
  BY <1>2, <1>5 DEF Installed, Valid
<1>7. Installed' = [Installed EXCEPT ![g] = c]
  <2>1. ASSUME NEW h \in Gens
        PROVE  Installed'[h] = [Installed EXCEPT ![g] = c][h]
    <3>1. CASE h = g
      BY <3>1, <1>2, <1>3, <1>5 DEF Installed, Valid
    <3>2. CASE h # g
      BY <3>2, <1>2, <1>5 DEF Installed, Valid
    <3> QED
      BY <3>1, <3>2
  <2> QED
    BY <2>1 DEF Installed
<1>8. {h \in Gens : Installed'[h] # None} \ floating' = {h \in Gens : Installed[h] # None} \ floating
  <2> DEFINE I == Installed
             J == Installed'
  <2>1. I[g] = None /\ J = [I EXCEPT ![g] = c] /\ I \in [Gens -> Contents \cup {None}]
    BY <1>6, <1>7, InstalledIsNamed
  <2>2. floating' = floating \cup {g}
    BY <1>5
  <2> HIDE DEF I, J, g, c
  <2>3. {h \in Gens : J[h] # None} \ floating' = {h \in Gens : I[h] # None} \ floating
    BY <2>1, <2>2
  <2> QED
    BY <2>3 DEF I, J
<1>9. Promise!Install(g, c)
  BY <1>5, <1>6, <1>7, <1>8 DEF Promise!Install
<1> QED
  BY <1>2, <1>4, <1>9 DEF Promise!Next

(* A sync of the generations directory makes every name durable. *)
LEMMA SyncHardens ==
  ASSUME UNCHANGED <<final, current, safeCurrent>>, floating' = {}
  PROVE  Promise!Next
<1>1. Installed' = Installed
  BY DEF Installed, Valid
<1>2. Promise!Harden
  BY <1>1 DEF Promise!Harden
<1> QED
  BY <1>2 DEF Promise!Next

(* CURRENT moves to a generation whose name is durable. *)
LEMMA SwapPoints ==
  ASSUME IInv, NEW p \in Procs, SwapPointer(p)
  PROVE  Promise!Next
<1> DEFINE g == op[p].gen
<1>1. g \in Gens
  BY DEF SwapPointer, At, IInv, TypeOK, Writer
<1>2. ptmp # None /\ ptmp.gen = g /\ final[g] # None /\ g \notin floating
  BY DEF SwapPointer, At, IInv, StageInv, Stage, Pointing
<1>3. Installed' = Installed
  BY DEF SwapPointer, Installed, Valid
<1>4. Promise!Point(g)
  BY <1>1, <1>2, <1>3, InstalledIsNamed DEF SwapPointer, Promise!Point
<1> QED
  BY <1>1, <1>4 DEF Promise!Next

(* The move is durable once the store directory is synced. *)
LEMMA SyncStoreHardens ==
  ASSUME NEW p \in Procs, SyncStore(p)
  PROVE  Promise!Next
<1>1. Installed' = Installed
  BY DEF SyncStore, Installed, Valid
<1>2. Promise!HardenPointer
  BY <1>1 DEF SyncStore, Promise!HardenPointer
<1> QED
  BY <1>2 DEF Promise!Next

(* A loss of power loses at most what was not durable. *)
LEMMA PowerLossLoses ==
  ASSUME IInv, PowerLoss
  PROVE  Promise!Next
<1> DEFINE kept == Named'
<1>1. IInv'
  BY PowerLossStep
<1>2. /\ \A g \in Gens : final'[g] # None => final'[g] = final[g]
      /\ \A g \in Gens : g \notin floating => final'[g] = final[g]
  BY PowerLossKeepsGenerations
<1>3. {g \in Gens : Installed[g] # None} \ floating \subseteq kept
  BY <1>2, InstalledIsNamed DEF Named
<1>4. Installed' = [g \in Gens |-> IF g \in kept THEN Installed[g] ELSE None]
  <2>1. ASSUME NEW g \in Gens
        PROVE  Installed'[g] = IF g \in kept THEN Installed[g] ELSE None
    BY <2>1, <1>2 DEF Named, Installed, Valid
  <2> QED
    BY <2>1 DEF Installed
<1>5. current' \in {current, safeCurrent} /\ safeCurrent' = current'
  BY DEF PowerLoss, SurvivingPointers, IInv, CurrentResolves
<1>6. floating' = {}
  BY DEF PowerLoss
<1>7. Promise!Lose
  <2>1. kept \in SUBSET Gens
    BY DEF Named
  <2>2. \E k \in SUBSET Gens :
          /\ {g \in Gens : Installed[g] # None} \ floating \subseteq k
          /\ Installed' = [g \in Gens |-> IF g \in k THEN Installed[g] ELSE None]
    BY <2>1, <1>3, <1>4
  <2> QED
    BY <2>2, <1>5, <1>6 DEF Promise!Lose
<1> QED
  BY <1>7 DEF Promise!Next

(* Every step of the store is a step of the promise, or none. *)
LEMMA StepsRefine == IInv /\ [Next]_vars => [Promise!Next]_(Promise!vars)
<1> SUFFICES ASSUME IInv, [Next]_vars
             PROVE  Promise!Next \/ UNCHANGED Promise!vars
  OBVIOUS
<1>1. ASSUME NEW p \in Procs, NEW g \in Gens, NEW c \in Contents, StartIndex(p, g, c)
      PROVE  UNCHANGED Promise!vars
  BY <1>1, Stutters DEF StartIndex, disk
<1>2. ASSUME NEW p \in Procs, Advance(p)
      PROVE  Promise!Next \/ UNCHANGED Promise!vars
  <2>1. CASE CreateTemporary(p)
    BY <2>1, SyncHardens DEF CreateTemporary
  <2>2. CASE SyncNames(p)
    BY <2>2, SyncHardens DEF SyncNames
  <2>3. CASE Rename(p)
    BY <2>3, RenameInstalls
  <2>4. CASE SwapPointer(p)
    BY <2>4, SwapPoints
  <2>5. CASE SyncStore(p)
    BY <2>5, SyncStoreHardens
  <2>6. CASE FindExisting(p) \/ WriteSegment(p) \/ Validate(p) \/ SyncTemporary(p) \/ Revalidate(p)
    BY <2>6, Stutters DEF FindExisting, WriteSegment, Validate, SyncTemporary, Revalidate, disk
  <2>7. CASE Reactivate(p) \/ CompareExisting(p) \/ CreatePointer(p) \/ FillPointer(p) \/ SyncPointer(p)
    BY <2>7, Stutters DEF Reactivate, CompareExisting, CreatePointer, FillPointer, SyncPointer, disk
  <2> QED
    BY <1>2, <2>1, <2>2, <2>3, <2>4, <2>5, <2>6, <2>7 DEF Advance
<1>3. ASSUME NEW p \in Procs, Fork(p) \/ ChildExit(p) \/ Fail(p)
      PROVE  UNCHANGED Promise!vars
  BY <1>3, Stutters DEF Fork, ChildExit, Fail, IoError, Crash, disk
<1>4. CASE PowerLoss
  BY <1>4, PowerLossLoses
<1>5. ASSUME NEW r \in Readers, Read(r)
      PROVE  UNCHANGED Promise!vars
  BY <1>5, Stutters DEF Read, ReadPointer, OpenGeneration, CloseReader, disk
<1>6. CASE UNCHANGED vars
  BY <1>6, Stutters DEF vars, disk
<1> QED
  BY <1>1, <1>2, <1>3, <1>4, <1>5, <1>6 DEF Next

(* The store implements its promise: whatever crashes, fails and loses     *)
(* power, a generation appears once, complete, and never changes, CURRENT  *)
(* moves only to one whose name is durable, and a loss undoes only what no *)
(* sync had reached.                                                       *)
THEOREM StoreKeepsItsPromise == Spec => RefinesPromise
<1>1. Init => Promise!Init
  BY DEF Init, Promise!Init, Installed, Valid
<1> QED
  BY <1>1, Inductive, StepsRefine, PTL DEF Spec, RefinesPromise, Promise!Spec
=============================================================================
