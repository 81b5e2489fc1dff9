--------------------------- MODULE RefactorsProofs ---------------------------
(***************************************************************************)
(* Proofs about the index of similar code that threads build in the        *)
(* background, and about what is asked of it.                              *)
(*                                                                         *)
(* SimilarityBackground, for any graphs, snapshots, threads and any number *)
(* of schedules.  A job carries the epoch it was enqueued at; one that has *)
(* the current epoch is of the latest input, and none has while the owner  *)
(* is inside schedule (JobsAreOfLatest).  A thread that has passed its     *)
(* check holds the state lock, so that Invalidate waits for it: its epoch  *)
(* can be outdated only while the owner stands before that lock            *)
(* (PublishersAreCurrent).                                                 *)
(*                                                                         *)
(* Refactors, for any graphs, scopes, requests and limits.  What the code  *)
(* sorts has keys of one length, which no two elements share, so that a    *)
(* list has each once (InOrderLists); a budget takes of it the first ones, *)
(* and all if they fit.  So a scan, direct or of an index, finds pairs that*)
(* the request means, and all of them unless it says which budget was too  *)
(* small (ScanFinds); a row has the evidence it lists, and all of it unless*)
(* the answer says that some was cut (RowsExist); and a strategy that gaps *)
(* block scores less than the mildest one (BlockedScoresLess).             *)
(***************************************************************************)
EXTENDS Refactors, FiniteSetTheorems, WellFoundedInduction, TLAPS

-----------------------------------------------------------------------------
(* Recursion over numbers, one step at a time *)

(* A set with 0 and the successor of each of its numbers has all numbers.  *)
LEMMA EveryNumber ==
  ASSUME NEW T, 0 \in T, \A k \in Nat : k \in T => k + 1 \in T
  PROVE  Nat \subseteq T
<1> DEFINE rest == Nat \ T
           R == {ss \in Nat \X Nat : ss[1] < ss[2]}
<1> SUFFICES ASSUME rest # {} PROVE FALSE
  OBVIOUS
<1>1. IsWellFoundedOn(R, Nat)
  BY NatLessThanWellFounded DEF OpToRel
<1>2. PICK m \in rest : \A k \in rest : ~(<<k, m>> \in R)
  <2> HIDE DEF rest, R
  <2>1. rest \subseteq Nat
    BY DEF rest
  <2> QED
    BY ONLY <1>1, <2>1, rest # {}, WFMin
<1>3. m \in Nat /\ m # 0 /\ m - 1 \in Nat /\ <<m - 1, m>> \in R
  OBVIOUS
<1>4. m - 1 \in T
  BY <1>2, <1>3
<1>5. m \in T
  BY <1>3, <1>4
<1> QED
  BY <1>5

(* The same as far as n, and of what is stepped through from 0.            *)
LEMMA UpTo ==
  ASSUME NEW n \in Nat, NEW T, 0 \in T, \A k \in 1 .. n : k - 1 \in T => k \in T
  PROVE  0 .. n \subseteq T
<1> DEFINE all == T \cup {k \in Nat : k > n}
<1>1. \A k \in Nat : k \in all => k + 1 \in all
  OBVIOUS
<1>2. Nat \subseteq all
  <2>1. 0 \in all
    OBVIOUS
  <2> HIDE DEF all
  <2> QED
    BY ONLY <1>1, <2>1, EveryNumber
<1> QED
  BY <1>2

(* What starts in A and goes on in A by steps is a function.               *)
IsRun(f, A, a, n, step) ==
  /\ f \in [0 .. n -> A]
  /\ \A k \in 0 .. n : f[k] = IF k = 0 THEN a ELSE step[<<f[k - 1], k>>]

(* There is such a function for every start and step.                      *)
LEMMA RunExists ==
  ASSUME NEW A, NEW a \in A, NEW n \in Nat, NEW step \in [A \X (1 .. n) -> A]
  PROVE  \E f : IsRun(f, A, a, n, step)
<1> DEFINE Is(f, m) == \A k \in 0 .. m : f[k] = IF k = 0 THEN a ELSE step[<<f[k - 1], k>>]
           T == {m \in 0 .. n : \E f \in [0 .. m -> A] : Is(f, m)}
<1>1. 0 \in T
  <2> DEFINE f == [k \in 0 .. 0 |-> a]
  <2>1. f \in [0 .. 0 -> A] /\ Is(f, 0)
    OBVIOUS
  <2> HIDE DEF f, Is
  <2> QED
    BY <2>1
<1>2. ASSUME NEW m \in 1 .. n, m - 1 \in T
      PROVE  m \in T
  <2>1. PICK f \in [0 .. m - 1 -> A] : Is(f, m - 1)
    BY <1>2
  <2> DEFINE next == step[<<f[m - 1], m>>]
             g == [k \in 0 .. m |-> IF k = m THEN next ELSE f[k]]
  <2>2. f[m - 1] \in A /\ next \in A
    OBVIOUS
  <2> HIDE DEF next
  <2>3. g \in [0 .. m -> A]
    BY <2>2
  <2>4. ASSUME NEW k \in 0 .. m
        PROVE  g[k] = IF k = 0 THEN a ELSE step[<<g[k - 1], k>>]
    <3>1. CASE k = m
      <4>1. k # 0 /\ g[k - 1] = f[m - 1] /\ g[k] = next
        BY <3>1
      <4> QED
        BY <3>1, <4>1 DEF next
    <3>2. CASE k # m
      <4>1. k \in 0 .. m - 1 /\ g[k] = f[k] /\ (k # 0 => g[k - 1] = f[k - 1])
        BY <3>2
      <4>2. f[k] = IF k = 0 THEN a ELSE step[<<f[k - 1], k>>]
        BY <2>1, <4>1
      <4> QED
        BY <4>1, <4>2
    <3> QED
      BY <3>1, <3>2
  <2>5. Is(g, m)
    <3> HIDE DEF g
    <3> QED
      BY <2>4
  <2> HIDE DEF g, Is
  <2>6. \E h \in [0 .. m -> A] : Is(h, m)
    BY ONLY <2>3, <2>5
  <2> QED
    BY <2>6
<1>3. n \in T
  <2> HIDE DEF T
  <2>1. 0 .. n \subseteq T
    BY ONLY <1>1, <1>2, n \in Nat, UpTo
  <2> QED
    BY <2>1
<1> QED
  BY <1>3 DEF IsRun

-----------------------------------------------------------------------------
(* Orders of finite sets *)

(* below says of each element of S what comes before it: an order of S.    *)
IsOrder(below, S) ==
  /\ below \in [S -> SUBSET S]
  /\ \A x \in S : x \notin below[x]
  /\ \A x, y \in S : x # y => x \in below[y] \/ y \in below[x]
  /\ \A x, y \in S : y \in below[x] => below[y] \subseteq below[x]

(* For every place there is an element that so many come before.           *)
LEMMA PlacesAreTaken ==
  ASSUME NEW S, IsFiniteSet(S), NEW below, IsOrder(below, S)
  PROVE  /\ Cardinality(S) \in Nat
         /\ \A n \in 1 .. Cardinality(S) : \E x \in S : Cardinality(below[x]) = n - 1
<1> DEFINE N == Cardinality(S)
           rank == [x \in S |-> Cardinality(below[x])]
<1>1. N \in Nat
  BY FS_CardinalityType
<1>2. ASSUME NEW x \in S
      PROVE  IsFiniteSet(below[x]) /\ rank[x] \in 0 .. N - 1
  <2>1. below[x] \in SUBSET S /\ x \notin below[x]
    BY DEF IsOrder
  <2>2. IsFiniteSet(below[x]) /\ Cardinality(below[x]) <= N /\ (Cardinality(below[x]) = N => S = below[x])
    BY <2>1, FS_Subset
  <2>3. Cardinality(below[x]) \in Nat
    BY <2>2, FS_CardinalityType
  <2> QED
    BY <1>1, <2>1, <2>2, <2>3
<1>3. ASSUME NEW x \in S, NEW y \in S, y \in below[x]
      PROVE  rank[x] # rank[y]
  <2>1. below[y] \in SUBSET below[x] /\ y \notin below[y]
    BY <1>3 DEF IsOrder
  <2>2. Cardinality(below[y]) = Cardinality(below[x]) => below[x] = below[y]
    BY <1>2, <2>1, FS_Subset
  <2> QED
    BY <1>3, <2>1, <2>2
<1>4. rank \in Injection(S, 0 .. N - 1)
  <2>1. \A x, y \in S : rank[x] = rank[y] => x = y
    BY <1>3 DEF IsOrder
  <2>2. rank \in [S -> 0 .. N - 1]
    BY <1>2
  <2> HIDE DEF rank
  <2> QED
    BY <2>1, <2>2 DEF Injection, IsInjective
<1>5. IsFiniteSet(0 .. N - 1) /\ Cardinality(0 .. N - 1) = N
  BY <1>1, FS_Interval
<1>6. rank \in Surjection(S, 0 .. N - 1)
  <2> HIDE DEF rank
  <2> QED
    BY <1>4, <1>5, FS_Injection
<1>7. ASSUME NEW n \in 1 .. N
      PROVE  \E x \in S : Cardinality(below[x]) = n - 1
  <2>1. n - 1 \in 0 .. N - 1
    BY <1>1
  <2>2. \E x \in S : rank[x] = n - 1
    <3> HIDE DEF rank
    <3> QED
      BY <1>6, <2>1 DEF Surjection
  <2> QED
    BY <2>2
<1> QED
  BY <1>1, <1>7

(* f lists at each place an element that so many come before, if one is.   *)
IsOrdering(f, S, below) ==
  /\ f \in [1 .. Cardinality(S) -> {f[n] : n \in 1 .. Cardinality(S)}]
  /\ \A n \in 1 .. Cardinality(S) :
       (\E x \in S : Cardinality(below[x]) = n - 1) => f[n] \in S /\ Cardinality(below[f[n]]) = n - 1

(* Such a list has an element of the set at every place.                   *)
LEMMA OrderingListsAll ==
  ASSUME NEW S, IsFiniteSet(S), NEW below, IsOrder(below, S), NEW f, IsOrdering(f, S, below)
  PROVE  /\ f \in Seq(S) /\ Len(f) = Cardinality(S) /\ Len(f) \in Nat
         /\ \A n \in 1 .. Len(f) : f[n] \in S /\ Cardinality(below[f[n]]) = n - 1
<1>1. \A n \in 1 .. Cardinality(S) : f[n] \in S /\ Cardinality(below[f[n]]) = n - 1
  BY PlacesAreTaken DEF IsOrdering
<1>2. f \in [1 .. Cardinality(S) -> S]
  BY <1>1 DEF IsOrdering
<1>3. Cardinality(S) \in Nat
  BY PlacesAreTaken
<1> QED
  BY <1>1, <1>2, <1>3

(* The values of a function on a finite set are finitely many.             *)
LEMMA ImageIsFinite ==
  ASSUME NEW S, IsFiniteSet(S), NEW f
  PROVE  IsFiniteSet({f[x] : x \in S})
<1>1. [x \in S |-> f[x]] \in Surjection(S, {f[x] : x \in S})
  BY DEF Surjection
<1> QED
  BY <1>1, FS_Surjection

(* Of a set of numbers one is the least.                                   *)
LEMMA LeastExists ==
  ASSUME NEW S \in SUBSET Nat, S # {}
  PROVE  \E k \in S : \A l \in S : k <= l
<1> DEFINE R == {ss \in Nat \X Nat : ss[1] < ss[2]}
<1>1. IsWellFoundedOn(R, Nat)
  BY NatLessThanWellFounded DEF OpToRel
<1>2. PICK k \in S : \A l \in S : ~(<<l, k>> \in R)
  <2> HIDE DEF R
  <2> QED
    BY ONLY <1>1, S \subseteq Nat, S # {}, WFMin
<1>3. ASSUME NEW l \in S  PROVE k <= l
  <2>1. k \in Nat /\ l \in Nat
    OBVIOUS
  <2>2. ~(<<l, k>> \in R)
    BY <1>2
  <2>3. ~(l < k)
    BY <2>1, <2>2
  <2> QED
    BY <2>1, <2>3
<1> QED
  BY <1>3

-----------------------------------------------------------------------------
(* Lists in the order of keys *)

(* Keys of one length are in order.                                        *)
LEMMA LowerIsAnOrder ==
  ASSUME NEW n \in Nat, NEW s \in [1 .. n -> Nat], NEW t \in [1 .. n -> Nat], NEW u \in [1 .. n -> Nat]
  PROVE  /\ ~Lower(s, s)
         /\ s # t => Lower(s, t) \/ Lower(t, s)
         /\ Lower(s, t) /\ Lower(t, u) => Lower(s, u)
<1>1. ~Lower(s, s)
  BY DEF Lower
<1>2. ASSUME s # t PROVE Lower(s, t) \/ Lower(t, s)
  <2> DEFINE differ == {i \in 1 .. n : s[i] # t[i]}
  <2>1. differ # {}
    <3>1. s = [i \in 1 .. n |-> s[i]] /\ t = [i \in 1 .. n |-> t[i]]
      OBVIOUS
    <3>2. \E i \in 1 .. n : s[i] # t[i]
      BY <1>2, <3>1
    <3> QED
      BY <3>2
  <2>2. PICK i \in differ : \A j \in differ : i <= j
    <3>1. differ \in SUBSET Nat
      OBVIOUS
    <3> HIDE DEF differ
    <3> QED
      BY <2>1, <3>1, LeastExists
  <2>3. \A j \in 1 .. i - 1 : s[j] = t[j] /\ t[j] = s[j]
    BY <2>2
  <2>4. i \in 1 .. n /\ (s[i] < t[i] \/ t[i] < s[i])
    BY <2>2
  <2> QED
    BY <2>3, <2>4 DEF Lower
<1>3. ASSUME Lower(s, t), Lower(t, u) PROVE Lower(s, u)
  <2>1. PICK i \in 1 .. n : s[i] < t[i] /\ \A j \in 1 .. i - 1 : s[j] = t[j]
    BY <1>3 DEF Lower
  <2>2. PICK k \in 1 .. n : t[k] < u[k] /\ \A j \in 1 .. k - 1 : t[j] = u[j]
    BY <1>3 DEF Lower
  <2>3. CASE i <= k
    <3>1. s[i] < u[i]
      <4>1. i = k \/ i \in 1 .. k - 1
        BY <2>3
      <4> QED
        BY <2>1, <2>2, <4>1
    <3>2. \A j \in 1 .. i - 1 : s[j] = u[j]
      BY <2>1, <2>2, <2>3
    <3> QED
      BY <3>1, <3>2 DEF Lower
  <2>4. CASE k < i
    <3>1. s[k] < u[k]
      BY <2>1, <2>2, <2>4
    <3>2. \A j \in 1 .. k - 1 : s[j] = u[j]
      BY <2>1, <2>2, <2>4
    <3> QED
      BY <3>1, <3>2 DEF Lower
  <2> QED
    BY <2>3, <2>4
<1> QED
  BY <1>1, <1>2, <1>3

(* Finitely many pairs, told apart by their keys.                          *)
AreKeyed(keyed, n) ==
  /\ IsFiniteSet(keyed) /\ n \in Nat
  /\ \A e \in keyed : e[1] \in [1 .. n -> Nat]
  /\ \A e, f \in keyed : e[1] = f[1] => e = f

(* A sequence that lists each of them once, in the order of their keys.    *)
ListsKeyed(f, keyed) ==
  /\ f \in [1 .. Cardinality(keyed) -> keyed]
  /\ \A i, j \in 1 .. Cardinality(keyed) : i < j <=> Lower(f[i][1], f[j][1])
  /\ \A i, j \in 1 .. Cardinality(keyed) : f[i] = f[j] => i = j
  /\ \A e \in keyed : \E i \in 1 .. Cardinality(keyed) : f[i] = e

LEMMA InOrderListsKeyed ==
  ASSUME NEW keyed, NEW n, AreKeyed(keyed, n)
  PROVE  /\ Cardinality(keyed) \in Nat
         /\ \E f : ListsKeyed(f, keyed) /\ InOrder(keyed) = [i \in 1 .. Cardinality(keyed) |-> f[i][2]]
<1> DEFINE N == Cardinality(keyed)
           below == [e \in keyed |-> {g \in keyed : Lower(g[1], e[1])}]
           f == [i \in 1 .. N |-> CHOOSE e \in keyed : Cardinality({g \in keyed : Lower(g[1], e[1])}) = i - 1]
<1>1. N \in Nat
  BY FS_CardinalityType DEF AreKeyed
<1>2. \A e, g, h \in keyed :
        /\ ~Lower(e[1], e[1])
        /\ e # g => Lower(e[1], g[1]) \/ Lower(g[1], e[1])
        /\ Lower(e[1], g[1]) /\ Lower(g[1], h[1]) => Lower(e[1], h[1])
  <2> SUFFICES ASSUME NEW e \in keyed, NEW g \in keyed, NEW h \in keyed
               PROVE  /\ ~Lower(e[1], e[1])
                      /\ e # g => Lower(e[1], g[1]) \/ Lower(g[1], e[1])
                      /\ Lower(e[1], g[1]) /\ Lower(g[1], h[1]) => Lower(e[1], h[1])
    OBVIOUS
  <2>1. n \in Nat /\ {e[1], g[1], h[1]} \subseteq [1 .. n -> Nat] /\ (e # g => e[1] # g[1])
    BY DEF AreKeyed
  <2> QED
    BY <2>1, LowerIsAnOrder
<1>3. IsOrder(below, keyed)
  <2>1. below \in [keyed -> SUBSET keyed]
    OBVIOUS
  <2>2. \A x, y \in keyed : y \in below[x] <=> Lower(y[1], x[1])
    OBVIOUS
  <2>3. \A x, y \in keyed : y \in below[x] => below[y] \subseteq below[x]
    BY <1>2
  <2> HIDE DEF below
  <2> QED
    BY <1>2, <2>1, <2>2, <2>3 DEF IsOrder
<1>4. \A i \in 1 .. N : f[i] \in keyed /\ Cardinality(below[f[i]]) = i - 1
  <2> SUFFICES ASSUME NEW i \in 1 .. N  PROVE f[i] \in keyed /\ Cardinality(below[f[i]]) = i - 1
    OBVIOUS
  <2>1. \E e \in keyed : Cardinality(below[e]) = i - 1
    <3> HIDE DEF below
    <3> QED
      BY <1>3, PlacesAreTaken DEF AreKeyed
  <2>2. \A e \in keyed : below[e] = {g \in keyed : Lower(g[1], e[1])}
    OBVIOUS
  <2>3. f[i] = CHOOSE e \in keyed : Cardinality({g \in keyed : Lower(g[1], e[1])}) = i - 1
    OBVIOUS
  <2> HIDE DEF below, f
  <2> QED
    BY <2>1, <2>2, <2>3
<1>5. \A e \in keyed : IsFiniteSet(below[e]) /\ Cardinality(below[e]) \in 0 .. N - 1
  <2> SUFFICES ASSUME NEW e \in keyed  PROVE IsFiniteSet(below[e]) /\ Cardinality(below[e]) \in 0 .. N - 1
    OBVIOUS
  <2>1. below[e] \in SUBSET keyed /\ e \notin below[e]
    BY <1>2
  <2> HIDE DEF below
  <2>2. /\ IsFiniteSet(below[e]) /\ Cardinality(below[e]) <= N
        /\ Cardinality(below[e]) = N => keyed = below[e]
    BY <2>1, FS_Subset DEF AreKeyed
  <2>3. Cardinality(below[e]) \in Nat
    BY <2>2, FS_CardinalityType
  <2> QED
    BY <1>1, <2>1, <2>2, <2>3
<1>6. \A e, g \in keyed : Lower(g[1], e[1]) => Cardinality(below[g]) < Cardinality(below[e])
  <2> SUFFICES ASSUME NEW e \in keyed, NEW g \in keyed, Lower(g[1], e[1])
               PROVE  Cardinality(below[g]) < Cardinality(below[e])
    OBVIOUS
  <2>1. below[g] \in SUBSET below[e] /\ g \in below[e] /\ g \notin below[g]
    BY <1>2
  <2> HIDE DEF below
  <2>2. Cardinality(below[g]) <= Cardinality(below[e]) /\ Cardinality(below[g]) # Cardinality(below[e])
    BY <1>5, <2>1, FS_Subset
  <2>3. Cardinality(below[g]) \in Nat /\ Cardinality(below[e]) \in Nat
    BY <1>5
  <2> QED
    BY <2>2, <2>3
<1>7. \A e, g \in keyed : Cardinality(below[g]) < Cardinality(below[e]) => Lower(g[1], e[1])
  <2> SUFFICES ASSUME NEW e \in keyed, NEW g \in keyed, Cardinality(below[g]) < Cardinality(below[e])
               PROVE  Lower(g[1], e[1])
    OBVIOUS
  <2>1. Cardinality(below[g]) \in Nat /\ Cardinality(below[e]) \in Nat
    BY <1>5
  <2> HIDE DEF below
  <2>2. e # g /\ ~(Cardinality(below[e]) < Cardinality(below[g]))
    BY <2>1
  <2> QED
    BY <1>2, <1>6, <2>2
<1>8. ListsKeyed(f, keyed)
  <2>1. f \in [1 .. N -> keyed]
    <3>1. f \in [1 .. N -> {f[i] : i \in 1 .. N}]
      OBVIOUS
    <3> HIDE DEF f, below
    <3> QED
      BY <1>4, <3>1
  <2> HIDE DEF f, below
  <2>2. \A i, j \in 1 .. N : i < j <=> Lower(f[i][1], f[j][1])
    <3> SUFFICES ASSUME NEW i \in 1 .. N, NEW j \in 1 .. N  PROVE i < j <=> Lower(f[i][1], f[j][1])
      OBVIOUS
    <3>1. /\ f[i] \in keyed /\ f[j] \in keyed
          /\ Cardinality(below[f[i]]) = i - 1 /\ Cardinality(below[f[j]]) = j - 1
      BY <1>4
    <3>2. i < j <=> Cardinality(below[f[i]]) < Cardinality(below[f[j]])
      BY <1>1, <3>1
    <3> QED
      BY <1>6, <1>7, <3>1, <3>2
  <2>3. \A i, j \in 1 .. N : f[i] = f[j] => i = j
    BY <1>4
  <2>4. ASSUME NEW e \in keyed PROVE \E i \in 1 .. N : f[i] = e
    <3> DEFINE i == Cardinality(below[e]) + 1
    <3>1. i \in 1 .. N /\ Cardinality(below[e]) = i - 1
      BY <1>1, <1>5
    <3> HIDE DEF i
    <3>2. f[i] \in keyed /\ Cardinality(below[f[i]]) = Cardinality(below[e])
      BY <1>4, <3>1
    <3>3. Cardinality(below[e]) \in Nat
      BY <1>5
    <3>4. f[i] = e
      BY <1>2, <1>6, <3>2, <3>3
    <3> QED
      BY <3>1, <3>4
  <2> QED
    BY <2>1, <2>2, <2>3, <2>4 DEF ListsKeyed
<1>9. InOrder(keyed) = [i \in 1 .. N |-> f[i][2]]
  BY DEF InOrder
<1> HIDE DEF f
<1> QED
  BY <1>1, <1>8, <1>9

(* list has each element of S once, in the order of the keys.              *)
ListsInOrder(list, S, key) ==
  /\ Cardinality(S) \in Nat /\ list \in [1 .. Cardinality(S) -> S]
  /\ list \in Seq(S) /\ Len(list) = Cardinality(S) /\ Range(list) = S
  /\ \A i, j \in 1 .. Len(list) : i < j <=> Lower(key[list[i]], key[list[j]])
  /\ \A i, j \in 1 .. Len(list) : list[i] = list[j] => i = j

(* key tells the elements of the finite set S apart.                       *)
IsKey(key, S, n) ==
  /\ IsFiniteSet(S) /\ n \in Nat
  /\ key \in [S -> [1 .. n -> Nat]]
  /\ \A x, y \in S : key[x] = key[y] => x = y

LEMMA InOrderLists ==
  ASSUME NEW S, NEW n, NEW key, IsKey(key, S, n), NEW keyed, keyed = {<<key[x], x>> : x \in S}
  PROVE  ListsInOrder(InOrder(keyed), S, key)
<1> DEFINE pair == [x \in S |-> <<key[x], x>>]
<1>1. pair \in Bijection(S, keyed)
  <2>1. pair \in [S -> keyed]
    OBVIOUS
  <2>2. \A x, y \in S : pair[x] = pair[y] => x = y
    OBVIOUS
  <2>3. \A e \in keyed : \E x \in S : pair[x] = e
    OBVIOUS
  <2> HIDE DEF pair
  <2> QED
    BY <2>1, <2>2, <2>3 DEF Bijection, Injection, Surjection, IsInjective
<1>2. IsFiniteSet(keyed) /\ Cardinality(keyed) = Cardinality(S)
  <2> HIDE DEF pair
  <2> QED
    BY <1>1, FS_Bijection DEF IsKey, ExistsBijection
<1>3. AreKeyed(keyed, n)
  <2>1. \A e \in keyed : e[1] \in [1 .. n -> Nat] /\ e[2] \in S /\ e = <<key[e[2]], e[2]>> /\ e[1] = key[e[2]]
    BY DEF IsKey
  <2>2. \A e, f \in keyed : e[1] = f[1] => e = f
    BY <2>1 DEF IsKey
  <2> QED
    BY <1>2, <2>1, <2>2 DEF AreKeyed, IsKey
<1>4. PICK f : ListsKeyed(f, keyed) /\ InOrder(keyed) = [i \in 1 .. Cardinality(keyed) |-> f[i][2]]
  BY ONLY <1>3, InOrderListsKeyed
<1>5. Cardinality(S) \in Nat
  BY FS_CardinalityType DEF IsKey
<1> DEFINE N == Cardinality(S)
           list == InOrder(keyed)
<1>6. \A i \in 1 .. N : f[i] \in keyed /\ list[i] = f[i][2] /\ list[i] \in S /\ f[i][1] = key[list[i]]
                        /\ f[i] = <<key[list[i]], list[i]>>
  BY <1>2, <1>4 DEF ListsKeyed
<1>7. list \in [1 .. N -> S]
  BY <1>2, <1>4, <1>6
<1>8. list \in Seq(S) /\ Len(list) = N
  <2> HIDE DEF list
  <2> QED
    BY <1>5, <1>7
<1>9. \A i, j \in 1 .. N : i < j <=> Lower(key[list[i]], key[list[j]])
  BY <1>2, <1>4, <1>6 DEF ListsKeyed
<1>10. \A i, j \in 1 .. N : list[i] = list[j] => i = j
  <2> SUFFICES ASSUME NEW i \in 1 .. N, NEW j \in 1 .. N, list[i] = list[j]  PROVE i = j
    OBVIOUS
  <2>1. f[i] = f[j]
    BY <1>6
  <2> QED
    BY <1>2, <1>4, <2>1 DEF ListsKeyed
<1>11. Range(list) = S
  <2>1. DOMAIN list = 1 .. N
    BY <1>7
  <2>2. \A x \in S : \E i \in 1 .. N : list[i] = x
    <3> SUFFICES ASSUME NEW x \in S  PROVE \E i \in 1 .. N : list[i] = x
      OBVIOUS
    <3>1. <<key[x], x>> \in keyed
      OBVIOUS
    <3>2. PICK i \in 1 .. N : f[i] = <<key[x], x>>
      BY <1>2, <1>4, <3>1 DEF ListsKeyed
    <3>3. list[i] = x
      BY <1>6, <3>2
    <3> QED
      BY <3>3
  <2> HIDE DEF list
  <2> QED
    BY <1>7, <2>1, <2>2 DEF Range
<1>12. N = Len(list) /\ 1 .. N = 1 .. Len(list)
  BY <1>8
<1>13. ListsInOrder(list, S, key)
  <2> HIDE DEF list
  <2> QED
    BY <1>5, <1>7, <1>8, <1>9, <1>10, <1>11, <1>12 DEF ListsInOrder
<1> QED
  BY <1>13

(* The first of a sequence.                                                *)
LEMMA LeadingIsFirst ==
  ASSUME NEW S, NEW s \in Seq(S), NEW n \in Nat
  PROVE  /\ Leading(n, s) \in Seq(S) /\ Len(s) \in Nat /\ Len(Leading(n, s)) = Lesser(n, Len(s))
         /\ \A i \in 1 .. Lesser(n, Len(s)) : Leading(n, s)[i] = s[i]
         /\ Range(Leading(n, s)) \subseteq Range(s) /\ Range(s) \subseteq S
         /\ Len(s) <= n => Leading(n, s) = s
<1> DEFINE m == Lesser(n, Len(s))
           first == SubSeq(s, 1, m)
<1>1. Len(s) \in Nat /\ m \in 0 .. Len(s) /\ (Len(s) <= n => m = Len(s))
  BY DEF Lesser
<1> HIDE DEF m
<1>2. first \in Seq(S) /\ Len(first) = m /\ \A i \in 1 .. m : first[i] = s[i]
  BY <1>1
<1>3. Range(first) \subseteq Range(s) /\ Range(s) \subseteq S
  <2>1. DOMAIN first = 1 .. m /\ DOMAIN s = 1 .. Len(s)
    BY <1>1, <1>2
  <2> HIDE DEF first
  <2>2. \A i \in DOMAIN first : i \in DOMAIN s /\ first[i] = s[i]
    <3> SUFFICES ASSUME NEW i \in DOMAIN first  PROVE i \in DOMAIN s /\ first[i] = s[i]
      OBVIOUS
    <3>1. i \in 1 .. m
      BY <2>1
    <3>2. i \in 1 .. Len(s)
      BY <1>1, <3>1
    <3> QED
      BY <1>2, <2>1, <3>1, <3>2
  <2>3. \A i \in DOMAIN s : s[i] \in S
    BY <2>1
  <2> QED
    BY <2>2, <2>3 DEF Range
<1>4. m = Len(s) => first = s
  BY <1>1
<1>5. Leading(n, s) = first
  BY DEF Leading, m
<1> HIDE DEF first
<1> QED
  BY <1>1, <1>2, <1>3, <1>4, <1>5 DEF m

-----------------------------------------------------------------------------
(* How similar two texts are *)

Shares == 0 .. 1000
Similarities == [body : Shares, shingles : Shares, callees : Shares, size : Shares, total : Shares]

(* A part of a whole, in thousandths.                                      *)
LEMMA PartIsShare ==
  ASSUME NEW part \in Nat, NEW whole \in Nat, part <= whole, whole # 0
  PROVE  (part * 1000) \div whole \in Shares
<1> DEFINE q == (part * 1000) \div whole
<1>1. q \in Nat /\ q * whole <= part * 1000
  OBVIOUS
<1> HIDE DEF q
<1>2. ~(q > 1000)
  <2> SUFFICES ASSUME q > 1000 PROVE FALSE
    OBVIOUS
  <2>1. q * whole >= 1001 * whole
    BY <1>1
  <2> QED
    BY <1>1, <2>1
<1> QED
  BY <1>1, <1>2 DEF Shares, q

(* Jaccard says how much two sets have in common.                          *)
LEMMA JaccardIsShare ==
  ASSUME NEW a, NEW b, IsFiniteSet(a), IsFiniteSet(b)
  PROVE  /\ Jaccard(a, b) \in Shares
         /\ Jaccard(a, b) = Jaccard(b, a)
         /\ Jaccard(a, b) > 0 => a \cap b # {}
<1>1. a \cup b = b \cup a /\ a \cap b = b \cap a
  OBVIOUS
<1>2. Jaccard(a, b) = Jaccard(b, a)
  <2> DEFINE Of(u, v) == IF u = {} THEN 0 ELSE (Cardinality(v) * 1000) \div Cardinality(u)
  <2>1. Jaccard(a, b) = Of(a \cup b, a \cap b) /\ Jaccard(b, a) = Of(b \cup a, b \cap a)
    BY DEF Jaccard
  <2> HIDE DEF Of
  <2> QED
    BY <1>1, <2>1
<1>3. CASE a \cup b = {}
  BY <1>2, <1>3 DEF Jaccard, Shares
<1>4. CASE a \cup b # {}
  <2>1. IsFiniteSet(a \cup b) /\ a \cap b \in SUBSET (a \cup b)
    BY FS_Union
  <2>2. /\ Cardinality(a \cup b) \in Nat /\ Cardinality(a \cap b) \in Nat /\ Cardinality(a \cup b) # 0
        /\ Cardinality(a \cap b) <= Cardinality(a \cup b)
    BY <1>4, <2>1, FS_Subset, FS_CardinalityType, FS_EmptySet
  <2>3. Jaccard(a, b) = (Cardinality(a \cap b) * 1000) \div Cardinality(a \cup b)
    BY <1>4 DEF Jaccard
  <2>4. Jaccard(a, b) \in Shares
    BY <2>2, <2>3, PartIsShare
  <2>5. ASSUME a \cap b = {} PROVE Jaccard(a, b) = 0
    <3>1. Cardinality(a \cap b) = 0
      BY <2>5, FS_EmptySet
    <3> QED
      BY <2>2, <2>3, <3>1
  <2> QED
    BY <1>2, <2>4, <2>5
<1> QED
  BY <1>3, <1>4

LEMMA WeightedIsShare ==
  ASSUME NEW a \in Shares, NEW b \in Shares, NEW c \in Shares, NEW d \in Shares
  PROVE  Weighted(a, b, c, d) \in Shares
<1> DEFINE sum == a * 35 + b * 35 + c * 20 + d * 10
<1>1. sum \in Nat /\ sum <= 100000
  BY DEF Shares
<1> HIDE DEF sum
<1>2. sum \div 100 \in Shares
  BY <1>1 DEF Shares
<1> QED
  BY <1>2 DEF Weighted, sum

IsPrint(print) == IsFiniteSet(print.tokens) /\ IsFiniteSet(print.shingles) /\ print.size \in Nat

LEMMA FingerprintIsPrint ==
  ASSUME NEW text, IsFiniteSet(DOMAIN text)
  PROVE  IsPrint(Fingerprint(text))
<1> DEFINE kept == {i \in DOMAIN text : text[i].kind # "comment"}
           keyed == {<<<<i>>, i>> : i \in kept}
           tokens == NormalizedTokens(text)
           N == Cardinality(keyed)
           places == InOrder(keyed)
<1>1. IsFiniteSet(keyed) /\ N \in Nat
  <2>1. IsFiniteSet(kept)
    BY FS_Subset
  <2> DEFINE pair == [i \in kept |-> <<<<i>>, i>>]
  <2>2. {pair[i] : i \in kept} = keyed
    OBVIOUS
  <2>3. IsFiniteSet({pair[i] : i \in kept})
    <3> HIDE DEF pair, kept
    <3> QED
      BY <2>1, ImageIsFinite
  <2> QED
    BY <2>2, <2>3, FS_CardinalityType
<1>2. DOMAIN places = 1 .. N
  BY DEF InOrder
<1>3. tokens = [i \in DOMAIN places |-> Normal(text[places[i]])]
  BY DEF NormalizedTokens
<1> HIDE DEF tokens, places, N, keyed, kept
<1>4. tokens \in [1 .. N -> {tokens[i] : i \in 1 .. N}]
  BY <1>2, <1>3
<1>5. Len(tokens) \in Nat /\ DOMAIN tokens = 1 .. N
  BY <1>1, <1>4
<1>6. IsFiniteSet(Range(tokens))
  <2>1. IsFiniteSet({tokens[i] : i \in 1 .. N})
    <3>1. IsFiniteSet(1 .. N)
      <4>1. 1 \in Int /\ N \in Int
        BY <1>1
      <4> QED
        BY <4>1, FS_Interval
    <3> QED
      BY <3>1, ImageIsFinite
  <2>2. Range(tokens) = {tokens[i] : i \in 1 .. N}
    BY <1>5 DEF Range
  <2> QED
    BY <2>1, <2>2
<1>7. IsFiniteSet({SubSeq(tokens, i, i + Width - 1) : i \in 1 .. Len(tokens) - Width + 1})
  <2> DEFINE places2 == 1 .. Len(tokens) - Width + 1
             shingle == [i \in places2 |-> SubSeq(tokens, i, i + Width - 1)]
  <2>1. IsFiniteSet(places2)
    <3>1. 1 \in Int /\ Len(tokens) - Width + 1 \in Int
      BY <1>5, LimitsAssumption
    <3> QED
      BY <3>1, FS_Interval
  <2> HIDE DEF places2
  <2>2. {shingle[i] : i \in places2} = {SubSeq(tokens, i, i + Width - 1) : i \in places2}
    OBVIOUS
  <2>3. IsFiniteSet({shingle[i] : i \in places2})
    <3> HIDE DEF shingle
    <3> QED
      BY <2>1, ImageIsFinite
  <2> QED
    BY <2>2, <2>3 DEF places2
<1>8. /\ Fingerprint(text).tokens = Range(tokens) /\ Fingerprint(text).size = Len(tokens)
      /\ Fingerprint(text).shingles = {SubSeq(tokens, i, i + Width - 1) : i \in 1 .. Len(tokens) - Width + 1}
  BY DEF Fingerprint, tokens
<1> QED
  BY <1>5, <1>6, <1>7, <1>8 DEF IsPrint

(* It does not matter which of two texts is the left one.                  *)
LEMMA BasisIsOfBoth ==
  ASSUME NEW left, NEW right, IsPrint(left), IsPrint(right)
  PROVE  /\ Basis(left, right) \in Similarities
         /\ Basis(left, right) = Basis(right, left)
         /\ Basis(left, right).shingles > 0 => left.shingles \cap right.shingles # {}
<1> DEFINE largest == Greater(left.size, right.size)
           smallest == Lesser(left.size, right.size)
           size == IF largest = 0 THEN 0 ELSE (smallest * 1000) \div largest
           body == Jaccard(left.tokens, right.tokens)
           shingles == Jaccard(left.shingles, right.shingles)
<1>1. largest = Greater(right.size, left.size) /\ smallest = Lesser(right.size, left.size)
      /\ largest \in Nat /\ smallest \in Nat /\ smallest <= largest
  BY DEF Greater, Lesser, IsPrint
<1>2. size \in Shares
  <2>1. largest # 0 => (smallest * 1000) \div largest \in Shares
    <3> HIDE DEF largest, smallest
    <3> QED
      BY <1>1, PartIsShare
  <2>2. 0 \in Shares
    BY DEF Shares
  <2> HIDE DEF largest, smallest
  <2> QED
    BY <2>1, <2>2
<1>3. /\ body \in Shares /\ body = Jaccard(right.tokens, left.tokens)
      /\ shingles \in Shares /\ shingles = Jaccard(right.shingles, left.shingles)
      /\ shingles > 0 => left.shingles \cap right.shingles # {}
  BY JaccardIsShare DEF IsPrint
<1> DEFINE score == [body |-> body, shingles |-> shingles, callees |-> 0, size |-> size,
                     total |-> Weighted(body, shingles, 0, size)]
<1>4. Basis(left, right) = score
  BY DEF Basis
<1>5. Basis(right, left) = score
  BY <1>1, <1>3 DEF Basis
<1> HIDE DEF body, shingles, size, largest, smallest
<1>6. score \in Similarities
  <2>1. 0 \in Shares
    BY DEF Shares
  <2>2. Weighted(body, shingles, 0, size) \in Shares
    BY <1>2, <1>3, <2>1, WeightedIsShare
  <2> QED
    BY <1>2, <1>3, <2>1, <2>2 DEF Similarities
<1>7. score.shingles = shingles
  OBVIOUS
<1> HIDE DEF score
<1> QED
  BY <1>3, <1>4, <1>5, <1>6, <1>7

LEMMA RelationsAreFinite ==
  ASSUME NEW arcs, IsFiniteSet(arcs), NEW node
  PROVE  IsFiniteSet(Outgoing(arcs, node))
<1> DEFINE S == {a \in arcs : a.source = node}
           end == [a \in S |-> <<a.kind, a.target>>]
<1>1. IsFiniteSet(S)
  BY FS_Subset
<1> HIDE DEF S
<1>2. {end[a] : a \in S} = {<<a.kind, a.target>> : a \in S}
  OBVIOUS
<1>3. IsFiniteSet({end[a] : a \in S})
  <2> HIDE DEF end
  <2> QED
    BY <1>1, ImageIsFinite
<1> QED
  BY <1>2, <1>3 DEF Outgoing, S

(* Nor for the relations that they share.                                  *)
LEMMA ScorePairIsOfBoth ==
  ASSUME NEW basis \in Similarities, NEW x, NEW y, NEW arcs, IsFiniteSet(arcs)
  PROVE  /\ ScorePair(basis, x, y, arcs) \in Similarities
         /\ ScorePair(basis, x, y, arcs) = ScorePair(basis, y, x, arcs)
         /\ ScorePair(basis, x, y, arcs).shingles = basis.shingles
<1>1. \A node : IsFiniteSet(Outgoing(arcs, node))
  BY RelationsAreFinite
<1> DEFINE callees == Jaccard(Outgoing(arcs, x), Outgoing(arcs, y))
<1>2. callees \in Shares /\ callees = Jaccard(Outgoing(arcs, y), Outgoing(arcs, x))
  BY <1>1, JaccardIsShare
<1> DEFINE score == [basis EXCEPT !.callees = callees,
                                  !.total = Weighted(basis.body, basis.shingles, callees, basis.size)]
<1>3. ScorePair(basis, x, y, arcs) = score
  BY DEF ScorePair
<1>4. ScorePair(basis, y, x, arcs) = score
  BY <1>2 DEF ScorePair
<1> HIDE DEF callees
<1>5. Weighted(basis.body, basis.shingles, callees, basis.size) \in Shares
  BY <1>2, WeightedIsShare DEF Similarities
<1>6. score \in Similarities /\ score.shingles = basis.shingles
  BY <1>2, <1>5 DEF Similarities
<1> HIDE DEF score
<1> QED
  BY <1>3, <1>4, <1>6

-----------------------------------------------------------------------------
(* The first documents *)

Place(d) == <<d.path, d.start, d.id>>

AreDocs(docs) ==
  /\ IsFiniteSet(docs)
  /\ \A d \in docs : d.id \in Nat /\ d.path \in Nat /\ d.start \in Nat /\ IsFiniteSet(DOMAIN d.text)
  /\ \A d, e \in docs : d.id = e.id => d = e

LEMMA DocsOfGraph ==
  ASSUME NEW g \in Inputs, NEW docs \in SUBSET g.docs
  PROVE  AreDocs(docs)
<1>1. IsFiniteSet(docs)
  BY IndexedGraphsAssumption, FS_Subset
<1> QED
  BY <1>1, IndexedGraphsAssumption DEF AreDocs

LEMMA PlacesAreKeys ==
  ASSUME NEW docs, AreDocs(docs)
  PROVE  /\ IsKey([d \in docs |-> Place(d)], docs, 3)
         /\ \A d \in docs : Place(d) \in [1 .. 3 -> Nat]
<1>1. ASSUME NEW d \in docs PROVE Place(d) \in [1 .. 3 -> Nat] /\ Place(d)[3] = d.id
  BY DEF AreDocs, Place
<1>2. \A d, e \in docs : Place(d) = Place(e) => d = e
  BY <1>1 DEF AreDocs
<1> QED
  BY <1>1, <1>2 DEF IsKey, AreDocs

(* The first documents of a set in the order of their places.              *)
First(docs, n) == Range(Leading(n, SortedDocs(docs)))

LEMMA SortedDocsLists ==
  ASSUME NEW docs, AreDocs(docs)
  PROVE  ListsInOrder(SortedDocs(docs), docs, [d \in docs |-> Place(d)])
<1> DEFINE key == [d \in docs |-> Place(d)]
           keyed == {<<<<d.path, d.start, d.id>>, d>> : d \in docs}
<1>1. keyed = {<<key[d], d>> : d \in docs}
  BY DEF Place
<1>2. IsKey(key, docs, 3)
  BY PlacesAreKeys
<1>3. SortedDocs(docs) = InOrder(keyed)
  BY DEF SortedDocs
<1> HIDE DEF key, keyed
<1>4. ListsInOrder(InOrder(keyed), docs, key)
  BY <1>1, <1>2, InOrderLists
<1> QED
  BY <1>3, <1>4 DEF key

LEMMA PartOfDocs ==
  ASSUME NEW docs, AreDocs(docs), NEW part \in SUBSET docs
  PROVE  AreDocs(part)
BY FS_Subset DEF AreDocs

LEMMA FirstAreDocs ==
  ASSUME NEW docs, AreDocs(docs), NEW n \in Nat
  PROVE  /\ Cardinality(docs) \in Nat
         /\ First(docs, n) \subseteq docs /\ AreDocs(First(docs, n))
         /\ Cardinality(docs) <= n => First(docs, n) = docs
<1> DEFINE s == SortedDocs(docs)
<1>1. ListsInOrder(s, docs, [d \in docs |-> Place(d)])
  BY SortedDocsLists
<1> HIDE DEF s
<1>2. s \in Seq(docs) /\ Len(s) = Cardinality(docs) /\ Range(s) = docs /\ Cardinality(docs) \in Nat
  BY <1>1 DEF ListsInOrder
<1>3. Range(Leading(n, s)) \subseteq docs /\ (Cardinality(docs) <= n => Leading(n, s) = s)
  BY <1>2, LeadingIsFirst
<1>4. First(docs, n) = Range(Leading(n, s))
  BY DEF First, s
<1> QED
  BY <1>2, <1>3, <1>4, PartOfDocs

(* at numbers the documents in their order.                                *)
Numbers(at, docs) ==
  /\ at \in [docs -> Nat]
  /\ \A x, y \in docs : at[x] < at[y] <=> Lower(Place(x), Place(y))
  /\ \A x, y \in docs : at[x] = at[y] => x = y

Picked(docs, at) ==
  {[at |-> at[d], id |-> d.id, lang |-> d.lang, print |-> Fingerprint(d.text)] : d \in docs}

(* What is selected are the first documents, numbered.                     *)
LEMMA SelectionIsPicked ==
  ASSUME NEW docs, AreDocs(docs), NEW n \in Nat
  PROVE  \E at : Numbers(at, First(docs, n)) /\ Selection(docs, n) = Picked(First(docs, n), at)
<1> DEFINE s == SortedDocs(docs)
           m == Lesser(n, Len(s))
           lead == Leading(n, s)
           D == First(docs, n)
           at == [d \in D |-> CHOOSE i \in 1 .. m : lead[i] = d]
<1>1. ListsInOrder(s, docs, [d \in docs |-> Place(d)])
  BY SortedDocsLists
<1>2. s \in Seq(docs) /\ Len(s) \in Nat /\ m \in 0 .. Len(s)
  <2> HIDE DEF s
  <2>1. s \in Seq(docs) /\ Len(s) \in Nat
    BY <1>1 DEF ListsInOrder
  <2> QED
    BY <2>1 DEF Lesser
<1>3. D \subseteq docs
  BY FirstAreDocs
<1>4. lead \in Seq(docs) /\ Len(lead) = m /\ \A i \in 1 .. m : lead[i] = s[i]
  <2> HIDE DEF s
  <2> QED
    BY <1>2, LeadingIsFirst
<1>5. D = Range(lead) /\ DOMAIN lead = 1 .. m
  <2>1. D = Range(lead)
    BY DEF First
  <2> HIDE DEF s, m, lead, D
  <2> QED
    BY <1>2, <1>4, <2>1
<1> HIDE DEF s, m, lead, D
<1>6. \A d \in D : \E i \in 1 .. m : lead[i] = d
  BY <1>5 DEF Range
<1>7. \A i \in 1 .. m : lead[i] \in D /\ i \in 1 .. Len(s) /\ i \in Nat
  <2>1. m \in Nat /\ m <= Len(s)
    BY <1>2
  <2>2. \A i \in 1 .. m : i \in 1 .. Len(s) /\ i \in Nat
    BY <1>2, <2>1
  <2>3. \A i \in 1 .. m : lead[i] \in D
    BY <1>5 DEF Range
  <2> QED
    BY <2>2, <2>3
<1>8. \A i, j \in 1 .. m : /\ i < j <=> Lower(Place(lead[i]), Place(lead[j]))
                           /\ lead[i] = lead[j] => i = j
  <2> SUFFICES ASSUME NEW i \in 1 .. m, NEW j \in 1 .. m
               PROVE  /\ i < j <=> Lower(Place(lead[i]), Place(lead[j]))
                      /\ lead[i] = lead[j] => i = j
    OBVIOUS
  <2>1. lead[i] = s[i] /\ lead[j] = s[j] /\ lead[i] \in docs /\ lead[j] \in docs
    BY <1>3, <1>4, <1>7
  <2> QED
    BY <1>1, <1>7, <2>1 DEF ListsInOrder
<1>9. \A d \in D : at[d] \in 1 .. m /\ lead[at[d]] = d /\ at[d] \in Nat
  BY <1>6, <1>7
<1>10. \A i \in 1 .. m : at[lead[i]] = i
  BY <1>7, <1>8, <1>9
<1>11. Numbers(at, D)
  <2>1. at \in [D -> Nat]
    BY <1>9
  <2> HIDE DEF at
  <2> QED
    BY <1>8, <1>9, <2>1 DEF Numbers
<1> HIDE DEF at
<1>12. Selection(docs, n) = Picked(D, at)
  <2> DEFINE Of(d, i) == [at |-> i, id |-> d.id, lang |-> d.lang, print |-> Fingerprint(d.text)]
  <2>1. Selection(docs, n) = {Of(lead[i], i) : i \in 1 .. m}
    BY <1>5 DEF Selection, lead, s
  <2>2. Picked(D, at) = {Of(d, at[d]) : d \in D}
    BY DEF Picked
  <2> HIDE DEF Of
  <2>3. \A i \in 1 .. m : Of(lead[i], i) = Of(lead[i], at[lead[i]]) /\ lead[i] \in D
    BY <1>7, <1>10
  <2>4. \A d \in D : Of(d, at[d]) = Of(lead[at[d]], at[d]) /\ at[d] \in 1 .. m
    BY <1>9
  <2> QED
    BY <2>1, <2>2, <2>3, <2>4
<1> QED
  BY <1>11, <1>12 DEF D

-----------------------------------------------------------------------------
(* Pairs of documents with a key in common *)

(* Members of buckets, numbered.                                           *)
AreMembers(members) ==
  /\ IsFiniteSet(members)
  /\ \A x \in members : x.at \in Nat
  /\ \A x, y \in members : x.at = y.at => x = y

LEMMA SharedAreFinite ==
  ASSUME NEW members, AreMembers(members)
  PROVE  IsFiniteSet(SharedPairs(members))
<1>1. IsFiniteSet(members \X members)
  BY FS_Product DEF AreMembers
<1>2. SharedPairs(members) \in SUBSET (members \X members)
  BY DEF SharedPairs
<1> QED
  BY <1>1, <1>2, FS_Subset

LEMMA RarityIsNumber ==
  ASSUME NEW members, AreMembers(members), NEW p \in SharedPairs(members)
  PROVE  Rarity(members, p) \in Nat
<1> DEFINE of(key) == {m \in members : m.lang = p[1].lang /\ key \in m.keys}
           sizes == {Cardinality(of(key)) : key \in p[1].keys \cap p[2].keys}
<1>1. sizes # {}
  BY DEF SharedPairs
<1>2. sizes \in SUBSET Nat
  <2>1. \A key : IsFiniteSet(of(key))
    BY FS_Subset DEF AreMembers
  <2> HIDE DEF of
  <2> QED
    BY <2>1, FS_CardinalityType
<1>3. Rarity(members, p) = CHOOSE n \in sizes : \A k \in sizes : n <= k
  BY DEF Rarity
<1> HIDE DEF sizes
<1>4. \E n \in sizes : \A k \in sizes : n <= k
  BY ONLY <1>1, <1>2, LeastExists
<1> QED
  BY <1>2, <1>3, <1>4

(* A budget takes pairs from those that share a bucket, all that fit.      *)
LEMMA RarestAreShared ==
  ASSUME NEW members, AreMembers(members), NEW limit \in Nat
  PROVE  /\ Cardinality(SharedPairs(members)) \in Nat
         /\ Rarest(members, limit) \subseteq SharedPairs(members)
         /\ Cardinality(SharedPairs(members)) <= limit => Rarest(members, limit) = SharedPairs(members)
<1> DEFINE S == SharedPairs(members)
           key == [p \in S |-> <<Rarity(members, p), p[1].at, p[2].at>>]
           keyed == {<<<<Rarity(members, p), p[1].at, p[2].at>>, p>> : p \in S}
           s == InOrder(keyed)
<1>1. IsKey(key, S, 3)
  <2>1. \A p \in S : Rarity(members, p) \in Nat
    BY RarityIsNumber
  <2>2. \A p \in S : /\ p[1] \in members /\ p[2] \in members /\ p = <<p[1], p[2]>>
                     /\ p[1].at \in Nat /\ p[2].at \in Nat
    BY DEF SharedPairs, AreMembers
  <2>3. \A p, q \in S : p[1].at = q[1].at /\ p[2].at = q[2].at => p = q
    <3> SUFFICES ASSUME NEW p \in S, NEW q \in S, p[1].at = q[1].at, p[2].at = q[2].at  PROVE p = q
      OBVIOUS
    <3>1. p[1] = q[1] /\ p[2] = q[2]
      BY <2>2 DEF AreMembers
    <3> QED
      BY <2>2, <3>1
  <2>4. IsFiniteSet(S)
    BY SharedAreFinite
  <2> HIDE DEF S
  <2>5. key \in [S -> [1 .. 3 -> Nat]]
    BY <2>1, <2>2
  <2>6. \A p, q \in S : key[p] = key[q] => p = q
    BY <2>3
  <2> QED
    BY <2>4, <2>5, <2>6 DEF IsKey
<1>2. keyed = {<<key[p], p>> : p \in S}
  OBVIOUS
<1> HIDE DEF keyed, key, S
<1>3. ListsInOrder(s, S, key)
  BY <1>1, <1>2, InOrderLists
<1>4. Rarest(members, limit) = Range(Leading(limit, s))
  BY DEF Rarest, keyed, S
<1> HIDE DEF s
<1>5. s \in Seq(S) /\ Len(s) = Cardinality(S) /\ Range(s) = S /\ Cardinality(S) \in Nat
  BY <1>3 DEF ListsInOrder
<1>6. Range(Leading(limit, s)) \subseteq S /\ (Cardinality(S) <= limit => Leading(limit, s) = s)
  BY <1>5, LeadingIsFirst
<1> QED
  BY <1>4, <1>5, <1>6 DEF S

(* The pairs of documents that have a key in common, and their bases.      *)
PairsBy(docs, keysOf) ==
  {q \in docs \X docs : /\ Lower(Place(q[1]), Place(q[2])) /\ q[1].lang = q[2].lang
                        /\ keysOf[q[1]] \cap keysOf[q[2]] # {}}

BasisOf(x, y) ==
  [left |-> x.id, right |-> y.id, basis |-> Basis(Fingerprint(x.text), Fingerprint(y.text))]

BasesOf(docs, keysOf) == {BasisOf(q[1], q[2]) : q \in PairsBy(docs, keysOf)}

Membership(docs, at, keysOf) ==
  {[at |-> at[d], id |-> d.id, lang |-> d.lang, print |-> Fingerprint(d.text), keys |-> keysOf[d]] : d \in docs}

LEMMA BasesOfMembers ==
  ASSUME NEW docs, AreDocs(docs), NEW at, Numbers(at, docs), NEW keysOf
  PROVE  LET members == Membership(docs, at, keysOf) IN
         AreMembers(members) /\ Bases(SharedPairs(members)) = BasesOf(docs, keysOf)
<1> DEFINE member == [d \in docs |-> [at |-> at[d], id |-> d.id, lang |-> d.lang,
                                      print |-> Fingerprint(d.text), keys |-> keysOf[d]]]
           members == Membership(docs, at, keysOf)
<1>1. members = {member[d] : d \in docs}
  BY DEF Membership
<1>2. \A d \in docs : /\ member[d].at = at[d] /\ member[d].id = d.id /\ member[d].lang = d.lang
                      /\ member[d].print = Fingerprint(d.text) /\ member[d].keys = keysOf[d]
  OBVIOUS
<1> HIDE DEF member, members
<1>3. AreMembers(members)
  <2>1. IsFiniteSet(members)
    BY <1>1, ImageIsFinite DEF AreDocs
  <2>2. \A d \in docs : member[d].at \in Nat
    BY <1>2 DEF Numbers
  <2>3. \A d, e \in docs : member[d].at = member[e].at => d = e
    BY <1>2 DEF Numbers
  <2> QED
    BY <1>1, <2>1, <2>2, <2>3 DEF AreMembers
<1>4. \A x, y \in docs : <<member[x], member[y]>> \in SharedPairs(members) <=> <<x, y>> \in PairsBy(docs, keysOf)
  <2> SUFFICES ASSUME NEW x \in docs, NEW y \in docs
               PROVE  <<member[x], member[y]>> \in SharedPairs(members) <=> <<x, y>> \in PairsBy(docs, keysOf)
    OBVIOUS
  <2>1. member[x] \in members /\ member[y] \in members
    BY <1>1
  <2>2. at[x] < at[y] <=> Lower(Place(x), Place(y))
    BY DEF Numbers
  <2>3. <<member[x], member[y]>> \in SharedPairs(members) <=>
          member[x].at < member[y].at /\ member[x].lang = member[y].lang /\ member[x].keys \cap member[y].keys # {}
    BY <2>1 DEF SharedPairs
  <2>4. <<x, y>> \in PairsBy(docs, keysOf) <=>
          Lower(Place(x), Place(y)) /\ x.lang = y.lang /\ keysOf[x] \cap keysOf[y] # {}
    BY DEF PairsBy
  <2> QED
    BY <1>2, <2>2, <2>3, <2>4
<1>5. \A x, y \in docs : BasisOf(x, y) = [left |-> member[x].id, right |-> member[y].id,
                                          basis |-> Basis(member[x].print, member[y].print)]
  BY <1>2 DEF BasisOf
<1>6. ASSUME NEW b \in Bases(SharedPairs(members)) PROVE b \in BasesOf(docs, keysOf)
  <2>1. PICK p \in SharedPairs(members) :
          b = [left |-> p[1].id, right |-> p[2].id, basis |-> Basis(p[1].print, p[2].print)]
    BY <1>6 DEF Bases
  <2>2. p \in members \X members
    BY DEF SharedPairs
  <2>3. PICK x \in docs, y \in docs : p = <<member[x], member[y]>>
    BY <1>1, <2>2
  <2>4. b = BasisOf(x, y) /\ <<x, y>> \in PairsBy(docs, keysOf)
    BY <1>4, <1>5, <2>1, <2>3
  <2> QED
    BY <2>4 DEF BasesOf
<1>7. ASSUME NEW b \in BasesOf(docs, keysOf) PROVE b \in Bases(SharedPairs(members))
  <2>1. PICK q \in PairsBy(docs, keysOf) : b = BasisOf(q[1], q[2])
    BY DEF BasesOf
  <2>2. q \in docs \X docs
    BY DEF PairsBy
  <2>3. PICK x \in docs, y \in docs : q = <<x, y>>
    BY <2>2
  <2>4. <<member[x], member[y]>> \in SharedPairs(members)
    BY <1>4, <2>3
  <2>5. b = [left |-> member[x].id, right |-> member[y].id, basis |-> Basis(member[x].print, member[y].print)]
    BY <1>5, <2>1, <2>3
  <2> QED
    BY <2>4, <2>5 DEF Bases
<1> QED
  BY <1>3, <1>6, <1>7 DEF members

(* The pairs within a part of the documents are those that join its ids.   *)
LEMMA BasesWithin ==
  ASSUME NEW docs, AreDocs(docs), NEW part \in SUBSET docs, NEW keysOf, NEW keysOfPart,
         \A d \in part : keysOfPart[d] = keysOf[d]
  PROVE  BasesOf(part, keysOfPart) =
           {p \in BasesOf(docs, keysOf) : {p.left, p.right} \subseteq {d.id : d \in part}}
<1>1. \A x, y \in docs : BasisOf(x, y).left = x.id /\ BasisOf(x, y).right = y.id
  BY DEF BasisOf
<1>2. \A x \in docs : x.id \in {d.id : d \in part} => x \in part
  BY DEF AreDocs
<1>3. \A x, y \in part : <<x, y>> \in PairsBy(part, keysOfPart) <=> <<x, y>> \in PairsBy(docs, keysOf)
  BY DEF PairsBy
<1>4. ASSUME NEW b \in BasesOf(part, keysOfPart)
      PROVE  b \in BasesOf(docs, keysOf) /\ {b.left, b.right} \subseteq {d.id : d \in part}
  <2>1. PICK q \in PairsBy(part, keysOfPart) : b = BasisOf(q[1], q[2])
    BY DEF BasesOf
  <2>2. PICK x \in part, y \in part : q = <<x, y>>
    BY DEF PairsBy
  <2>3. <<x, y>> \in PairsBy(docs, keysOf) /\ b = BasisOf(x, y)
    BY <1>3, <2>1, <2>2
  <2>4. b \in BasesOf(docs, keysOf)
    BY <2>3 DEF BasesOf
  <2> QED
    BY <1>1, <2>3, <2>4
<1>5. ASSUME NEW b \in BasesOf(docs, keysOf), {b.left, b.right} \subseteq {d.id : d \in part}
      PROVE  b \in BasesOf(part, keysOfPart)
  <2>1. PICK q \in PairsBy(docs, keysOf) : b = BasisOf(q[1], q[2])
    BY DEF BasesOf
  <2>2. PICK x \in docs, y \in docs : q = <<x, y>>
    BY DEF PairsBy
  <2>3. x \in part /\ y \in part
    BY <1>1, <1>2, <1>5, <2>1, <2>2
  <2>4. <<x, y>> \in PairsBy(part, keysOfPart) /\ b = BasisOf(x, y)
    BY <1>3, <2>1, <2>2, <2>3
  <2> QED
    BY <2>4 DEF BasesOf
<1> QED
  BY <1>4, <1>5

-----------------------------------------------------------------------------
(* What a scan finds *)

ShinglesOf(docs) == [d \in docs |-> IF Fingerprint(d.text).eligible THEN Fingerprint(d.text).shingles ELSE {}]

(* The pairs of documents with a run of tokens in common.                  *)
TextPairs(docs) == BasesOf(docs, ShinglesOf(docs))

LEMMA TextPairsWithin ==
  ASSUME NEW docs, AreDocs(docs), NEW part \in SUBSET docs
  PROVE  TextPairs(part) = {p \in TextPairs(docs) : {p.left, p.right} \subseteq {d.id : d \in part}}
<1>1. \A d \in part : ShinglesOf(part)[d] = ShinglesOf(docs)[d]
  BY DEF ShinglesOf
<1> QED
  BY <1>1, BasesWithin DEF TextPairs

(* What the pairs of an index or of a direct scan are.                     *)
LEMMA TextPairsAreListed ==
  ASSUME NEW docs, AreDocs(docs), NEW n \in Nat, NEW limit \in Nat
  PROVE  LET buckets == ShingleBuckets(Selection(docs, n))
             close == PairsWithin(buckets, limit)
         IN  /\ Bases(SharedPairs(buckets)) = TextPairs(First(docs, n))
             /\ close.cut \in BOOLEAN
             /\ Bases(close.pairs) \subseteq TextPairs(First(docs, n))
             /\ ~close.cut => Bases(close.pairs) = TextPairs(First(docs, n))
<1> DEFINE D == First(docs, n)
           buckets == ShingleBuckets(Selection(docs, n))
           keysOf == ShinglesOf(D)
<1>1. AreDocs(D)
  BY FirstAreDocs
<1>2. PICK at : Numbers(at, D) /\ Selection(docs, n) = Picked(D, at)
  BY SelectionIsPicked
<1> HIDE DEF D
<1>3. buckets = Membership(D, at, keysOf)
  <2> DEFINE selected(d) == [at |-> at[d], id |-> d.id, lang |-> d.lang, print |-> Fingerprint(d.text)]
             keysIn(m) == IF m.print.eligible THEN m.print.shingles ELSE {}
             memberOf(d) == [at |-> at[d], id |-> d.id, lang |-> d.lang, print |-> Fingerprint(d.text),
                             keys |-> keysOf[d]]
  <2>1. \A d \in D : Member(selected(d), keysIn(selected(d))) = memberOf(d)
    BY DEF Member, ShinglesOf
  <2>2. Selection(docs, n) = {selected(d) : d \in D}
    BY <1>2 DEF Picked
  <2>3. buckets = {Member(m, keysIn(m)) : m \in Selection(docs, n)}
    BY DEF ShingleBuckets
  <2>4. Membership(D, at, keysOf) = {memberOf(d) : d \in D}
    BY DEF Membership
  <2> HIDE DEF selected, keysIn, memberOf, buckets
  <2> QED
    BY <2>1, <2>2, <2>3, <2>4
<1>4. AreMembers(buckets) /\ Bases(SharedPairs(buckets)) = BasesOf(D, keysOf)
  <2> HIDE DEF buckets
  <2> QED
    BY <1>1, <1>2, <1>3, BasesOfMembers
<1> HIDE DEF buckets
<1>5. /\ Cardinality(SharedPairs(buckets)) \in Nat
      /\ Rarest(buckets, limit) \subseteq SharedPairs(buckets)
      /\ Cardinality(SharedPairs(buckets)) <= limit => Rarest(buckets, limit) = SharedPairs(buckets)
  BY <1>4, RarestAreShared
<1> DEFINE close == PairsWithin(buckets, limit)
<1>6. close.pairs = Rarest(buckets, limit) /\ close.cut = (Cardinality(SharedPairs(buckets)) > limit)
  BY DEF PairsWithin
<1> HIDE DEF close
<1>7. Bases(close.pairs) \subseteq Bases(SharedPairs(buckets))
  BY <1>5, <1>6 DEF Bases
<1>8. ASSUME ~close.cut PROVE close.pairs = SharedPairs(buckets)
  <2>1. ~(Cardinality(SharedPairs(buckets)) > limit)
    BY <1>6, <1>8
  <2>2. Cardinality(SharedPairs(buckets)) <= limit
    BY <1>5, <2>1
  <2> QED
    BY <1>5, <1>6, <2>2
<1> QED
  BY <1>4, <1>6, <1>7, <1>8 DEF D, buckets, close, TextPairs

LEMMA RelatedPairsAreListed ==
  ASSUME NEW g, NEW docs, AreDocs(docs), NEW n \in Nat, NEW limit \in Nat
  PROVE  \E keysOf :
           Bases(PairsWithin(FunctionalBuckets(g, Selection(docs, n)), limit).pairs) \subseteq BasesOf(First(docs, n), keysOf)
<1> DEFINE D == First(docs, n)
           shared == {a \in g.arcs : a.kind \in {"CALLS", "IMPLEMENTS"} /\ a.proved /\ a.target \in {d.id : d \in g.docs}}
           buckets == FunctionalBuckets(g, Selection(docs, n))
           keysOf == [d \in D |-> Outgoing(shared, d.id)]
<1>1. AreDocs(D)
  BY FirstAreDocs
<1>2. PICK at : Numbers(at, D) /\ Selection(docs, n) = Picked(D, at)
  BY SelectionIsPicked
<1> HIDE DEF D
<1>3. buckets = Membership(D, at, keysOf)
  <2> DEFINE selected(d) == [at |-> at[d], id |-> d.id, lang |-> d.lang, print |-> Fingerprint(d.text)]
             memberOf(d) == [at |-> at[d], id |-> d.id, lang |-> d.lang, print |-> Fingerprint(d.text),
                             keys |-> keysOf[d]]
  <2>1. buckets = {Member(m, Outgoing(shared, m.id)) : m \in Selection(docs, n)}
    BY DEF FunctionalBuckets
  <2> HIDE DEF shared
  <2>2. \A d \in D : Member(selected(d), Outgoing(shared, selected(d).id)) = memberOf(d)
    BY DEF Member
  <2>3. Selection(docs, n) = {selected(d) : d \in D}
    BY <1>2 DEF Picked
  <2>4. Membership(D, at, keysOf) = {memberOf(d) : d \in D}
    BY DEF Membership
  <2> HIDE DEF selected, memberOf, buckets
  <2> QED
    BY <2>1, <2>2, <2>3, <2>4
<1> HIDE DEF buckets, keysOf
<1>4. AreMembers(buckets) /\ Bases(SharedPairs(buckets)) = BasesOf(D, keysOf)
  BY <1>1, <1>2, <1>3, BasesOfMembers
<1>5. Rarest(buckets, limit) \subseteq SharedPairs(buckets)
  BY <1>4, RarestAreShared
<1>6. Bases(PairsWithin(buckets, limit).pairs) \subseteq Bases(SharedPairs(buckets))
  BY <1>5 DEF Bases, PairsWithin
<1> QED
  BY <1>4, <1>6 DEF D, buckets

LEMMA MorePairsMoreCandidates ==
  ASSUME NEW few, NEW pairs, few \subseteq pairs, NEW arcs, NEW asked
  PROVE  CandidatesOf(few, arcs, asked) \subseteq CandidatesOf(pairs, arcs, asked)
<1> DEFINE Scored(p) == [left |-> p.left, right |-> p.right,
                         similarity |-> ScorePair(p.basis, p.left, p.right, arcs)]
<1>1. \A S : CandidatesOf(S, arcs, asked) = {c \in {Scored(p) : p \in S} : IsCandidate(c.similarity, asked)}
  BY DEF CandidatesOf
<1> HIDE DEF Scored
<1> QED
  BY <1>1

CallableAmong(docs) == {d \in docs : IsCallable(d.lang, d.text)}

LEMMA MeantOfDocs ==
  ASSUME NEW g \in Inputs, NEW asked
  PROVE  LET callable == CallableAmong(Wanted(g, asked)) IN
         /\ callable \in SUBSET g.docs /\ AreDocs(callable) /\ Cardinality(callable) \in Nat
         /\ Meant(g, asked) = CandidatesOf(TextPairs(callable), Definitive(g, asked.scope), asked)
<1> DEFINE callable == CallableAmong(Wanted(g, asked))
           n == Cardinality(callable)
<1>1. callable \in SUBSET g.docs
  BY DEF CallableAmong, Wanted, InScope
<1>2. AreDocs(callable)
  BY <1>1, DocsOfGraph
<1>3. n \in Nat
  BY <1>2, FS_CardinalityType DEF AreDocs
<1>4. callable = {d \in Wanted(g, asked) : IsCallable(d.lang, d.text)}
  BY DEF CallableAmong
<1> HIDE DEF callable
<1>5. First(callable, n) = callable
  BY <1>2, <1>3, FirstAreDocs
<1>6. Bases(SharedPairs(ShingleBuckets(Selection(callable, n)))) = TextPairs(callable)
  BY <1>2, <1>3, <1>5, TextPairsAreListed
<1>7. Meant(g, asked) =
        CandidatesOf(Bases(SharedPairs(ShingleBuckets(Selection(callable, n)))), Definitive(g, asked.scope), asked)
  BY <1>4 DEF Meant
<1> QED
  BY <1>1, <1>2, <1>3, <1>6, <1>7 DEF callable

(* What a scan may find, and when it finds all.                            *)
Finds(scan, meant) ==
  /\ scan.candidates \subseteq meant
  /\ scan.gaps \subseteq BudgetGaps
  /\ scan.gaps = {} => scan.candidates = meant

LEMMA DirectScanFinds ==
  ASSUME NEW g \in Inputs, NEW asked \in RefactorRequests
  PROVE  Finds(ScanDirect(g, asked), Meant(g, asked))
<1> DEFINE selected == CallableAmong(Wanted(g, asked))
           limit == Budget(asked.max_documents, DocumentLimit)
           pairLimit == Budget(asked.max_pairs, PairLimit)
           close == PairsWithin(ShingleBuckets(Selection(selected, limit)), pairLimit)
           arcs == Definitive(g, asked.scope)
           scan == ScanDirect(g, asked)
<1>1. limit \in Nat /\ pairLimit \in Nat
  BY LimitsAssumption, RefactorRequestsAssumption DEF Budget
<1>2. /\ selected \in SUBSET g.docs /\ AreDocs(selected) /\ Cardinality(selected) \in Nat
      /\ Meant(g, asked) = CandidatesOf(TextPairs(selected), arcs, asked)
  BY MeantOfDocs
<1>3. selected = {d \in Wanted(g, asked) : IsCallable(d.lang, d.text)}
  BY DEF CallableAmong
<1>4. /\ scan.candidates = CandidatesOf(Bases(close.pairs), arcs, asked)
      /\ scan.gaps = (IF Cardinality(selected) > limit THEN {"REFACTOR_DOCUMENT_BUDGET"} ELSE {})
                     \cup IF close.cut THEN {"REFACTOR_PAIR_BUDGET"} ELSE {}
  <2> HIDE DEF selected
  <2> QED
    BY <1>3 DEF ScanDirect
<1> HIDE DEF selected, limit, pairLimit, arcs, scan
<1>5. /\ Bases(close.pairs) \subseteq TextPairs(First(selected, limit))
      /\ ~close.cut => Bases(close.pairs) = TextPairs(First(selected, limit))
  BY <1>1, <1>2, TextPairsAreListed
<1>6. /\ First(selected, limit) \in SUBSET selected
      /\ Cardinality(selected) <= limit => First(selected, limit) = selected
  BY <1>1, <1>2, FirstAreDocs
<1>7. TextPairs(First(selected, limit)) \subseteq TextPairs(selected)
  BY <1>2, <1>6, TextPairsWithin
<1> HIDE DEF close
<1>8. scan.candidates \subseteq Meant(g, asked)
  BY <1>2, <1>4, <1>5, <1>7, MorePairsMoreCandidates
<1>9. ASSUME scan.gaps = {} PROVE scan.candidates = Meant(g, asked)
  <2>1. Cardinality(selected) <= limit /\ ~close.cut
    BY <1>1, <1>2, <1>4, <1>9
  <2> QED
    BY <1>2, <1>4, <1>5, <1>6, <2>1
<1>10. scan.gaps \subseteq BudgetGaps
  BY <1>4 DEF BudgetGaps
<1> QED
  BY <1>8, <1>9, <1>10 DEF Finds, scan

(* What an index of g holds.                                               *)
LEMMA IndexHolds ==
  ASSUME NEW g \in Inputs
  PROVE  LET index == SimilarityIndex(g)
             callable == CallableAmong(g.docs)
             first == First(callable, IndexLimit)
         IN  /\ callable \in SUBSET g.docs /\ AreDocs(callable) /\ Cardinality(callable) \in Nat
             /\ first \in SUBSET callable
             /\ ~index.documents_truncated => first = callable
             /\ index.documents = {d.id : d \in first}
             /\ index.pairs \subseteq TextPairs(first)
             /\ ~index.pairs_truncated => index.pairs = TextPairs(first)
             /\ \E keysOf : index.functional \subseteq BasesOf(first, keysOf)
             /\ index.groups =
                  LET group == [f \in {d.meaning : d \in g.docs} |-> {d.id : d \in {d \in g.docs : d.meaning = f}}] IN
                  [f \in {f \in DOMAIN group : f # None /\ Cardinality(group[f]) > 1} |-> group[f]]
<1> DEFINE index == SimilarityIndex(g)
           callable == CallableAmong(g.docs)
           first == First(callable, IndexLimit)
           docs == Selection(callable, IndexLimit)
           close == PairsWithin(ShingleBuckets(docs), PairLimit)
           alike == PairsWithin(FunctionalBuckets(g, docs), FunctionalLimit)
<1>1. callable \in SUBSET g.docs /\ callable = {d \in g.docs : IsCallable(d.lang, d.text)}
  BY DEF CallableAmong
<1> HIDE DEF callable
<1>2. AreDocs(callable)
  BY <1>1, DocsOfGraph
<1>3. Cardinality(callable) \in Nat
  BY <1>2, FS_CardinalityType DEF AreDocs
<1>4. index = Index(g, callable, docs, close, alike)
  BY <1>1 DEF SimilarityIndex, IndexOfCallable, IndexAmong
<1>5. /\ index.documents = {d.id : d \in docs}
      /\ index.documents_truncated = (Cardinality(callable) > IndexLimit)
      /\ index.pairs = Bases(close.pairs) /\ index.pairs_truncated = close.cut
      /\ index.functional = Bases(alike.pairs)
      /\ index.groups =
           LET group == [f \in {d.meaning : d \in g.docs} |-> {d.id : d \in {d \in g.docs : d.meaning = f}}] IN
           [f \in {f \in DOMAIN group : f # None /\ Cardinality(group[f]) > 1} |-> group[f]]
  <2> HIDE DEF index, docs, close, alike
  <2> QED
    BY <1>4 DEF Index
<1>6. {IndexLimit, PairLimit, FunctionalLimit} \subseteq Nat
  BY LimitsAssumption
<1>7. first \subseteq callable /\ (Cardinality(callable) <= IndexLimit => first = callable)
  BY <1>2, <1>6, FirstAreDocs
<1>8. {d.id : d \in docs} = {d.id : d \in first}
  <2>1. PICK at : Numbers(at, first) /\ docs = Picked(first, at)
    BY <1>2, <1>6, SelectionIsPicked
  <2> HIDE DEF first, docs
  <2> DEFINE selected(d) == [at |-> at[d], id |-> d.id, lang |-> d.lang, print |-> Fingerprint(d.text)]
  <2>2. docs = {selected(d) : d \in first} /\ \A d : selected(d).id = d.id
    BY <2>1 DEF Picked
  <2> HIDE DEF selected
  <2> QED
    BY <2>2
<1>9. /\ Bases(close.pairs) \subseteq TextPairs(first)
      /\ ~close.cut => Bases(close.pairs) = TextPairs(first)
  BY <1>2, <1>6, TextPairsAreListed
<1>10. \E keysOf : Bases(alike.pairs) \subseteq BasesOf(first, keysOf)
  BY <1>2, <1>6, RelatedPairsAreListed
<1> HIDE DEF index, close, alike, docs, first
<1>11. ASSUME ~index.documents_truncated PROVE first = callable
  <2>1. ~(Cardinality(callable) > IndexLimit)
    BY <1>5, <1>11
  <2>2. Cardinality(callable) <= IndexLimit
    BY <1>3, <1>6, <2>1
  <2> QED
    BY <1>7, <2>2
<1> QED
  BY <1>1, <1>2, <1>3, <1>5, <1>7, <1>8, <1>9, <1>10, <1>11 DEF index, callable, first

LEMMA IndexIsBuilt ==
  ASSUME NEW g \in Inputs
  PROVE  IndexOf(g) = SimilarityIndex(g)
<1> DEFINE built == CHOOSE b \in Built : b[1] = g
<1>1. <<g, SimilarityIndex(g)>> \in Built /\ \A b \in Built : b[1] = g => b = <<g, SimilarityIndex(g)>>
  BY DEF Built
<1>2. built = <<g, SimilarityIndex(g)>>
  BY <1>1
<1>3. IndexOf(g) = built[2]
  BY DEF IndexOf
<1> HIDE DEF built
<1> QED
  BY <1>2, <1>3

LEMMA IndexScanFinds ==
  ASSUME NEW g \in Inputs, NEW asked \in RefactorRequests, ~SimilarityIndex(g).documents_truncated
  PROVE  Finds(ScanIndex(g, SimilarityIndex(g), asked), Meant(g, asked))
<1> DEFINE index == SimilarityIndex(g)
           callable == CallableAmong(g.docs)
           wanted == CallableAmong(Wanted(g, asked))
           selected == {d \in Wanted(g, asked) : d.id \in index.documents}
           some == First(selected, DocumentLimit)
           nodes == {d.id : d \in Range(Leading(DocumentLimit, SortedDocs(selected)))}
           pairs == {p \in index.pairs : {p.left, p.right} \subseteq nodes}
           arcs == Definitive(g, asked.scope)
           scan == ScanIndex(g, index, asked)
<1>1. /\ callable \in SUBSET g.docs /\ AreDocs(callable)
      /\ index.documents = {d.id : d \in callable}
      /\ index.pairs \subseteq TextPairs(callable)
      /\ ~index.pairs_truncated => index.pairs = TextPairs(callable)
  BY IndexHolds
<1>2. /\ wanted \in SUBSET g.docs /\ AreDocs(wanted) /\ Cardinality(wanted) \in Nat
      /\ Meant(g, asked) = CandidatesOf(TextPairs(wanted), arcs, asked)
  BY MeantOfDocs
<1>3. /\ scan.candidates = CandidatesOf(pairs, arcs, asked)
      /\ scan.gaps = (IF index.pairs_truncated THEN {"SIMILARITY_PAIR_BUDGET"} ELSE {})
                     \cup IF Cardinality(selected) > DocumentLimit THEN {"REFACTOR_DOCUMENT_BUDGET"} ELSE {}
  <2> HIDE DEF index
  <2> QED
    BY DEF ScanIndex
<1> HIDE DEF index, scan, arcs
<1>4. wanted \in SUBSET callable
  BY DEF CallableAmong, Wanted, InScope
<1>5. selected = wanted
  <2>1. \A d, e \in g.docs : d.id = e.id => d = e
    BY IndexedGraphsAssumption
  <2>2. Wanted(g, asked) \subseteq g.docs
    BY DEF Wanted, InScope
  <2>3. \A d \in Wanted(g, asked) : d.id \in index.documents <=> d \in callable
    BY <1>1, <2>1, <2>2
  <2>4. \A d \in Wanted(g, asked) : d \in callable <=> d \in wanted
    BY <2>2 DEF CallableAmong
  <2>5. wanted \subseteq Wanted(g, asked)
    BY DEF CallableAmong
  <2> HIDE DEF wanted, callable
  <2> QED
    BY <2>3, <2>4, <2>5
<1>6. nodes = {d.id : d \in some}
  BY DEF First
<1> HIDE DEF selected, wanted, callable, some, nodes
<1>7. DocumentLimit \in Nat
  BY LimitsAssumption
<1>8. /\ some \in SUBSET wanted /\ (Cardinality(wanted) <= DocumentLimit => some = wanted)
      /\ some \in SUBSET callable
  BY <1>2, <1>4, <1>5, <1>7, FirstAreDocs DEF some
<1>9. /\ TextPairs(some) = {p \in TextPairs(callable) : {p.left, p.right} \subseteq nodes}
      /\ TextPairs(some) \subseteq TextPairs(wanted)
  <2>1. TextPairs(some) = {p \in TextPairs(callable) : {p.left, p.right} \subseteq nodes}
    BY <1>1, <1>6, <1>8, TextPairsWithin
  <2>2. TextPairs(some) \subseteq TextPairs(wanted)
    BY <1>2, <1>8, TextPairsWithin
  <2> QED
    BY <2>1, <2>2
<1>10. pairs \subseteq TextPairs(some) /\ (~index.pairs_truncated => pairs = TextPairs(some))
  BY <1>1, <1>9
<1> HIDE DEF pairs
<1>11. scan.candidates \subseteq Meant(g, asked)
  BY <1>2, <1>3, <1>9, <1>10, MorePairsMoreCandidates
<1>12. ASSUME scan.gaps = {} PROVE scan.candidates = Meant(g, asked)
  <2>1. Cardinality(wanted) <= DocumentLimit /\ ~index.pairs_truncated
    BY <1>2, <1>3, <1>5, <1>7, <1>12
  <2> QED
    BY <1>2, <1>3, <1>8, <1>10, <2>1
<1>13. scan.gaps \subseteq BudgetGaps
  BY <1>3 DEF BudgetGaps
<1> QED
  BY <1>11, <1>12, <1>13 DEF Finds, scan, index

LEMMA ScanFinds ==
  ASSUME NEW g \in Inputs, NEW asked \in RefactorRequests, NEW input \in {None, g}
  PROVE  Finds(Scan(g, input, asked), Meant(g, asked))
<1>1. Finds(ScanDirect(g, asked), Meant(g, asked))
  BY DirectScanFinds
<1>2. CASE Scan(g, input, asked) = ScanDirect(g, asked)
  BY <1>1, <1>2
<1>3. CASE Scan(g, input, asked) # ScanDirect(g, asked)
  <2>1. input = g /\ Scan(g, input, asked) = ScanWith(g, IndexOf(input), asked)
    BY <1>3 DEF Scan
  <2>2. /\ IndexServes(g, SimilarityIndex(g), asked)
        /\ Scan(g, input, asked) = ScanIndex(g, SimilarityIndex(g), asked)
    BY <1>3, <2>1, IndexIsBuilt DEF ScanWith
  <2>3. ~SimilarityIndex(g).documents_truncated
    BY <2>2 DEF IndexServes
  <2> QED
    BY <2>2, <2>3, IndexScanFinds
<1> QED
  BY <1>2, <1>3

-----------------------------------------------------------------------------
(* The candidates of a request, in their order *)

LEMMA DefinitiveAreArcs ==
  ASSUME NEW g \in Inputs, NEW scope
  PROVE  /\ Definitive(g, scope) \subseteq g.arcs /\ IsFiniteSet(Definitive(g, scope))
         /\ \A a \in Definitive(g, scope) : a.place \in Nat /\ a.kind \in scope.relations
         /\ \A a, b \in Definitive(g, scope) : a.place = b.place => a = b
<1>1. Definitive(g, scope) \in SUBSET g.arcs /\ \A a \in Definitive(g, scope) : a.kind \in scope.relations
  BY DEF Definitive
<1>2. /\ IsFiniteSet(g.arcs) /\ \A a \in g.arcs : a.place \in Nat
      /\ \A a, b \in g.arcs : a.place = b.place => a = b
  BY IndexedGraphsAssumption
<1>3. IsFiniteSet(Definitive(g, scope))
  BY <1>1, <1>2, FS_Subset
<1> QED
  BY <1>1, <1>2, <1>3

PairCandidates == [left : Nat, right : Nat, similarity : Similarities]

ScoredPair(x, y, arcs) ==
  [left |-> x.id, right |-> y.id,
   similarity |-> ScorePair(Basis(Fingerprint(x.text), Fingerprint(y.text)), x.id, y.id, arcs)]

LEMMA BasisOfTexts ==
  ASSUME NEW g \in Inputs, NEW x \in g.docs, NEW y \in g.docs
  PROVE  LET left == Fingerprint(x.text)
             right == Fingerprint(y.text)
         IN  /\ Basis(left, right) \in Similarities
             /\ Basis(left, right) = Basis(right, left)
             /\ Basis(left, right).shingles > 0 => left.shingles \cap right.shingles # {}
<1>1. IsPrint(Fingerprint(x.text)) /\ IsPrint(Fingerprint(y.text))
  BY IndexedGraphsAssumption, FingerprintIsPrint
<1> QED
  BY <1>1, BasisIsOfBoth

LEMMA MeantAreOfDocs ==
  ASSUME NEW g \in Inputs, NEW asked
  PROVE  LET meant == Meant(g, asked) IN
         /\ IsFiniteSet(meant) /\ meant \subseteq PairCandidates
         /\ \A c \in meant : \E x, y \in g.docs : c = ScoredPair(x, y, Definitive(g, asked.scope))
<1> DEFINE callable == CallableAmong(Wanted(g, asked))
           arcs == Definitive(g, asked.scope)
           meant == Meant(g, asked)
           scored == [q \in g.docs \X g.docs |-> ScoredPair(q[1], q[2], arcs)]
<1>1. /\ callable \in SUBSET g.docs /\ meant = CandidatesOf(TextPairs(callable), arcs, asked)
  BY MeantOfDocs
<1>2. IsFiniteSet(arcs)
  BY DefinitiveAreArcs
<1> HIDE DEF callable, arcs, meant
<1>3. ASSUME NEW c \in meant PROVE \E x, y \in g.docs : c = ScoredPair(x, y, arcs)
  <2>1. PICK p \in TextPairs(callable) :
          c = [left |-> p.left, right |-> p.right, similarity |-> ScorePair(p.basis, p.left, p.right, arcs)]
    BY <1>1, <1>3 DEF CandidatesOf
  <2>2. PICK q \in PairsBy(callable, ShinglesOf(callable)) : p = BasisOf(q[1], q[2])
    BY DEF TextPairs, BasesOf
  <2>3. PICK x \in callable, y \in callable : q = <<x, y>>
    BY DEF PairsBy
  <2>4. /\ p.left = x.id /\ p.right = y.id
        /\ p.basis = Basis(Fingerprint(x.text), Fingerprint(y.text))
    BY <2>2, <2>3 DEF BasisOf
  <2>5. c = ScoredPair(x, y, arcs)
    BY <2>1, <2>4 DEF ScoredPair
  <2> QED
    BY <1>1, <2>3, <2>5
<1>4. IsFiniteSet(meant)
  <2>1. IsFiniteSet(g.docs \X g.docs)
    BY IndexedGraphsAssumption, FS_Product
  <2>2. IsFiniteSet({scored[q] : q \in g.docs \X g.docs})
    <3> HIDE DEF scored
    <3> QED
      BY <2>1, ImageIsFinite
  <2>3. meant \in SUBSET {scored[q] : q \in g.docs \X g.docs}
    <3> SUFFICES ASSUME NEW c \in meant PROVE c \in {scored[q] : q \in g.docs \X g.docs}
      OBVIOUS
    <3>1. PICK x \in g.docs, y \in g.docs : c = ScoredPair(x, y, arcs)
      BY <1>3
    <3>2. <<x, y>> \in g.docs \X g.docs /\ scored[<<x, y>>] = c
      BY <3>1
    <3> HIDE DEF scored
    <3> QED
      BY <3>2
  <2> HIDE DEF scored
  <2> QED
    BY <2>2, <2>3, FS_Subset
<1>5. ASSUME NEW c \in meant PROVE c \in PairCandidates
  <2>1. PICK x \in g.docs, y \in g.docs : c = ScoredPair(x, y, arcs)
    BY <1>3
  <2> DEFINE basis == Basis(Fingerprint(x.text), Fingerprint(y.text))
  <2>2. basis \in Similarities /\ x.id \in Nat /\ y.id \in Nat
    BY BasisOfTexts, IndexedGraphsAssumption
  <2>3. c = [left |-> x.id, right |-> y.id, similarity |-> ScorePair(basis, x.id, y.id, arcs)]
    BY <2>1 DEF ScoredPair
  <2> HIDE DEF basis
  <2>4. ScorePair(basis, x.id, y.id, arcs) \in Similarities
    BY <1>2, <2>2, ScorePairIsOfBoth
  <2> QED
    BY <2>2, <2>3, <2>4 DEF PairCandidates
<1> QED
  BY <1>3, <1>4, <1>5 DEF meant, arcs

LEMMA DocumentIsFound ==
  ASSUME NEW g \in Inputs, NEW x \in g.docs
  PROVE  SyntaxDocument(g, x.id) = x
<1>1. \A d \in g.docs : d.id = x.id => d = x
  BY IndexedGraphsAssumption
<1> QED
  BY <1>1 DEF SyntaxDocument

(* Of any set of scored pairs, each is listed once.                        *)
LEMMA BySimilarityLists ==
  ASSUME NEW g \in Inputs, NEW arcs, IsFiniteSet(arcs), NEW candidates \in SUBSET PairCandidates, IsFiniteSet(candidates),
         \A c \in candidates : \E x, y \in g.docs : c = ScoredPair(x, y, arcs)
  PROVE  \E key : ListsInOrder(BySimilarity(g, candidates), candidates, key)
<1> DEFINE Key(c) ==
             <<1000 - c.similarity.total, 1000 - c.similarity.shingles, 1000 - c.similarity.body,
               1000 - c.similarity.callees, 1000 - c.similarity.size,
               SyntaxDocument(g, c.left).path, SyntaxDocument(g, c.left).start,
               SyntaxDocument(g, c.right).path, SyntaxDocument(g, c.right).start, c.left, c.right>>
           key == [c \in candidates |-> Key(c)]
           keyed == {<<key[c], c>> : c \in candidates}
<1>1. ASSUME NEW c \in candidates PROVE key[c] \in [1 .. 11 -> Nat] /\ key[c][10] = c.left /\ key[c][11] = c.right
  <2>1. PICK x \in g.docs, y \in g.docs : c = ScoredPair(x, y, arcs)
    OBVIOUS
  <2>2. c.left = x.id /\ c.right = y.id
    BY <2>1 DEF ScoredPair
  <2>3. SyntaxDocument(g, c.left) = x /\ SyntaxDocument(g, c.right) = y
    BY <2>2, DocumentIsFound
  <2>4. {x.path, x.start, y.path, y.start, c.left, c.right} \subseteq Nat
    BY <2>2, IndexedGraphsAssumption
  <2>5. {1000 - c.similarity.total, 1000 - c.similarity.shingles, 1000 - c.similarity.body,
         1000 - c.similarity.callees, 1000 - c.similarity.size} \subseteq Nat
    <3>1. c.similarity \in Similarities
      BY DEF PairCandidates
    <3>2. {c.similarity.total, c.similarity.shingles, c.similarity.body,
           c.similarity.callees, c.similarity.size} \subseteq Shares
      BY <3>1 DEF Similarities
    <3>3. \A n \in Shares : 1000 - n \in Nat
      BY DEF Shares
    <3> QED
      BY <3>2, <3>3
  <2>6. key[c] = <<1000 - c.similarity.total, 1000 - c.similarity.shingles, 1000 - c.similarity.body,
                   1000 - c.similarity.callees, 1000 - c.similarity.size, x.path, x.start, y.path, y.start, c.left, c.right>>
    BY <2>3
  <2> QED
    BY <2>4, <2>5, <2>6
<1>2. \A c, e \in candidates : key[c] = key[e] => c = e
  <2> HIDE DEF key
  <2> SUFFICES ASSUME NEW c \in candidates, NEW e \in candidates, key[c] = key[e]  PROVE c = e
    OBVIOUS
  <2>1. c.left = e.left /\ c.right = e.right
    BY <1>1
  <2>2. PICK x \in g.docs, y \in g.docs : c = ScoredPair(x, y, arcs)
    OBVIOUS
  <2>3. PICK v \in g.docs, w \in g.docs : e = ScoredPair(v, w, arcs)
    OBVIOUS
  <2>4. x.id = v.id /\ y.id = w.id
    BY <2>1, <2>2, <2>3 DEF ScoredPair
  <2>5. x = v /\ y = w
    BY <2>4, IndexedGraphsAssumption
  <2> QED
    BY <2>2, <2>3, <2>5
<1>3. IsKey(key, candidates, 11)
  <2>1. key \in [candidates -> [1 .. 11 -> Nat]]
    BY <1>1
  <2> HIDE DEF key
  <2> QED
    BY <1>2, <2>1 DEF IsKey
<1>4. BySimilarity(g, candidates) = InOrder(keyed)
  <2>1. BySimilarity(g, candidates) = InOrder({<<Key(c), c>> : c \in candidates})
    BY DEF BySimilarity
  <2> HIDE DEF Key
  <2>2. keyed = {<<Key(c), c>> : c \in candidates}
    OBVIOUS
  <2> QED
    BY <2>1, <2>2
<1> HIDE DEF key
<1>5. ListsInOrder(InOrder(keyed), candidates, key)
  <2> HIDE DEF keyed
  <2>1. keyed = {<<key[c], c>> : c \in candidates}
    BY DEF keyed
  <2> QED
    BY <1>3, <2>1, InOrderLists
<1> QED
  BY <1>4, <1>5

-----------------------------------------------------------------------------
(* What fits the budget of an answer *)

(* What may be evidence: a shared relation with its proofs, or a relation  *)
(* of another.                                                             *)
EvidenceItems(arcs) == [kind : {"shared", "incoming"}, arcs : SUBSET arcs]

BudgetsOf(arcs) == [used : Nat, kept : SUBSET EvidenceItems(arcs), cut : BOOLEAN]

(* The budget after each of the items.                                     *)
AreReserved(after, first, items) ==
  after = [i \in 0 .. Len(items) |-> IF i = 0 THEN first ELSE Reserve(after[i - 1], items[i])]

LEMMA ReserveIsBudget ==
  ASSUME NEW arcs, IsFiniteSet(arcs), NEW spent \in BudgetsOf(arcs), NEW item \in EvidenceItems(arcs)
  PROVE  LET next == Reserve(spent, item) IN
         /\ next \in BudgetsOf(arcs)
         /\ spent.used <= EvidenceLimit => next.used <= EvidenceLimit
         /\ spent.kept \subseteq next.kept /\ next.kept \subseteq spent.kept \cup {item}
         /\ ~next.cut => ~spent.cut /\ next.kept = spent.kept \cup {item}
<1> DEFINE n == Cardinality(item.arcs)
<1>1. n \in Nat
  <2>1. item.arcs \in SUBSET arcs
    BY DEF EvidenceItems
  <2>2. IsFiniteSet(item.arcs)
    BY <2>1, FS_Subset
  <2> QED
    BY <2>2, FS_CardinalityType
<1>2. EvidenceLimit \in Nat
  BY LimitsAssumption
<1>3. CASE spent.used + n <= EvidenceLimit
  <2>1. Reserve(spent, item) = [spent EXCEPT !.used = spent.used + n, !.kept = spent.kept \cup {item}]
    BY <1>3 DEF Reserve
  <2> HIDE DEF n
  <2>2. Reserve(spent, item) = [used |-> spent.used + n, kept |-> spent.kept \cup {item}, cut |-> spent.cut]
    BY <2>1 DEF BudgetsOf
  <2>3. spent.used + n \in Nat /\ spent.kept \cup {item} \in SUBSET EvidenceItems(arcs) /\ spent.cut \in BOOLEAN
    BY <1>1 DEF BudgetsOf
  <2> QED
    BY <1>3, <2>2, <2>3 DEF BudgetsOf
<1>4. CASE ~(spent.used + n <= EvidenceLimit)
  <2>1. Reserve(spent, item) = [spent EXCEPT !.cut = TRUE]
    BY <1>4 DEF Reserve
  <2>2. Reserve(spent, item) = [used |-> spent.used, kept |-> spent.kept, cut |-> TRUE]
    BY <2>1 DEF BudgetsOf
  <2> QED
    BY <2>2 DEF BudgetsOf
<1> QED
  BY <1>3, <1>4

LEMMA ReservedExist ==
  ASSUME NEW arcs, IsFiniteSet(arcs), NEW first \in BudgetsOf(arcs), NEW items \in Seq(EvidenceItems(arcs))
  PROVE  \E after : AreReserved(after, first, items) /\ after \in [0 .. Len(items) -> BudgetsOf(arcs)]
<1> DEFINE A == BudgetsOf(arcs)
           n == Len(items)
           step == [s \in A \X (1 .. n) |-> Reserve(s[1], items[s[2]])]
<1>1. n \in Nat
  OBVIOUS
<1>2. step \in [A \X (1 .. n) -> A]
  <2> SUFFICES ASSUME NEW s \in A \X (1 .. n) PROVE Reserve(s[1], items[s[2]]) \in A
    OBVIOUS
  <2>1. s[1] \in A /\ items[s[2]] \in EvidenceItems(arcs)
    OBVIOUS
  <2> QED
    BY <2>1, ReserveIsBudget
<1>3. \A b \in A : \A i \in 1 .. n : step[<<b, i>>] = Reserve(b, items[i])
  OBVIOUS
<1>4. first \in A
  OBVIOUS
<1> HIDE DEF A, n, step
<1>5. PICK f : IsRun(f, A, first, n, step)
  BY ONLY <1>1, <1>2, <1>4, RunExists
<1>6. f \in [0 .. n -> A]
  BY <1>5 DEF IsRun
<1>7. \A i \in 0 .. n : f[i] = IF i = 0 THEN first ELSE Reserve(f[i - 1], items[i])
  <2> SUFFICES ASSUME NEW i \in 0 .. n PROVE f[i] = IF i = 0 THEN first ELSE Reserve(f[i - 1], items[i])
    OBVIOUS
  <2>1. f[i] = IF i = 0 THEN first ELSE step[<<f[i - 1], i>>]
    BY <1>5 DEF IsRun
  <2>2. i # 0 => f[i - 1] \in A /\ i \in 1 .. n
    BY <1>1, <1>6
  <2> QED
    BY <1>3, <2>1, <2>2
<1>8. f = [i \in 0 .. n |-> IF i = 0 THEN first ELSE Reserve(f[i - 1], items[i])]
  BY <1>6, <1>7
<1> QED
  BY <1>6, <1>8 DEF AreReserved, n, A

(* The row of a candidate whose kept evidence is known.                    *)
ArcsOf(kept, kind) == {e.arcs : e \in {e \in kept : e.kind = kind}}
RowOf(g, c, kept) ==
  [left |-> c.left, right |-> c.right, similarity |-> c.similarity, shared |-> ArcsOf(kept, "shared"),
   preserve |-> {a \in UNION ArcsOf(kept, "incoming") : IsSymbol(g, a.source)}]

(* What a budget keeps of the items, all unless something was cut.         *)
Keeps(spent, items, before) ==
  /\ spent.used \in Nat /\ spent.used <= EvidenceLimit /\ spent.cut \in BOOLEAN
  /\ spent.kept \subseteq Range(items)
  /\ ~spent.cut => ~before /\ spent.kept = Range(items)

LEMMA ItemsAreKept ==
  ASSUME NEW g, NEW arcs, IsFiniteSet(arcs), NEW items \in Seq(EvidenceItems(arcs)), NEW c, NEW reply,
         reply.used \in Nat, reply.used <= EvidenceLimit, reply.cut \in BOOLEAN
  PROVE  \E spent : /\ Keeps(spent, items, reply.cut)
                     /\ WithItems(g, reply, c, items) =
                          [used |-> spent.used, cut |-> spent.cut, rows |-> Append(reply.rows, RowOf(g, c, spent.kept))]
<1> DEFINE n == Len(items)
           first == [used |-> reply.used, kept |-> {}, cut |-> reply.cut]
           after == CHOOSE s : AreReserved(s, first, items)
           spent == after[n]
           upto == [k \in 0 .. n |-> {items[i] : i \in 1 .. k}]
           Holds(b, k) == /\ b \in BudgetsOf(arcs) /\ b.used <= EvidenceLimit
                          /\ b.kept \subseteq upto[k]
                          /\ ~b.cut => ~reply.cut /\ b.kept = upto[k]
<1>1. n \in Nat /\ \A k \in 1 .. n : k \in 0 .. n /\ k - 1 \in 0 .. n /\ items[k] \in EvidenceItems(arcs)
  OBVIOUS
<1>2. first \in BudgetsOf(arcs)
  BY DEF BudgetsOf
<1>3. AreReserved(after, first, items)
  <2> HIDE DEF first
  <2>1. \E s : AreReserved(s, first, items)
    BY <1>2, ReservedExist
  <2> QED
    BY <2>1
<1>4. WithItems(g, reply, c, items) =
        [used |-> spent.used, cut |-> spent.cut, rows |-> Append(reply.rows, RowOf(g, c, spent.kept))]
  <2> HIDE DEF n
  <2> QED
    BY DEF WithItems, AreReserved, RowOf, ArcsOf, n
<1> HIDE DEF after, first
<1>5. \A k \in 0 .. n : after[k] = IF k = 0 THEN first ELSE Reserve(after[k - 1], items[k])
  BY <1>3 DEF AreReserved
<1>6. upto[0] = {} /\ \A k \in 1 .. n : upto[k] = upto[k - 1] \cup {items[k]}
  <2>1. upto[0] = {}
    BY <1>1
  <2>2. ASSUME NEW k \in 1 .. n PROVE upto[k] = upto[k - 1] \cup {items[k]}
    <3>1. upto[k] = {items[i] : i \in 1 .. k} /\ upto[k - 1] = {items[i] : i \in 1 .. k - 1}
      BY <1>1
    <3>2. \A i : i \in 1 .. k <=> i \in 1 .. k - 1 \/ i = k
      BY <1>1
    <3> HIDE DEF upto
    <3> QED
      BY <3>1, <3>2
  <2> QED
    BY <2>1, <2>2
<1>7. upto[n] = Range(items)
  <2>1. Range(items) = {items[i] : i \in 1 .. n}
    BY DEF Range
  <2> QED
    BY <1>1, <2>1
<1> HIDE DEF upto, n
<1> DEFINE T == {k \in 0 .. n : Holds(after[k], k)}
<1>8. 0 \in T
  <2>1. 0 \in 0 .. n /\ after[0] = first
    BY <1>1, <1>5
  <2>2. first.used <= EvidenceLimit /\ first.kept = {} /\ first.cut = reply.cut
    BY DEF first
  <2> QED
    BY <1>2, <1>6, <2>1, <2>2
<1>9. ASSUME NEW k \in 1 .. n, k - 1 \in T PROVE k \in T
  <2> DEFINE b == after[k - 1]
             next == Reserve(b, items[k])
  <2>1. k \in 0 .. n /\ after[k] = next /\ items[k] \in EvidenceItems(arcs)
    <3>1. k \in 0 .. n /\ k # 0 /\ items[k] \in EvidenceItems(arcs)
      BY <1>1
    <3> QED
      BY <1>5, <3>1
  <2>2. Holds(b, k - 1)
    BY <1>9
  <2> HIDE DEF b, next
  <2>3. /\ next \in BudgetsOf(arcs)
        /\ b.used <= EvidenceLimit => next.used <= EvidenceLimit
        /\ next.kept \subseteq b.kept \cup {items[k]}
        /\ ~next.cut => ~b.cut /\ next.kept = b.kept \cup {items[k]}
    BY <2>1, <2>2, ReserveIsBudget DEF next
  <2>4. upto[k] = upto[k - 1] \cup {items[k]}
    BY <1>6
  <2> QED
    BY <2>1, <2>2, <2>3, <2>4
<1>10. Holds(spent, n)
  <2> HIDE DEF T, Holds
  <2>1. 0 .. n \subseteq T
    BY ONLY <1>1, <1>8, <1>9, UpTo
  <2>2. n \in 0 .. n
    BY <1>1
  <2> QED
    BY <2>1, <2>2 DEF T
<1>11. Keeps(spent, items, reply.cut)
  BY <1>7, <1>10 DEF Keeps, BudgetsOf
<1> QED
  BY <1>4, <1>11

-----------------------------------------------------------------------------
(* The evidence of a candidate *)

LEMMA RangeOfJoined ==
  ASSUME NEW S, NEW s \in Seq(S), NEW t \in Seq(S)
  PROVE  Range(s \o t) = Range(s) \cup Range(t)
<1> DEFINE m == Len(s)
           n == Len(t)
           j == s \o t
<1>1. m \in Nat /\ n \in Nat /\ DOMAIN s = 1 .. m /\ DOMAIN t = 1 .. n /\ DOMAIN j = 1 .. m + n
  OBVIOUS
<1>2. \A i \in 1 .. m : j[i] = s[i]
  OBVIOUS
<1>3. \A i \in 1 .. n : j[i + m] = t[i]
  OBVIOUS
<1> HIDE DEF j, m, n
<1>4. \A i \in 1 .. m : i \in 1 .. m + n
  BY <1>1
<1>5. \A i \in 1 .. n : i + m \in 1 .. m + n
  BY <1>1
<1>6. \A i \in 1 .. m + n : i \in 1 .. m \/ (i - m \in 1 .. n /\ i = (i - m) + m)
  BY <1>1
<1>7. ASSUME NEW x \in Range(j) PROVE x \in Range(s) \cup Range(t)
  <2>1. PICK i \in 1 .. m + n : j[i] = x
    BY <1>1 DEF Range
  <2> QED
    BY <1>1, <1>2, <1>3, <1>6, <2>1 DEF Range
<1>8. ASSUME NEW x \in Range(s) PROVE x \in Range(j)
  <2>1. PICK i \in 1 .. m : s[i] = x
    BY <1>1 DEF Range
  <2> QED
    BY <1>1, <1>2, <1>4, <2>1 DEF Range
<1>9. ASSUME NEW x \in Range(t) PROVE x \in Range(j)
  <2>1. PICK i \in 1 .. n : t[i] = x
    BY <1>1 DEF Range
  <2> QED
    BY <1>1, <1>3, <1>5, <2>1 DEF Range
<1> QED
  BY <1>7, <1>8, <1>9 DEF j

LEMMA SymbolsAreNumbered ==
  ASSUME NEW g \in Inputs, NEW id, IsSymbol(g, id)
  PROVE  id \in Nat
<1> DEFINE S == {d \in g.docs : d.id = id}
<1>1. S # {}
  <2>1. Cardinality(S) = 1
    BY DEF IsSymbol
  <2> HIDE DEF S
  <2> QED
    BY <2>1, FS_EmptySet
<1> QED
  BY <1>1, IndexedGraphsAssumption

SharedOf(g, arcs, c) == {r \in Outgoing(arcs, c.left) \cap Outgoing(arcs, c.right) : IsSymbol(g, r[2])}
ProofsOf(arcs, c, r) == {a \in arcs : <<a.kind, a.target>> = r /\ a.source \in {c.left, c.right}}
IncomingOf(arcs, c) == {a \in arcs : a.target \in {c.left, c.right}}

LEMMA SharedAreRelations ==
  ASSUME NEW g \in Inputs, NEW scope, scope.relations \subseteq {"CALLS", "IMPLEMENTS", "REFERENCES", "IMPORTS"}, NEW c
  PROVE  LET S == SharedOf(g, Definitive(g, scope), c) IN
         /\ IsFiniteSet(S)
         /\ \A r \in S : r = <<r[1], r[2]>> /\ r[1] \in {"CALLS", "IMPLEMENTS", "REFERENCES", "IMPORTS"} /\ r[2] \in Nat
<1> DEFINE arcs == Definitive(g, scope)
           S == SharedOf(g, arcs, c)
<1>1. IsFiniteSet(arcs) /\ \A a \in arcs : a.kind \in {"CALLS", "IMPLEMENTS", "REFERENCES", "IMPORTS"}
  BY DefinitiveAreArcs
<1> HIDE DEF arcs
<1>2. IsFiniteSet(Outgoing(arcs, c.left)) /\ S \in SUBSET Outgoing(arcs, c.left)
  BY <1>1, RelationsAreFinite DEF SharedOf
<1>3. IsFiniteSet(S)
  BY <1>2, FS_Subset
<1>4. ASSUME NEW r \in S PROVE r = <<r[1], r[2]>> /\ r[1] \in {"CALLS", "IMPLEMENTS", "REFERENCES", "IMPORTS"} /\ r[2] \in Nat
  <2>1. PICK a \in arcs : r = <<a.kind, a.target>>
    BY <1>2 DEF Outgoing
  <2>2. IsSymbol(g, r[2])
    BY DEF SharedOf
  <2>3. r[2] \in Nat
    BY <2>2, SymbolsAreNumbered
  <2> QED
    BY <1>1, <2>1, <2>3
<1> QED
  BY <1>3, <1>4 DEF arcs

(* The evidence of a candidate: every shared relation, every incoming one. *)
LEMMA EvidenceOfCandidate ==
  ASSUME NEW g \in Inputs, NEW scope, scope.relations \subseteq {"CALLS", "IMPLEMENTS", "REFERENCES", "IMPORTS"}, NEW c
  PROVE  LET arcs == Definitive(g, scope)
             items == Evidence(g, arcs, c)
         IN  /\ items \in Seq(EvidenceItems(arcs))
             /\ Range(items) = {[kind |-> "shared", arcs |-> ProofsOf(arcs, c, r)] : r \in SharedOf(g, arcs, c)}
                               \cup {[kind |-> "incoming", arcs |-> {a}] : a \in IncomingOf(arcs, c)}
<1> DEFINE arcs == Definitive(g, scope)
           S == SharedOf(g, arcs, c)
           I == IncomingOf(arcs, c)
           rank == [r \in S |-> <<RelationOrder[r[1]], r[2]>>]
           ranked == {<<<<RelationOrder[r[1]], r[2]>>, r>> : r \in S}
           place == [a \in I |-> <<a.place>>]
           placed == {<<<<a.place>>, a>> : a \in I}
           groups == InOrder(ranked)
           others == InOrder(placed)
           Group(r) == [kind |-> "shared", arcs |-> ProofsOf(arcs, c, r)]
           Other(a) == [kind |-> "incoming", arcs |-> {a}]
           first == [i \in DOMAIN groups |-> Group(groups[i])]
           second == [i \in DOMAIN others |-> Other(others[i])]
<1>1. /\ IsFiniteSet(S)
      /\ \A r \in S : r = <<r[1], r[2]>> /\ r[1] \in {"CALLS", "IMPLEMENTS", "REFERENCES", "IMPORTS"} /\ r[2] \in Nat
  BY SharedAreRelations
<1>2. /\ IsFiniteSet(arcs) /\ \A a \in arcs : a.place \in Nat
      /\ \A a, b \in arcs : a.place = b.place => a = b
  BY DefinitiveAreArcs
<1>3. Evidence(g, arcs, c) = first \o second
  <2> HIDE DEF arcs
  <2> QED
    BY DEF Evidence, SharedOf, IncomingOf, ProofsOf
<1> HIDE DEF arcs
<1>4. ListsInOrder(groups, S, rank)
  <2>1. ranked = {<<rank[r], r>> : r \in S}
    OBVIOUS
  <2>2. \A r \in S : RelationOrder[r[1]] \in Nat
    BY <1>1 DEF RelationOrder
  <2>3. \A r, q \in S : RelationOrder[r[1]] = RelationOrder[q[1]] => r[1] = q[1]
    BY <1>1 DEF RelationOrder
  <2> HIDE DEF S
  <2>4. \A r \in S : rank[r] \in [1 .. 2 -> Nat]
    BY <1>1, <2>2
  <2>5. \A r, q \in S : rank[r] = rank[q] => r = q
    <3> SUFFICES ASSUME NEW r \in S, NEW q \in S, rank[r] = rank[q] PROVE r = q
      OBVIOUS
    <3>1. RelationOrder[r[1]] = RelationOrder[q[1]] /\ r[2] = q[2]
      OBVIOUS
    <3>2. r[1] = q[1]
      BY <2>3, <3>1
    <3> QED
      BY <1>1, <3>1, <3>2
  <2>6. rank \in [S -> [1 .. 2 -> Nat]]
    BY <2>4
  <2> HIDE DEF rank, ranked
  <2>7. IsKey(rank, S, 2)
    BY <1>1, <2>5, <2>6 DEF IsKey
  <2> QED
    BY <2>1, <2>7, InOrderLists
<1>5. ListsInOrder(others, I, place)
  <2>1. placed = {<<place[a], a>> : a \in I}
    OBVIOUS
  <2>2. I \in SUBSET arcs
    BY DEF IncomingOf
  <2> HIDE DEF I
  <2>3. place \in [I -> [1 .. 1 -> Nat]]
    BY <1>2, <2>2
  <2>4. \A a, b \in I : place[a] = place[b] => a = b
    <3> SUFFICES ASSUME NEW a \in I, NEW b \in I, place[a] = place[b] PROVE a = b
      OBVIOUS
    <3>1. a.place = b.place
      OBVIOUS
    <3> QED
      BY <1>2, <2>2, <3>1
  <2>5. IsFiniteSet(I)
    BY <1>2, <2>2, FS_Subset
  <2> HIDE DEF place, placed
  <2>6. IsKey(place, I, 1)
    BY <2>3, <2>4, <2>5 DEF IsKey
  <2> QED
    BY <2>1, <2>6, InOrderLists
<1>6. /\ \A r : Group(r) \in EvidenceItems(arcs)
      /\ \A a \in I : Other(a) \in EvidenceItems(arcs)
  BY DEF EvidenceItems, ProofsOf, IncomingOf
<1> HIDE DEF groups, others, S, I, Group, Other, rank, place
<1>7. first \in Seq(EvidenceItems(arcs)) /\ Range(first) = {Group(r) : r \in S}
  <2>1. Cardinality(S) \in Nat /\ DOMAIN groups = 1 .. Cardinality(S) /\ Range(groups) = S
    BY <1>4 DEF ListsInOrder
  <2>2. first \in [1 .. Cardinality(S) -> EvidenceItems(arcs)]
    BY <1>6, <2>1
  <2>3. first \in Seq(EvidenceItems(arcs))
    <3> HIDE DEF first
    <3> QED
      BY <2>1, <2>2
  <2>4. Range(first) = {Group(groups[i]) : i \in DOMAIN groups}
    BY DEF Range
  <2>5. S = {groups[i] : i \in DOMAIN groups}
    BY <2>1 DEF Range
  <2> HIDE DEF first
  <2> QED
    BY <2>3, <2>4, <2>5
<1>8. second \in Seq(EvidenceItems(arcs)) /\ Range(second) = {Other(a) : a \in I}
  <2>1. /\ Cardinality(I) \in Nat /\ DOMAIN others = 1 .. Cardinality(I) /\ Range(others) = I
        /\ \A i \in DOMAIN others : others[i] \in I
    BY <1>5 DEF ListsInOrder
  <2>2. second \in [1 .. Cardinality(I) -> EvidenceItems(arcs)]
    BY <1>6, <2>1
  <2>3. second \in Seq(EvidenceItems(arcs))
    <3> HIDE DEF second
    <3> QED
      BY <2>1, <2>2
  <2>4. Range(second) = {Other(others[i]) : i \in DOMAIN others}
    BY DEF Range
  <2>5. I = {others[i] : i \in DOMAIN others}
    BY <2>1 DEF Range
  <2> HIDE DEF second
  <2> QED
    BY <2>3, <2>4, <2>5
<1> HIDE DEF first, second
<1>9. first \o second \in Seq(EvidenceItems(arcs)) /\ Range(first \o second) = Range(first) \cup Range(second)
  BY <1>7, <1>8, RangeOfJoined
<1> QED
  BY <1>3, <1>7, <1>8, <1>9 DEF arcs, S, I, Group, Other

-----------------------------------------------------------------------------
(* The rows of an answer *)

FourRelations == {"CALLS", "IMPLEMENTS", "REFERENCES", "IMPORTS"}

Rows(arcs) ==
  [left : Nat, right : Nat, similarity : Similarities, shared : SUBSET SUBSET arcs, preserve : SUBSET arcs]

AllProofs(g, arcs, c) == {ProofsOf(arcs, c, r) : r \in SharedOf(g, arcs, c)}

(* The row of c, with all its evidence unless something was cut.           *)
IsRowOf(g, arcs, row, c, cut) ==
  /\ row.left = c.left /\ row.right = c.right /\ row.similarity = c.similarity
  /\ IsFiniteSet(row.shared) /\ row.shared \subseteq AllProofs(g, arcs, c)
  /\ ~cut => /\ row.shared = AllProofs(g, arcs, c)
             /\ \A a \in IncomingOf(arcs, c) : IsSymbol(g, a.source) => a \in row.preserve

LEMMA RowIsOfCandidate ==
  ASSUME NEW g \in Inputs, NEW scope, scope.relations \subseteq FourRelations, NEW c \in PairCandidates,
         NEW before, NEW spent,
         Keeps(spent, Evidence(g, Definitive(g, scope), c), before)
  PROVE  LET arcs == Definitive(g, scope)
             row == RowOf(g, c, spent.kept)
         IN  row \in Rows(arcs) /\ IsRowOf(g, arcs, row, c, spent.cut)
<1> DEFINE arcs == Definitive(g, scope)
           items == Evidence(g, arcs, c)
           kept == spent.kept
           row == RowOf(g, c, kept)
           S == SharedOf(g, arcs, c)
           I == IncomingOf(arcs, c)
           proofs == [r \in S |-> ProofsOf(arcs, c, r)]
<1>1. /\ items \in Seq(EvidenceItems(arcs))
      /\ Range(items) = {[kind |-> "shared", arcs |-> ProofsOf(arcs, c, r)] : r \in S}
                        \cup {[kind |-> "incoming", arcs |-> {a}] : a \in I}
  BY EvidenceOfCandidate DEF FourRelations
<1>2. IsFiniteSet(S)
  BY SharedAreRelations DEF FourRelations
<1>3. kept \subseteq Range(items) /\ (~spent.cut => kept = Range(items))
  BY DEF Keeps
<1> HIDE DEF arcs, items, kept, S, I
<1>4. AllProofs(g, arcs, c) = {ProofsOf(arcs, c, r) : r \in S}
  BY DEF AllProofs, S
<1>5. IsFiniteSet(AllProofs(g, arcs, c))
  <2>1. IsFiniteSet({proofs[r] : r \in S})
    <3> HIDE DEF proofs
    <3> QED
      BY <1>2, ImageIsFinite
  <2>2. {proofs[r] : r \in S} = {ProofsOf(arcs, c, r) : r \in S}
    OBVIOUS
  <2> QED
    BY <1>4, <2>1, <2>2
<1>6. /\ \A e \in kept : e.kind = "shared" => \E r \in S : e = [kind |-> "shared", arcs |-> ProofsOf(arcs, c, r)]
      /\ \A e \in kept : e.kind = "incoming" => \E a \in I : e = [kind |-> "incoming", arcs |-> {a}]
  BY <1>1, <1>3
<1>7. ArcsOf(kept, "shared") \subseteq AllProofs(g, arcs, c)
  BY <1>4, <1>6 DEF ArcsOf
<1>8. \A p \in ArcsOf(kept, "incoming") : \E a \in I : p = {a}
  BY <1>6 DEF ArcsOf
<1>9. ASSUME ~spent.cut PROVE ArcsOf(kept, "shared") = AllProofs(g, arcs, c) /\ \A a \in I : {a} \in ArcsOf(kept, "incoming")
  <2>1. \A r \in S : [kind |-> "shared", arcs |-> ProofsOf(arcs, c, r)] \in kept
    BY <1>1, <1>3, <1>9
  <2>2. \A a \in I : [kind |-> "incoming", arcs |-> {a}] \in kept
    BY <1>1, <1>3, <1>9
  <2>3. \A r \in S : ProofsOf(arcs, c, r) \in ArcsOf(kept, "shared")
    <3> SUFFICES ASSUME NEW r \in S PROVE ProofsOf(arcs, c, r) \in ArcsOf(kept, "shared")
      OBVIOUS
    <3> DEFINE e == [kind |-> "shared", arcs |-> ProofsOf(arcs, c, r)]
    <3>1. e \in kept /\ e.kind = "shared" /\ e.arcs = ProofsOf(arcs, c, r)
      BY <2>1
    <3> HIDE DEF e
    <3> QED
      BY <3>1 DEF ArcsOf
  <2>4. \A a \in I : {a} \in ArcsOf(kept, "incoming")
    <3> SUFFICES ASSUME NEW a \in I PROVE {a} \in ArcsOf(kept, "incoming")
      OBVIOUS
    <3> DEFINE e == [kind |-> "incoming", arcs |-> {a}]
    <3>1. e \in kept /\ e.kind = "incoming" /\ e.arcs = {a}
      BY <2>2
    <3> HIDE DEF e
    <3> QED
      BY <3>1 DEF ArcsOf
  <2> QED
    BY <1>4, <1>7, <2>3, <2>4
<1>10. /\ row.left = c.left /\ row.right = c.right /\ row.similarity = c.similarity
       /\ row.shared = ArcsOf(kept, "shared")
       /\ row.preserve = {a \in UNION ArcsOf(kept, "incoming") : IsSymbol(g, a.source)}
       /\ row = [left |-> c.left, right |-> c.right, similarity |-> c.similarity, shared |-> row.shared, preserve |-> row.preserve]
  BY DEF RowOf
<1> HIDE DEF row
<1>11. IsFiniteSet(row.shared)
  BY <1>5, <1>7, <1>10, FS_Subset
<1>12. row \in Rows(arcs)
  <2>1. row.shared \in SUBSET SUBSET arcs
    BY <1>4, <1>7, <1>10 DEF ProofsOf
  <2>2. row.preserve \in SUBSET arcs
    <3>1. I \subseteq arcs
      BY DEF I, IncomingOf
    <3> QED
      BY <1>8, <1>10, <3>1
  <2>3. c.left \in Nat /\ c.right \in Nat /\ c.similarity \in Similarities
    BY DEF PairCandidates
  <2> QED
    BY <1>10, <2>1, <2>2, <2>3 DEF Rows
<1>13. ~spent.cut => \A a \in I : IsSymbol(g, a.source) => a \in row.preserve
  BY <1>9, <1>10
<1>14. IsRowOf(g, arcs, row, c, spent.cut)
  BY <1>7, <1>9, <1>10, <1>11, <1>13 DEF IsRowOf, I
<1> QED
  BY <1>12, <1>14 DEF row, arcs, kept

Answers(arcs) == [used : 0 .. EvidenceLimit, cut : BOOLEAN, rows : Seq(Rows(arcs))]

LEMMA RowIsAdded ==
  ASSUME NEW g \in Inputs, NEW scope, scope.relations \subseteq FourRelations, NEW c \in PairCandidates,
         NEW reply \in Answers(Definitive(g, scope))
  PROVE  LET arcs == Definitive(g, scope)
             next == WithEvidence(g, arcs, reply, c)
         IN  /\ next \in Answers(arcs)
             /\ ~next.cut => ~reply.cut
             /\ \E row \in Rows(arcs) : next.rows = Append(reply.rows, row) /\ IsRowOf(g, arcs, row, c, next.cut)
<1> DEFINE arcs == Definitive(g, scope)
           items == Evidence(g, arcs, c)
           next == WithEvidence(g, arcs, reply, c)
<1>1. IsFiniteSet(arcs) /\ items \in Seq(EvidenceItems(arcs))
  BY DefinitiveAreArcs, EvidenceOfCandidate DEF FourRelations
<1>2. reply.used \in Nat /\ reply.used <= EvidenceLimit /\ reply.cut \in BOOLEAN /\ reply.rows \in Seq(Rows(arcs))
  BY LimitsAssumption DEF Answers
<1>3. next = WithItems(g, reply, c, items)
  BY DEF WithEvidence
<1> HIDE DEF items, next
<1>4. PICK spent : /\ Keeps(spent, items, reply.cut)
                    /\ next = [used |-> spent.used, cut |-> spent.cut, rows |-> Append(reply.rows, RowOf(g, c, spent.kept))]
  <2> HIDE DEF arcs
  <2> QED
    BY <1>1, <1>2, <1>3, ItemsAreKept
<1> DEFINE row == RowOf(g, c, spent.kept)
<1>5. row \in Rows(arcs) /\ IsRowOf(g, arcs, row, c, spent.cut)
  BY <1>4, RowIsOfCandidate DEF items
<1>6. /\ spent.used \in 0 .. EvidenceLimit /\ spent.cut \in BOOLEAN
      /\ ~spent.cut => ~reply.cut
  BY <1>4, LimitsAssumption DEF Keeps
<1> HIDE DEF row, arcs
<1>7. Append(reply.rows, row) \in Seq(Rows(arcs))
  BY <1>2, <1>5
<1>8. next = [used |-> spent.used, cut |-> spent.cut, rows |-> Append(reply.rows, row)]
  BY <1>4 DEF row
<1> QED
  BY <1>5, <1>6, <1>7, <1>8 DEF Answers, arcs, next

AreAdded(s, g, arcs, first) ==
  s = [i \in 0 .. Len(first) |->
         IF i = 0 THEN [used |-> 0, cut |-> FALSE, rows |-> <<>>] ELSE WithEvidence(g, arcs, s[i - 1], first[i])]

LEMMA RowsExist ==
  ASSUME NEW g \in Inputs, NEW scope, scope.relations \subseteq FourRelations, NEW first \in Seq(PairCandidates)
  PROVE  \E s : AreAdded(s, g, Definitive(g, scope), first)
<1> DEFINE arcs == Definitive(g, scope)
           A == Answers(arcs)
           n == Len(first)
           none == [used |-> 0, cut |-> FALSE, rows |-> <<>>]
           step == [s \in A \X (1 .. n) |-> WithEvidence(g, arcs, s[1], first[s[2]])]
<1>1. n \in Nat /\ none \in A
  BY LimitsAssumption DEF Answers
<1>2. step \in [A \X (1 .. n) -> A]
  <2> SUFFICES ASSUME NEW s \in A \X (1 .. n) PROVE WithEvidence(g, arcs, s[1], first[s[2]]) \in A
    OBVIOUS
  <2>1. s[1] \in A /\ first[s[2]] \in PairCandidates
    OBVIOUS
  <2> QED
    BY <2>1, RowIsAdded
<1>3. \A b \in A : \A i \in 1 .. n : step[<<b, i>>] = WithEvidence(g, arcs, b, first[i])
  OBVIOUS
<1> HIDE DEF A, n, step, none, arcs
<1>4. PICK f : IsRun(f, A, none, n, step)
  BY ONLY <1>1, <1>2, RunExists
<1>5. f \in [0 .. n -> A]
  BY <1>4 DEF IsRun
<1>6. \A i \in 0 .. n : f[i] = IF i = 0 THEN none ELSE WithEvidence(g, arcs, f[i - 1], first[i])
  <2> SUFFICES ASSUME NEW i \in 0 .. n PROVE f[i] = IF i = 0 THEN none ELSE WithEvidence(g, arcs, f[i - 1], first[i])
    OBVIOUS
  <2>1. f[i] = IF i = 0 THEN none ELSE step[<<f[i - 1], i>>]
    BY <1>4 DEF IsRun
  <2>2. i # 0 => f[i - 1] \in A /\ i \in 1 .. n
    BY <1>1, <1>5
  <2> QED
    BY <1>3, <2>1, <2>2
<1>7. f = [i \in 0 .. n |-> IF i = 0 THEN none ELSE WithEvidence(g, arcs, f[i - 1], first[i])]
  BY <1>5, <1>6
<1> QED
  BY <1>7 DEF AreAdded, n, none, arcs

(* The rows follow the candidates, within the budget of the evidence.      *)
LEMMA ListedFollows ==
  ASSUME NEW g \in Inputs, NEW scope, scope.relations \subseteq FourRelations, NEW first \in Seq(PairCandidates)
  PROVE  LET arcs == Definitive(g, scope)
             listed == Listed(g, arcs, first)
         IN  /\ listed \in Answers(arcs) /\ Len(listed.rows) = Len(first)
             /\ \A i \in 1 .. Len(first) : IsRowOf(g, arcs, listed.rows[i], first[i], listed.cut)
<1> DEFINE arcs == Definitive(g, scope)
           n == Len(first)
           none == [used |-> 0, cut |-> FALSE, rows |-> <<>>]
           s == CHOOSE s : AreAdded(s, g, arcs, first)
           Holds(reply, k) == /\ reply \in Answers(arcs) /\ Len(reply.rows) = k
                               /\ \A i \in 1 .. k : IsRowOf(g, arcs, reply.rows[i], first[i], reply.cut)
           T == {k \in 0 .. n : Holds(s[k], k)}
<1>1. n \in Nat /\ \A k \in 1 .. n : k \in 0 .. n /\ k # 0 /\ k - 1 \in Nat /\ first[k] \in PairCandidates
  OBVIOUS
<1>2. none \in Answers(arcs) /\ none.rows = <<>>
  BY LimitsAssumption DEF Answers
<1>3. AreAdded(s, g, arcs, first)
  BY RowsExist
<1>4. Listed(g, arcs, first) = s[n]
  <2> HIDE DEF arcs
  <2> QED
    BY DEF Listed, AreAdded
<1> HIDE DEF s, n
<1>5. \A k \in 0 .. n : s[k] = IF k = 0 THEN none ELSE WithEvidence(g, arcs, s[k - 1], first[k])
  <2> HIDE DEF arcs
  <2> QED
    BY <1>3 DEF AreAdded, n
<1> HIDE DEF none
<1>6. 0 \in T
  <2>1. 0 \in 0 .. n /\ s[0] = none
    BY <1>1, <1>5
  <2>2. Len(none.rows) = 0 /\ 1 .. 0 = {}
    BY <1>2
  <2> QED
    BY <1>2, <2>1, <2>2
<1>7. ASSUME NEW k \in 1 .. n, k - 1 \in T PROVE k \in T
  <2> DEFINE reply == s[k - 1]
             next == WithEvidence(g, arcs, reply, first[k])
  <2>1. k \in 0 .. n /\ k \in Nat /\ s[k] = next /\ first[k] \in PairCandidates
    BY <1>1, <1>5
  <2>2. Holds(reply, k - 1)
    BY <1>7
  <2> HIDE DEF reply, next
  <2>3. /\ next \in Answers(arcs) /\ (~next.cut => ~reply.cut)
        /\ \E row \in Rows(arcs) : next.rows = Append(reply.rows, row) /\ IsRowOf(g, arcs, row, first[k], next.cut)
    BY <2>1, <2>2, RowIsAdded DEF next
  <2>4. PICK row \in Rows(arcs) : next.rows = Append(reply.rows, row) /\ IsRowOf(g, arcs, row, first[k], next.cut)
    BY <2>3
  <2>5. reply.rows \in Seq(Rows(arcs)) /\ Len(reply.rows) = k - 1
    BY <2>2 DEF Answers
  <2>6. /\ Len(next.rows) = k /\ next.rows[k] = row
        /\ \A i \in 1 .. k - 1 : next.rows[i] = reply.rows[i]
    BY <2>1, <2>4, <2>5
  <2>7. ASSUME NEW i \in 1 .. k PROVE IsRowOf(g, arcs, next.rows[i], first[i], next.cut)
    <3>1. CASE i = k
      BY <2>4, <2>6, <3>1
    <3>2. CASE i # k
      <4>1. i \in 1 .. k - 1
        BY <2>1, <3>2
      <4>2. IsRowOf(g, arcs, reply.rows[i], first[i], reply.cut)
        BY <2>2, <4>1
      <4>3. IsRowOf(g, arcs, reply.rows[i], first[i], next.cut)
        BY <2>3, <4>2 DEF IsRowOf
      <4> QED
        BY <2>6, <4>1, <4>3
    <3> QED
      BY <3>1, <3>2
  <2>8. Holds(next, k)
    BY <2>3, <2>6, <2>7
  <2> QED
    BY <2>1, <2>8
<1>8. Holds(s[n], n)
  <2> HIDE DEF T, Holds
  <2>1. 0 .. n \subseteq T
    BY ONLY <1>1, <1>6, <1>7, UpTo
  <2>2. n \in 0 .. n
    BY <1>1
  <2> QED
    BY <2>1, <2>2 DEF T
<1> QED
  BY <1>4, <1>8 DEF n

-----------------------------------------------------------------------------
(* What the runtime has observed *)

(* The counts of the edges of a set, added up.                             *)
AddsCounts(calls, seen) ==
  calls = [S \in SUBSET seen |->
             IF S = {} THEN 0 ELSE LET e == CHOOSE e \in S : TRUE IN e.count + calls[S \ {e}]]

LEMMA CountsExist ==
  ASSUME NEW seen, IsFiniteSet(seen), \A e \in seen : e.count \in Nat
  PROVE  \E calls : AddsCounts(calls, seen)
<1> DEFINE N == Cardinality(seen)
           pick(S) == CHOOSE e \in S : TRUE
           small == [k \in Nat |-> {S \in SUBSET seen : Cardinality(S) <= k}]
           Value(f, S) == IF S = {} THEN 0 ELSE pick(S).count + f[S \ {pick(S)}]
           Adds(f, k) == f \in [small[k] -> Nat] /\ \A S \in small[k] : f[S] = Value(f, S)
           T == {k \in 0 .. N : \E f : Adds(f, k)}
<1>1. N \in Nat
  BY FS_CardinalityType
<1>2. ASSUME NEW S \in SUBSET seen
      PROVE  /\ IsFiniteSet(S) /\ Cardinality(S) \in Nat /\ Cardinality(S) <= N
             /\ Cardinality(S) = 0 <=> S = {}
  <2>1. IsFiniteSet(S) /\ Cardinality(S) <= N
    BY FS_Subset
  <2> QED
    BY <2>1, FS_CardinalityType, FS_EmptySet
<1>3. ASSUME NEW S \in SUBSET seen, S # {}
      PROVE  /\ pick(S) \in S /\ pick(S).count \in Nat /\ S \ {pick(S)} \in SUBSET seen
             /\ Cardinality(S \ {pick(S)}) = Cardinality(S) - 1
  <2>1. pick(S) \in S
    BY <1>3
  <2>2. IsFiniteSet(S)
    BY <1>2
  <2> HIDE DEF pick
  <2>3. Cardinality(S \ {pick(S)}) = Cardinality(S) - 1
    BY <2>1, <2>2, FS_RemoveElement
  <2> QED
    BY <2>1, <2>3
<1> HIDE DEF pick, N
<1>4. 0 \in T
  <2> DEFINE f == [S \in small[0] |-> 0]
  <2>1. \A S \in small[0] : S = {}
    BY <1>2
  <2>2. Adds(f, 0)
    BY <2>1
  <2> HIDE DEF f, Adds
  <2> QED
    BY <1>1, <2>2
<1>5. ASSUME NEW k \in 1 .. N, k - 1 \in T PROVE k \in T
  <2>1. PICK f : Adds(f, k - 1)
    BY <1>5
  <2> DEFINE g == [S \in small[k] |-> Value(f, S)]
  <2>2. k \in Nat /\ k - 1 \in Nat
    BY <1>1
  <2>3. \A S \in small[k] : S # {} => S \ {pick(S)} \in small[k - 1]
    <3> SUFFICES ASSUME NEW S \in small[k], S # {} PROVE S \ {pick(S)} \in small[k - 1]
      OBVIOUS
    <3>1. S \in SUBSET seen /\ Cardinality(S) <= k /\ Cardinality(S) \in Nat
      BY <1>2, <2>2
    <3>2. S \ {pick(S)} \in SUBSET seen /\ Cardinality(S \ {pick(S)}) = Cardinality(S) - 1
      BY <1>3, <3>1
    <3>3. Cardinality(S \ {pick(S)}) <= k - 1
      BY <2>2, <3>1, <3>2
    <3> QED
      BY <2>2, <3>2, <3>3
  <2>4. \A S \in small[k - 1] : S \in small[k]
    <3> SUFFICES ASSUME NEW S \in small[k - 1] PROVE S \in small[k]
      OBVIOUS
    <3>1. S \in SUBSET seen /\ Cardinality(S) <= k - 1 /\ Cardinality(S) \in Nat
      BY <1>2, <2>2
    <3> QED
      BY <2>2, <3>1
  <2>5. \A S \in small[k] : S \in SUBSET seen
    BY <2>2
  <2> HIDE DEF small
  <2>6. \A S \in small[k] : Value(f, S) \in Nat
    <3> SUFFICES ASSUME NEW S \in small[k], S # {} PROVE pick(S).count + f[S \ {pick(S)}] \in Nat
      OBVIOUS
    <3>1. pick(S).count \in Nat /\ f[S \ {pick(S)}] \in Nat
      BY <1>3, <2>1, <2>3, <2>5
    <3> QED
      BY <3>1
  <2>7. \A S \in small[k - 1] : g[S] = f[S]
    BY <2>1, <2>4
  <2>8. g \in [small[k] -> Nat]
    BY <2>6
  <2>9. \A S \in small[k] : g[S] = Value(f, S) /\ (S # {} => g[S \ {pick(S)}] = f[S \ {pick(S)}])
    BY <2>3, <2>7
  <2> HIDE DEF g
  <2>10. \A S \in small[k] : g[S] = Value(g, S)
    BY <2>9
  <2>11. Adds(g, k)
    BY <2>8, <2>10
  <2> HIDE DEF Adds
  <2>12. k \in 0 .. N
    BY <1>1
  <2> QED
    BY <2>11, <2>12
<1>6. N \in T
  <2> HIDE DEF T
  <2>1. 0 .. N \subseteq T
    BY ONLY <1>1, <1>4, <1>5, UpTo
  <2>2. N \in 0 .. N
    BY <1>1
  <2> QED
    BY <2>1, <2>2
<1>7. PICK f : Adds(f, N)
  BY <1>6
<1>8. small[N] = SUBSET seen
  BY <1>1, <1>2
<1> HIDE DEF small
<1>9. f \in [SUBSET seen -> Nat] /\ \A S \in SUBSET seen : f[S] = Value(f, S)
  BY <1>7, <1>8
<1>10. f = [S \in SUBSET seen |-> Value(f, S)]
  BY <1>9
<1> QED
  BY <1>9, <1>10 DEF AddsCounts, pick

LEMMA CountsAreNumbers ==
  ASSUME NEW seen, IsFiniteSet(seen), \A e \in seen : e.count \in Nat, NEW f, AddsCounts(f, seen)
  PROVE  \A S \in SUBSET seen : f[S] \in Nat
<1> DEFINE N == Cardinality(seen)
           pick(S) == CHOOSE e \in S : TRUE
           T == {k \in 0 .. N : \A S \in SUBSET seen : Cardinality(S) <= k => f[S] \in Nat}
<1>1. N \in Nat
  BY FS_CardinalityType
<1>2. ASSUME NEW S \in SUBSET seen
      PROVE  /\ IsFiniteSet(S) /\ Cardinality(S) \in Nat /\ Cardinality(S) <= N
             /\ Cardinality(S) = 0 <=> S = {}
  <2>1. IsFiniteSet(S) /\ Cardinality(S) <= N
    BY FS_Subset
  <2> QED
    BY <2>1, FS_CardinalityType, FS_EmptySet
<1>3. /\ f[{}] = 0
      /\ \A S \in SUBSET seen : S # {} => f[S] = pick(S).count + f[S \ {pick(S)}]
  <2>1. \A S \in SUBSET seen : f[S] = IF S = {} THEN 0 ELSE pick(S).count + f[S \ {pick(S)}]
    BY DEF AddsCounts
  <2> HIDE DEF pick
  <2>2. f[{}] = 0
    <3>1. {} \in SUBSET seen
      OBVIOUS
    <3> QED
      BY <2>1, <3>1
  <2>3. ASSUME NEW S \in SUBSET seen, S # {} PROVE f[S] = pick(S).count + f[S \ {pick(S)}]
    BY <2>1, <2>3
  <2> QED
    BY <2>2, <2>3
<1>4. ASSUME NEW S \in SUBSET seen, S # {}
      PROVE  /\ pick(S).count \in Nat /\ S \ {pick(S)} \in SUBSET seen
             /\ Cardinality(S \ {pick(S)}) = Cardinality(S) - 1
  <2>1. pick(S) \in S
    BY <1>4
  <2>2. IsFiniteSet(S)
    BY <1>2
  <2> HIDE DEF pick
  <2>3. Cardinality(S \ {pick(S)}) = Cardinality(S) - 1
    BY <2>1, <2>2, FS_RemoveElement
  <2> QED
    BY <2>1, <2>3
<1> HIDE DEF pick, N
<1>5. 0 \in T
  <2> SUFFICES ASSUME NEW S \in SUBSET seen, Cardinality(S) <= 0 PROVE f[S] \in Nat
    BY <1>1
  <2>1. S = {}
    BY <1>2
  <2> QED
    BY <1>3, <2>1
<1>6. ASSUME NEW k \in 1 .. N, k - 1 \in T PROVE k \in T
  <2>1. ASSUME NEW S \in SUBSET seen, Cardinality(S) <= k PROVE f[S] \in Nat
    <3>1. CASE S = {}
      BY <1>3, <3>1
    <3>2. CASE S # {}
      <4> DEFINE rest == S \ {pick(S)}
      <4>1. f[S] = pick(S).count + f[rest]
        BY <1>3, <3>2
      <4>2. pick(S).count \in Nat /\ rest \in SUBSET seen /\ Cardinality(rest) = Cardinality(S) - 1
        BY <1>4, <3>2
      <4>3. Cardinality(rest) <= k - 1
        BY <1>1, <1>2, <2>1, <4>2
      <4> HIDE DEF rest
      <4>4. f[rest] \in Nat
        BY <1>6, <4>2, <4>3
      <4> QED
        BY <4>1, <4>2, <4>4
    <3> QED
      BY <3>1, <3>2
  <2>2. k \in 0 .. N
    BY <1>1
  <2> QED
    BY <2>1, <2>2
<1>7. N \in T
  <2> HIDE DEF T
  <2>1. 0 .. N \subseteq T
    BY ONLY <1>1, <1>5, <1>6, UpTo
  <2>2. N \in 0 .. N
    BY <1>1
  <2> QED
    BY <2>1, <2>2
<1> QED
  BY <1>2, <1>7

LEMMA ProfileIsOfNumbers ==
  ASSUME NEW g \in Inputs, NEW arcs, NEW c
  PROVE  RuntimeProfile(g, arcs, c).duplicate \in Nat /\ RuntimeProfile(g, arcs, c).unproven \in Nat
<1> DEFINE seen == {e \in g.observed : {e.source, e.target} \cap {c.left, c.right} # {}}
           calls == CHOOSE f : AddsCounts(f, seen)
           of == {e \in seen : e.target = c.right}
           unproven == {e \in seen : ~\E a \in arcs : a.source = e.source /\ a.target = e.target}
<1>1. IsFiniteSet(seen) /\ \A e \in seen : e.count \in Nat
  <2>1. seen \in SUBSET g.observed
    OBVIOUS
  <2> QED
    BY <2>1, IndexedGraphsAssumption, FS_Subset
<1>2. /\ RuntimeProfile(g, arcs, c).duplicate = calls[of]
      /\ RuntimeProfile(g, arcs, c).unproven = Cardinality(unproven)
  BY DEF RuntimeProfile, AddsCounts
<1>3. of \in SUBSET seen /\ unproven \in SUBSET seen
  OBVIOUS
<1> HIDE DEF seen, of, unproven
<1>4. AddsCounts(calls, seen)
  <2>1. \E f : AddsCounts(f, seen)
    BY <1>1, CountsExist
  <2> QED
    BY <2>1
<1> HIDE DEF calls
<1>5. \A S \in SUBSET seen : calls[S] \in Nat
  BY <1>1, <1>4, CountsAreNumbers
<1>6. Cardinality(unproven) \in Nat
  BY <1>1, <1>3, FS_Subset, FS_CardinalityType
<1> QED
  BY <1>2, <1>3, <1>5, <1>6

-----------------------------------------------------------------------------
(* The strategies of a row *)

ThreePolicies == {"preserve_entrypoints", "canonical_entrypoint", "consolidate"}

LEMMA PoliciesHaveRungs ==
  /\ Range(Policies) = ThreePolicies
  /\ Rung("preserve_entrypoints") = 1 /\ Rung("canonical_entrypoint") = 2 /\ Rung("consolidate") = 3
<1>1. /\ DOMAIN Policies = 1 .. 3
      /\ Policies[1] = "preserve_entrypoints" /\ Policies[2] = "canonical_entrypoint" /\ Policies[3] = "consolidate"
  BY DEF Policies
<1>2. 1 .. 3 = {1, 2, 3}
  OBVIOUS
<1>3. Range(Policies) = ThreePolicies
  BY <1>1, <1>2 DEF Range, ThreePolicies
<1>4. Rung("preserve_entrypoints") = 1 /\ Rung("canonical_entrypoint") = 2 /\ Rung("consolidate") = 3
  BY <1>1, <1>2 DEF Rung
<1> QED
  BY <1>3, <1>4

(* What would remove something ranks behind, while gaps block it.          *)
LEMMA BlockedScoresLess ==
  ASSUME NEW total \in Shares, NEW shared \in Nat, NEW profile, profile.duplicate \in Nat, profile.unproven \in Nat,
         NEW policy \in ThreePolicies
  PROVE  /\ \A blocked \in BOOLEAN : Score(policy, blocked, total, shared, profile) \in Shares
         /\ Score(policy, TRUE, total, shared, profile) <= Score("preserve_entrypoints", FALSE, total, shared, profile)
<1> DEFINE d == Lesser(profile.duplicate, 100)
           u == profile.unproven
           Of(gained, risk, penalty, more) == Lesser(1000, Minus(Minus(Minus(gained, risk), penalty), more))
<1>1. d \in Nat /\ u \in Nat /\ total \in Nat /\ total <= 1000
  BY DEF Lesser, Shares
<1>2. \A blocked :
        /\ Score("preserve_entrypoints", blocked, total, shared, profile) =
             Of((total * 70) \div 100 + 80 + shared * 30, 50, d * 0 + u * 50, IF blocked THEN 1000 ELSE 0)
        /\ Score("canonical_entrypoint", blocked, total, shared, profile) =
             Of((total * 75) \div 100 + 140 + shared * 30, 180, d * 2 + u * 50, IF blocked THEN 1000 ELSE 0)
        /\ Score("consolidate", blocked, total, shared, profile) =
             Of((total * 85) \div 100 + 240 + shared * 30, 300, d * 4 + u * 50, IF blocked THEN 1000 ELSE 0)
  BY DEF Score, Weights
<1>3. ASSUME NEW gained \in Nat, NEW risk \in Nat, NEW penalty \in Nat, NEW more \in Nat
      PROVE  Of(gained, risk, penalty, more) \in Shares
  BY DEF Lesser, Minus, Shares
<1>4. ASSUME NEW weight \in 0 .. 100 PROVE (total * weight) \div 100 \in 0 .. 1000
  <2> DEFINE product == total * weight
  <2>1. product \in Nat /\ product <= 1000 * 100
    <3>1. total * weight \in Nat
      BY <1>1
    <3>2. total * weight <= 1000 * weight
      BY <1>1
    <3>3. 1000 * weight <= 100000
      OBVIOUS
    <3> QED
      BY <3>1, <3>2, <3>3
  <2> HIDE DEF product
  <2>2. product \div 100 \in 0 .. 1000
    BY <2>1
  <2> QED
    BY <2>2 DEF product
<1> DEFINE a == (total * 70) \div 100
           b == (total * 75) \div 100
           c == (total * 85) \div 100
<1>5. a \in 0 .. 1000 /\ b \in 0 .. 750 /\ c \in 0 .. 850
  BY <1>1
<1> HIDE DEF a, b, c, d, u
<1>6. \A blocked \in BOOLEAN : Score(policy, blocked, total, shared, profile) \in Shares
  <2> SUFFICES ASSUME NEW blocked \in BOOLEAN PROVE Score(policy, blocked, total, shared, profile) \in Shares
    OBVIOUS
  <2> DEFINE more == IF blocked THEN 1000 ELSE 0
  <2>1. /\ more \in Nat /\ d * 0 + u * 50 \in Nat /\ d * 2 + u * 50 \in Nat /\ d * 4 + u * 50 \in Nat
        /\ a + 80 + shared * 30 \in Nat /\ b + 140 + shared * 30 \in Nat /\ c + 240 + shared * 30 \in Nat
    BY <1>1, <1>5
  <2> HIDE DEF more, Of
  <2>2. /\ Score("preserve_entrypoints", blocked, total, shared, profile) = Of(a + 80 + shared * 30, 50, d * 0 + u * 50, more)
        /\ Score("canonical_entrypoint", blocked, total, shared, profile) = Of(b + 140 + shared * 30, 180, d * 2 + u * 50, more)
        /\ Score("consolidate", blocked, total, shared, profile) = Of(c + 240 + shared * 30, 300, d * 4 + u * 50, more)
    BY <1>2 DEF a, b, c, more
  <2> QED
    BY <1>3, <2>1, <2>2 DEF ThreePolicies
<1>7. /\ Of(a + 80 + shared * 30, 50, d * 0 + u * 50, 1000) <= Of(a + 80 + shared * 30, 50, d * 0 + u * 50, 0)
      /\ Of(b + 140 + shared * 30, 180, d * 2 + u * 50, 1000) <= Of(a + 80 + shared * 30, 50, d * 0 + u * 50, 0)
      /\ Of(c + 240 + shared * 30, 300, d * 4 + u * 50, 1000) <= Of(a + 80 + shared * 30, 50, d * 0 + u * 50, 0)
  BY <1>1, <1>5 DEF Lesser, Minus
<1> HIDE DEF Of
<1> DEFINE mildOf(more) == Of(a + 80 + shared * 30, 50, d * 0 + u * 50, more)
           mediumOf(more) == Of(b + 140 + shared * 30, 180, d * 2 + u * 50, more)
           boldOf(more) == Of(c + 240 + shared * 30, 300, d * 4 + u * 50, more)
           bound == Score("preserve_entrypoints", FALSE, total, shared, profile)
           mild == Score("preserve_entrypoints", TRUE, total, shared, profile)
           medium == Score("canonical_entrypoint", TRUE, total, shared, profile)
           bold == Score("consolidate", TRUE, total, shared, profile)
           here == Score(policy, TRUE, total, shared, profile)
<1>8. mildOf(1000) <= mildOf(0) /\ mediumOf(1000) <= mildOf(0) /\ boldOf(1000) <= mildOf(0)
  BY <1>7
<1>9. bound = mildOf(0)
  BY DEF Score, Weights, a, d, u, Of
<1>10. mild = mildOf(1000)
  BY DEF Score, Weights, a, d, u, Of
<1>11. medium = mediumOf(1000)
  BY DEF Score, Weights, b, d, u, Of
<1>12. bold = boldOf(1000)
  BY DEF Score, Weights, c, d, u, Of
<1>13. here \in {mild, medium, bold}
  BY DEF ThreePolicies
<1> HIDE DEF mildOf, mediumOf, boldOf, bound, mild, medium, bold, here
<1>14. here <= bound
  BY <1>8, <1>9, <1>10, <1>11, <1>12, <1>13
<1>15. Score(policy, TRUE, total, shared, profile) <= Score("preserve_entrypoints", FALSE, total, shared, profile)
  BY <1>14 DEF bound, here
<1> QED
  BY <1>6, <1>15

(* The strategies of a row, and that the first of them is not blocked.     *)
LEMMA StrategiesAreOrdered ==
  ASSUME NEW g \in Inputs, NEW arcs, NEW row \in Rows(arcs), IsFiniteSet(row.shared), NEW partial \in BOOLEAN
  PROVE  LET list == Derive(g, arcs, row, partial) IN
         /\ Range(list) = {Strategy(g, arcs, row, policy, partial) : policy \in ThreePolicies}
         /\ ~list[1].blocked
<1> DEFINE total == row.similarity.total
           shared == Cardinality(row.shared)
           profile == RuntimeProfile(g, arcs, row)
           Of(policy) == Strategy(g, arcs, row, policy, partial)
           futures == {Of(policy) : policy \in ThreePolicies}
           key == [s \in futures |-> <<1000 - s.score, Rung(s.policy)>>]
           keyed == {<<<<1000 - s.score, Rung(s.policy)>>, s>> : s \in futures}
           list == InOrder(keyed)
           mildest == Of("preserve_entrypoints")
<1>1. total \in Shares /\ shared \in Nat /\ profile.duplicate \in Nat /\ profile.unproven \in Nat
  <2>1. row.similarity \in Similarities
    BY DEF Rows
  <2>2. total \in Shares
    BY <2>1 DEF Similarities
  <2> QED
    BY <2>2, ProfileIsOfNumbers, FS_CardinalityType
<1>2. \A policy : /\ Of(policy).policy = policy
                  /\ Of(policy).blocked = (policy # "preserve_entrypoints" /\ partial)
                  /\ Of(policy).score = Score(policy, policy # "preserve_entrypoints" /\ partial, total, shared, profile)
  BY DEF Strategy
<1>3. Derive(g, arcs, row, partial) = list
  BY PoliciesHaveRungs DEF Derive
<1> HIDE DEF total, shared, profile, Of
<1>4. ASSUME NEW policy \in ThreePolicies
      PROVE  /\ Of(policy).score \in Shares
             /\ Of(policy).blocked => Of(policy).score <= mildest.score
  <2>1. (policy # "preserve_entrypoints" /\ partial) \in BOOLEAN
    OBVIOUS
  <2>2. Of(policy).score \in Shares
    BY <1>1, <1>2, <2>1, BlockedScoresLess
  <2>3. ASSUME Of(policy).blocked PROVE Of(policy).score <= mildest.score
    <3>1. policy # "preserve_entrypoints" /\ partial
      BY <1>2, <2>3
    <3>2. Of(policy).score = Score(policy, TRUE, total, shared, profile)
      <4>1. (policy # "preserve_entrypoints" /\ partial) = TRUE
        BY <3>1
      <4> QED
        BY <1>2, <4>1
    <3>3. mildest.score = Score("preserve_entrypoints", FALSE, total, shared, profile)
      <4>1. ("preserve_entrypoints" # "preserve_entrypoints" /\ partial) = FALSE
        OBVIOUS
      <4> QED
        BY <1>2, <4>1
    <3> QED
      BY <1>1, <3>2, <3>3, BlockedScoresLess
  <2> QED
    BY <2>2, <2>3
<1>5. \A s \in futures : \E policy \in ThreePolicies : s = Of(policy) /\ s.policy = policy
  BY <1>2
<1>6. \A s \in futures : Rung(s.policy) \in 1 .. 3
  BY <1>5, PoliciesHaveRungs DEF ThreePolicies
<1>7. \A s, t \in futures : Rung(s.policy) = Rung(t.policy) => s = t
  <2> SUFFICES ASSUME NEW s \in futures, NEW t \in futures, Rung(s.policy) = Rung(t.policy) PROVE s = t
    OBVIOUS
  <2>1. PICK p \in ThreePolicies : s = Of(p) /\ s.policy = p
    BY <1>5
  <2>2. PICK q \in ThreePolicies : t = Of(q) /\ t.policy = q
    BY <1>5
  <2>3. p = q
    BY <2>1, <2>2, PoliciesHaveRungs DEF ThreePolicies
  <2> QED
    BY <2>1, <2>2, <2>3
<1>8. IsFiniteSet(futures)
  <2> DEFINE f == [policy \in ThreePolicies |-> Of(policy)]
  <2>1. IsFiniteSet(ThreePolicies)
    <3>1. IsFiniteSet({"preserve_entrypoints"}) /\ IsFiniteSet({"canonical_entrypoint"}) /\ IsFiniteSet({"consolidate"})
      BY FS_Singleton
    <3>2. IsFiniteSet({"preserve_entrypoints"} \cup {"canonical_entrypoint"})
      BY <3>1, FS_Union
    <3>3. IsFiniteSet(({"preserve_entrypoints"} \cup {"canonical_entrypoint"}) \cup {"consolidate"})
      BY <3>1, <3>2, FS_Union
    <3>4. ThreePolicies = ({"preserve_entrypoints"} \cup {"canonical_entrypoint"}) \cup {"consolidate"}
      BY DEF ThreePolicies
    <3> QED
      BY <3>3, <3>4
  <2>2. futures = {f[policy] : policy \in ThreePolicies}
    OBVIOUS
  <2> HIDE DEF f
  <2> QED
    BY <2>1, <2>2, ImageIsFinite
<1>9. mildest \in futures /\ Rung(mildest.policy) = 1 /\ ~mildest.blocked
  BY <1>2, PoliciesHaveRungs DEF ThreePolicies
<1>10. \A s \in futures : s.score \in Shares /\ (s.blocked => s.score <= mildest.score)
  BY <1>4, <1>5
<1> HIDE DEF futures, mildest
<1>11. IsKey(key, futures, 2)
  <2>1. \A s \in futures : 1000 - s.score \in Nat /\ Rung(s.policy) \in Nat
    <3>1. \A n \in Shares : 1000 - n \in Nat
      BY DEF Shares
    <3>2. \A n \in 1 .. 3 : n \in Nat
      OBVIOUS
    <3> QED
      BY <1>6, <1>10, <3>1, <3>2
  <2>2. key \in [futures -> [1 .. 2 -> Nat]]
    BY <2>1
  <2>3. \A s, t \in futures : key[s] = key[t] => s = t
    BY <1>7
  <2> HIDE DEF key
  <2> QED
    BY <1>8, <2>2, <2>3 DEF IsKey
<1>12. keyed = {<<key[s], s>> : s \in futures}
  OBVIOUS
<1>13. \A s \in futures : key[s] = <<1000 - s.score, Rung(s.policy)>>
  OBVIOUS
<1> HIDE DEF keyed, key
<1>14. ListsInOrder(list, futures, key)
  BY <1>11, <1>12, InOrderLists
<1> HIDE DEF list
<1>15. Range(list) = futures /\ \A i \in 1 .. Len(list) : list[i] \in futures
  BY <1>14 DEF ListsInOrder
<1>16. PICK i \in 1 .. Len(list) : list[i] = mildest
  <2>1. DOMAIN list = 1 .. Len(list)
    BY <1>14 DEF ListsInOrder
  <2> QED
    BY <1>9, <1>15, <2>1 DEF Range
<1>17. 1 \in 1 .. Len(list) /\ i \in Nat
  <2>1. Len(list) \in Nat
    BY <1>14 DEF ListsInOrder
  <2> QED
    BY <2>1
<1>18. ~list[1].blocked
  <2>1. CASE i = 1
    BY <1>9, <1>16, <2>1
  <2>2. CASE i # 1
    <3> DEFINE s == list[1]
    <3>1. Lower(key[s], key[mildest]) /\ s \in futures
      <4>1. 1 < i
        BY <1>17, <2>2
      <4> QED
        BY <1>14, <1>15, <1>16, <1>17, <4>1 DEF ListsInOrder
    <3> HIDE DEF s
    <3>2. key[s] = <<1000 - s.score, Rung(s.policy)>> /\ key[mildest] = <<1000 - mildest.score, 1>>
      BY <1>9, <1>13, <3>1
    <3>3. PICK m \in DOMAIN key[s] : key[s][m] < key[mildest][m]
      BY <3>1 DEF Lower
    <3>4. m = 1 \/ m = 2
      BY <3>2, <3>3
    <3>5. m = 1
      <4>1. ~(Rung(s.policy) < 1)
        BY <1>6, <3>1
      <4> QED
        BY <3>2, <3>3, <3>4, <4>1
    <3>6. 1000 - s.score < 1000 - mildest.score
      BY <3>2, <3>3, <3>5
    <3>7. ~(s.score <= mildest.score)
      <4>1. s.score \in Nat /\ mildest.score \in Nat
        <5>1. s.score \in Shares /\ mildest.score \in Shares
          BY <1>9, <1>10, <3>1
        <5>2. \A n \in Shares : n \in Nat
          BY DEF Shares
        <5> QED
          BY <5>1, <5>2
      <4> QED
        BY <3>6, <4>1
    <3> QED
      BY <1>10, <3>1, <3>7 DEF s
  <2> QED
    BY <2>1, <2>2
<1> QED
  BY <1>3, <1>15, <1>18 DEF futures, Of

-----------------------------------------------------------------------------
(* What suggest_refactors answers *)

(* answer lists the first of all candidates, with what is listed of each.  *)
IsAnswer(g, arcs, reply, limit, known, all, first, listed) ==
  /\ all \in Seq(PairCandidates) /\ first \in Seq(PairCandidates)
  /\ Range(first) \subseteq Range(all) /\ (Len(all) <= limit => first = all)
  /\ listed \in Answers(arcs) /\ Len(listed.rows) = Len(first)
  /\ \A i \in 1 .. Len(first) : IsRowOf(g, arcs, listed.rows[i], first[i], listed.cut)
  /\ reply.rows = listed.rows /\ reply.used = listed.used
  /\ reply.gaps = known \cup (IF Len(all) > limit THEN {"RESULT_LIMIT"} ELSE {})
                         \cup (IF listed.cut THEN {"REFACTOR_EVIDENCE_BUDGET"} ELSE {})
                         \cup (IF g.gaps THEN {"COVERAGE"} ELSE {})
  /\ reply.strategies = [i \in DOMAIN listed.rows |-> Derive(g, arcs, listed.rows[i], reply.gaps # {})]

LEMMA SuggestionsAreListed ==
  ASSUME NEW g \in Inputs, NEW asked \in RefactorRequests, NEW input \in {None, g}
  PROVE  LET scan == Scan(g, input, asked) IN
         \E all, first, listed :
           /\ Range(all) = scan.candidates /\ Len(all) = Cardinality(scan.candidates)
           /\ IsAnswer(g, Definitive(g, asked.scope), Suggest(g, input, asked), asked.limit, scan.gaps,
                       all, first, listed)
<1> DEFINE scan == Scan(g, input, asked)
           arcs == Definitive(g, asked.scope)
           candidates == scan.candidates
           all == BySimilarity(g, candidates)
           first == Leading(asked.limit, all)
           listed == Listed(g, arcs, first)
           reply == Suggest(g, input, asked)
<1>1. candidates \subseteq Meant(g, asked)
  BY ScanFinds DEF Finds
<1>2. /\ IsFiniteSet(candidates) /\ candidates \in SUBSET PairCandidates
      /\ \A c \in candidates : \E x, y \in g.docs : c = ScoredPair(x, y, arcs)
  <2> HIDE DEF candidates, arcs
  <2>1. /\ IsFiniteSet(Meant(g, asked)) /\ Meant(g, asked) \subseteq PairCandidates
        /\ \A c \in Meant(g, asked) : \E x, y \in g.docs : c = ScoredPair(x, y, arcs)
    BY MeantAreOfDocs DEF arcs
  <2> QED
    BY <1>1, <2>1, FS_Subset
<1>3. IsFiniteSet(arcs)
  BY DefinitiveAreArcs
<1>4. asked.limit \in Nat /\ asked.scope.relations \subseteq FourRelations
  BY RefactorRequestsAssumption DEF FourRelations
<1>5. /\ reply.rows = listed.rows /\ reply.used = listed.used
      /\ reply.gaps = scan.gaps \cup (IF Len(all) > asked.limit THEN {"RESULT_LIMIT"} ELSE {})
                                 \cup (IF listed.cut THEN {"REFACTOR_EVIDENCE_BUDGET"} ELSE {})
                                 \cup (IF g.gaps THEN {"COVERAGE"} ELSE {})
      /\ reply.strategies = [i \in DOMAIN listed.rows |-> Derive(g, arcs, listed.rows[i], reply.gaps # {})]
  <2> DEFINE known == scan.gaps \cup IF Len(all) > asked.limit THEN {"RESULT_LIMIT"} ELSE {}
  <2>1. reply = Suggested(g, arcs, listed, known)
    BY DEF Suggest, SuggestAmong
  <2> HIDE DEF reply, arcs, listed, all, scan
  <2>2. known = scan.gaps \cup IF Len(all) > asked.limit THEN {"RESULT_LIMIT"} ELSE {}
    OBVIOUS
  <2> HIDE DEF known
  <2>3. /\ reply.rows = listed.rows /\ reply.used = listed.used
        /\ reply.gaps = known \cup (IF listed.cut THEN {"REFACTOR_EVIDENCE_BUDGET"} ELSE {})
                               \cup IF g.gaps THEN {"COVERAGE"} ELSE {}
        /\ reply.strategies = [i \in DOMAIN listed.rows |-> Derive(g, arcs, listed.rows[i], reply.gaps # {})]
    BY <2>1 DEF Suggested
  <2> QED
    BY <2>2, <2>3
<1> HIDE DEF reply, listed, scan
<1>6. \E key : ListsInOrder(all, candidates, key)
  <2> HIDE DEF candidates, arcs
  <2> QED
    BY <1>2, <1>3, BySimilarityLists
<1> HIDE DEF all
<1>7. all \in Seq(PairCandidates) /\ Range(all) = candidates /\ Len(all) = Cardinality(candidates)
  <2>1. all \in Seq(candidates) /\ Range(all) = candidates /\ Len(all) = Cardinality(candidates)
    BY <1>6 DEF ListsInOrder
  <2> HIDE DEF candidates
  <2> QED
    BY <1>2, <2>1
<1>8. first \in Seq(PairCandidates) /\ Range(first) \subseteq Range(all) /\ (Len(all) <= asked.limit => first = all)
  BY <1>4, <1>7, LeadingIsFirst
<1> HIDE DEF first
<1>9. /\ listed \in Answers(arcs) /\ Len(listed.rows) = Len(first)
      /\ \A i \in 1 .. Len(first) : IsRowOf(g, arcs, listed.rows[i], first[i], listed.cut)
  BY <1>4, <1>8, ListedFollows DEF listed
<1> HIDE DEF arcs
<1>10. IsAnswer(g, arcs, reply, asked.limit, scan.gaps, all, first, listed)
  BY <1>5, <1>7, <1>8, <1>9 DEF IsAnswer
<1> QED
  BY <1>7, <1>10 DEF scan, arcs, reply

(* The rows say of which candidates they are.                              *)
LEMMA RowsAreOfFirst ==
  ASSUME NEW g, NEW arcs, NEW reply, NEW limit, NEW known, NEW all, NEW first, NEW listed,
         IsAnswer(g, arcs, reply, limit, known, all, first, listed)
  PROVE  {[left |-> row.left, right |-> row.right, similarity |-> row.similarity] : row \in Range(reply.rows)} = Range(first)
<1> DEFINE Of(row) == [left |-> row.left, right |-> row.right, similarity |-> row.similarity]
           n == Len(first)
<1>1. /\ DOMAIN reply.rows = 1 .. n /\ DOMAIN first = 1 .. n
      /\ \A i \in 1 .. n : first[i] \in PairCandidates
  BY DEF IsAnswer, Answers
<1>2. \A i \in 1 .. n : Of(reply.rows[i]) = first[i]
  BY <1>1 DEF IsAnswer, IsRowOf, PairCandidates
<1> HIDE DEF Of
<1>3. Range(reply.rows) = {reply.rows[i] : i \in 1 .. n} /\ Range(first) = {first[i] : i \in 1 .. n}
  BY <1>1 DEF Range
<1>4. {Of(row) : row \in Range(reply.rows)} = Range(first)
  BY <1>2, <1>3
<1> QED
  BY <1>4 DEF Of

LEMMA AnswerIsComplete ==
  ASSUME NEW g \in Inputs, NEW asked \in RefactorRequests, NEW input \in {None, g}
  PROVE  IsComplete(Suggest(g, input, asked), Meant(g, asked))
<1> DEFINE scan == Scan(g, input, asked)
           reply == Suggest(g, input, asked)
           arcs == Definitive(g, asked.scope)
           meant == Meant(g, asked)
<1>1. Finds(scan, meant)
  BY ScanFinds
<1>2. PICK all, first, listed :
        /\ Range(all) = scan.candidates
        /\ IsAnswer(g, arcs, reply, asked.limit, scan.gaps, all, first, listed)
  BY SuggestionsAreListed
<1> HIDE DEF scan, reply, arcs, meant
<1>3. {[left |-> row.left, right |-> row.right, similarity |-> row.similarity] : row \in Range(reply.rows)} = Range(first)
  BY <1>2, RowsAreOfFirst
<1>4. Range(first) \subseteq meant
  BY <1>1, <1>2 DEF IsAnswer, Finds
<1>5. ASSUME reply.gaps \cap BudgetGaps = {} PROVE Range(first) = meant
  <2>1. scan.gaps \subseteq reply.gaps /\ ("RESULT_LIMIT" \in reply.gaps \/ ~(Len(all) > asked.limit))
    BY <1>2 DEF IsAnswer
  <2>2. scan.gaps = {} /\ ~(Len(all) > asked.limit)
    BY <1>1, <1>5, <2>1 DEF Finds, BudgetGaps
  <2>3. Len(all) <= asked.limit
    <3>1. Len(all) \in Nat /\ asked.limit \in Nat
      BY <1>2, RefactorRequestsAssumption DEF IsAnswer
    <3> QED
      BY <2>2, <3>1
  <2> QED
    BY <1>1, <1>2, <2>2, <2>3 DEF IsAnswer, Finds
<1> QED
  BY <1>3, <1>4, <1>5 DEF IsComplete, reply, meant

(* The proofs of a shared relation are all there.                          *)
LEMMA ProofsAreAll ==
  ASSUME NEW g, NEW arcs, NEW c, NEW proofs \in AllProofs(g, arcs, c)
  PROVE  \E a \in proofs :
           proofs = {b \in arcs : b.kind = a.kind /\ b.target = a.target /\ b.source \in {c.left, c.right}}
<1>1. PICK r \in SharedOf(g, arcs, c) : proofs = ProofsOf(arcs, c, r)
  BY DEF AllProofs
<1>2. PICK a \in arcs : a.source = c.left /\ r = <<a.kind, a.target>>
  BY DEF SharedOf, Outgoing
<1>3. a \in proofs
  BY <1>1, <1>2 DEF ProofsOf
<1>4. proofs = {b \in arcs : b.kind = a.kind /\ b.target = a.target /\ b.source \in {c.left, c.right}}
  BY <1>1, <1>2 DEF ProofsOf
<1> QED
  BY <1>3, <1>4

(* Nothing is kept back of the candidate whose function may be removed.    *)
LEMMA RowShowsAll ==
  ASSUME NEW g, NEW arcs, NEW row, NEW c, IsRowOf(g, arcs, row, c, FALSE)
  PROVE  /\ \A a \in arcs : a.target = row.right /\ IsSymbol(g, a.source) => a \in row.preserve
         /\ \A k \in Outgoing(arcs, row.left) \cap Outgoing(arcs, row.right) :
              IsSymbol(g, k[2]) => \E proofs \in row.shared : \E a \in proofs : <<a.kind, a.target>> = k
<1>1. /\ row.left = c.left /\ row.right = c.right /\ row.shared = AllProofs(g, arcs, c)
      /\ \A a \in IncomingOf(arcs, c) : IsSymbol(g, a.source) => a \in row.preserve
  BY DEF IsRowOf
<1>2. \A a \in arcs : a.target = row.right => a \in IncomingOf(arcs, c)
  BY <1>1 DEF IncomingOf
<1>3. ASSUME NEW k \in Outgoing(arcs, row.left) \cap Outgoing(arcs, row.right), IsSymbol(g, k[2])
      PROVE  \E proofs \in row.shared : \E a \in proofs : <<a.kind, a.target>> = k
  <2>1. k \in SharedOf(g, arcs, c)
    BY <1>1, <1>3 DEF SharedOf
  <2>2. ProofsOf(arcs, c, k) \in row.shared
    BY <1>1, <2>1 DEF AllProofs
  <2>3. PICK a \in arcs : a.source = row.left /\ k = <<a.kind, a.target>>
    BY <1>3 DEF Outgoing
  <2>4. a \in ProofsOf(arcs, c, k)
    BY <1>1, <2>3 DEF ProofsOf
  <2> QED
    BY <2>2, <2>3, <2>4
<1> QED
  BY <1>1, <1>2, <1>3

LEMMA OnlyConsolidationRemoves ==
  ASSUME NEW g, NEW arcs, NEW row, NEW policy \in ThreePolicies, NEW partial \in BOOLEAN,
         NEW x \in Strategy(g, arcs, row, policy, partial).removes, "node" \in DOMAIN x
  PROVE  policy = "consolidate" /\ ~partial
<1> DEFINE blocked == policy # "preserve_entrypoints" /\ partial
<1>1. x \in Removes(row, policy, blocked)
  BY DEF Strategy
<1>2. policy # "preserve_entrypoints"
  <2> SUFFICES ASSUME policy = "preserve_entrypoints" PROVE FALSE
    OBVIOUS
  <2>1. PICK proofs \in row.shared : x = [edges |-> proofs]
    BY <1>1 DEF Removes
  <2>2. DOMAIN x = {"edges"}
    BY <2>1
  <2> QED
    BY <2>2
<1>3. policy = "consolidate" /\ ~blocked
  BY <1>1, <1>2 DEF Removes
<1> QED
  BY <1>3

LEMMA AnswerIsCareful ==
  ASSUME NEW g \in Inputs, NEW asked \in RefactorRequests, NEW input \in {None, g}
  PROVE  IsCareful(g, Definitive(g, asked.scope), Suggest(g, input, asked), Meant(g, asked))
<1> DEFINE scan == Scan(g, input, asked)
           reply == Suggest(g, input, asked)
           arcs == Definitive(g, asked.scope)
           meant == Meant(g, asked)
           partial == reply.gaps # {}
<1>1. Finds(scan, meant)
  BY ScanFinds
<1>2. PICK all, first, listed :
        /\ Range(all) = scan.candidates /\ Len(all) = Cardinality(scan.candidates)
        /\ IsAnswer(g, arcs, reply, asked.limit, scan.gaps, all, first, listed)
  BY SuggestionsAreListed
<1> HIDE DEF scan, reply, arcs, meant
<1>3. reply.used <= EvidenceLimit
  BY <1>2, LimitsAssumption DEF IsAnswer, Answers
<1>4. DOMAIN reply.rows = 1 .. Len(first) /\ \A i \in DOMAIN reply.rows : reply.rows[i] \in Rows(arcs)
  BY <1>2 DEF IsAnswer, Answers
<1>5. ASSUME ~partial
      PROVE  /\ ~listed.cut /\ ~g.gaps /\ Len(reply.rows) = Cardinality(meant)
  <2>1. /\ scan.gaps = {} /\ ~listed.cut /\ ~g.gaps /\ ~(Len(all) > asked.limit)
    BY <1>2, <1>5 DEF IsAnswer
  <2>2. Len(all) <= asked.limit
    <3>1. Len(all) \in Nat /\ asked.limit \in Nat
      BY <1>2, RefactorRequestsAssumption DEF IsAnswer
    <3> QED
      BY <2>1, <3>1
  <2>3. first = all /\ scan.candidates = meant
    BY <1>1, <1>2, <2>1, <2>2 DEF IsAnswer, Finds
  <2>4. Len(reply.rows) = Len(first)
    BY <1>2 DEF IsAnswer
  <2> QED
    BY <1>2, <2>1, <2>3, <2>4
<1>6. ASSUME NEW i \in DOMAIN reply.rows
      PROVE  LET row == reply.rows[i] IN
             /\ \A proofs \in row.shared : \E a \in proofs :
                  proofs = {b \in arcs : b.kind = a.kind /\ b.target = a.target /\ b.source \in {row.left, row.right}}
             /\ \A s \in Range(reply.strategies[i]) :
                  (\E x \in s.removes : "node" \in DOMAIN x) =>
                    /\ Len(reply.rows) = Cardinality(meant)
                    /\ ~g.gaps
                    /\ \A a \in arcs : a.target = row.right /\ IsSymbol(g, a.source) => a \in s.redirect
                    /\ \A k \in Outgoing(arcs, row.left) \cap Outgoing(arcs, row.right) :
                         IsSymbol(g, k[2]) => \E proofs \in row.shared : \E a \in proofs : <<a.kind, a.target>> = k
             /\ ~reply.strategies[i][1].blocked
  <2> DEFINE row == reply.rows[i]
             c == first[i]
             list == Derive(g, arcs, row, partial)
  <2>1. row \in Rows(arcs) /\ IsRowOf(g, arcs, row, c, listed.cut)
    BY <1>2, <1>4 DEF IsAnswer
  <2>2. reply.strategies[i] = list
    BY <1>2 DEF IsAnswer
  <2>3. row.left = c.left /\ row.right = c.right /\ IsFiniteSet(row.shared) /\ row.shared \subseteq AllProofs(g, arcs, c)
    BY <2>1 DEF IsRowOf
  <2> HIDE DEF row, c
  <2>4. /\ Range(list) = {Strategy(g, arcs, row, policy, partial) : policy \in ThreePolicies}
        /\ ~list[1].blocked
    <3>1. partial \in BOOLEAN
      OBVIOUS
    <3> HIDE DEF partial
    <3> QED
      BY <2>1, <2>3, <3>1, StrategiesAreOrdered
  <2>5. \A proofs \in row.shared : \E a \in proofs :
          proofs = {b \in arcs : b.kind = a.kind /\ b.target = a.target /\ b.source \in {row.left, row.right}}
    <3> SUFFICES ASSUME NEW proofs \in row.shared
                 PROVE  \E a \in proofs :
                          proofs = {b \in arcs : b.kind = a.kind /\ b.target = a.target /\ b.source \in {row.left, row.right}}
      OBVIOUS
    <3>1. proofs \in AllProofs(g, arcs, c)
      BY <2>3
    <3>2. \E a \in proofs :
            proofs = {b \in arcs : b.kind = a.kind /\ b.target = a.target /\ b.source \in {c.left, c.right}}
      BY <3>1, ProofsAreAll
    <3> QED
      BY <2>3, <3>2
  <2> HIDE DEF list
  <2>6. ASSUME NEW s \in Range(list), NEW x \in s.removes, "node" \in DOMAIN x
        PROVE  /\ Len(reply.rows) = Cardinality(meant) /\ ~g.gaps
               /\ \A a \in arcs : a.target = row.right /\ IsSymbol(g, a.source) => a \in s.redirect
               /\ \A k \in Outgoing(arcs, row.left) \cap Outgoing(arcs, row.right) :
                    IsSymbol(g, k[2]) => \E proofs \in row.shared : \E a \in proofs : <<a.kind, a.target>> = k
    <3>1. PICK policy \in ThreePolicies : s = Strategy(g, arcs, row, policy, partial)
      BY <2>4
    <3>2. policy = "consolidate" /\ ~partial
      <4>1. partial \in BOOLEAN
        OBVIOUS
      <4> HIDE DEF partial
      <4> QED
        BY <2>6, <3>1, <4>1, OnlyConsolidationRemoves
    <3>3. ~listed.cut /\ ~g.gaps /\ Len(reply.rows) = Cardinality(meant)
      BY <1>5, <3>2
    <3>4. IsRowOf(g, arcs, row, c, FALSE)
      BY <2>1, <3>3 DEF IsRowOf
    <3>5. s.redirect = {a \in row.preserve : a.target = row.right}
      BY <3>1, <3>2 DEF Strategy
    <3>6. /\ \A a \in arcs : a.target = row.right /\ IsSymbol(g, a.source) => a \in row.preserve
          /\ \A k \in Outgoing(arcs, row.left) \cap Outgoing(arcs, row.right) :
               IsSymbol(g, k[2]) => \E proofs \in row.shared : \E a \in proofs : <<a.kind, a.target>> = k
      BY <3>4, RowShowsAll
    <3>7. \A a \in arcs : a.target = row.right /\ IsSymbol(g, a.source) => a \in s.redirect
      BY <3>5, <3>6
    <3> QED
      BY <3>3, <3>6, <3>7
  <2>7. ~reply.strategies[i][1].blocked
    BY <2>2, <2>4
  <2> QED
    BY <2>2, <2>5, <2>6, <2>7 DEF row
<1> QED
  BY <1>3, <1>6 DEF IsCareful, reply, arcs, meant

-----------------------------------------------------------------------------
(* What find_similar answers *)

(* The group of a function are the others of its meaning.                  *)
GroupOf(index, root) == IF root.meaning \in DOMAIN index.groups THEN index.groups[root.meaning] ELSE {}

LEMMA GroupsAreCopies ==
  ASSUME NEW g \in Inputs, NEW root \in g.docs, NEW d \in g.docs \ {root}
  PROVE  d.id \in GroupOf(SimilarityIndex(g), root) <=> d.meaning # None /\ d.meaning = root.meaning
<1> DEFINE index == SimilarityIndex(g)
           of(f) == {e \in g.docs : e.meaning = f}
           ids(f) == {e.id : e \in of(f)}
<1>1. /\ DOMAIN index.groups = {f \in {e.meaning : e \in g.docs} : f # None /\ Cardinality(ids(f)) > 1}
      /\ \A f \in DOMAIN index.groups : index.groups[f] = ids(f)
  <2> DEFINE group == [f \in {e.meaning : e \in g.docs} |-> ids(f)]
             grown == {f \in DOMAIN group : f # None /\ Cardinality(group[f]) > 1}
  <2>1. index.groups = [f \in grown |-> group[f]]
    BY IndexHolds
  <2>2. \A f \in {e.meaning : e \in g.docs} : group[f] = ids(f)
    OBVIOUS
  <2>3. DOMAIN group = {e.meaning : e \in g.docs}
    OBVIOUS
  <2> HIDE DEF group, index, ids
  <2> QED
    BY <2>1, <2>2, <2>3
<1>2. \A x, y \in g.docs : x.id = y.id => x = y
  BY IndexedGraphsAssumption
<1> HIDE DEF index
<1>3. \A f : d.id \in ids(f) <=> d.meaning = f
  BY <1>2
<1>4. ASSUME d.meaning # None, d.meaning = root.meaning  PROVE root.meaning \in DOMAIN index.groups
  <2> DEFINE f == root.meaning
  <2>1. IsFiniteSet(ids(f))
    <3> DEFINE idOf == [e \in of(f) |-> e.id]
    <3>1. IsFiniteSet(of(f))
      <4>1. IsFiniteSet(g.docs)
        BY IndexedGraphsAssumption
      <4> QED
        BY <4>1, FS_Subset
    <3>2. {idOf[e] : e \in of(f)} = ids(f)
      OBVIOUS
    <3>3. IsFiniteSet({idOf[e] : e \in of(f)})
      <4> HIDE DEF idOf, of
      <4> QED
        BY <3>1, ImageIsFinite
    <3> QED
      BY <3>2, <3>3
  <2>2. root.id \in ids(f) /\ d.id \in ids(f) /\ root.id # d.id
    BY <1>2, <1>3, <1>4
  <2> HIDE DEF ids
  <2>3. Cardinality(ids(f)) \in Nat /\ Cardinality({root.id, d.id}) = 2
    <3>1. IsFiniteSet({root.id}) /\ Cardinality({root.id}) = 1
      BY FS_Singleton
    <3>2. Cardinality({root.id} \cup {d.id}) = Cardinality({root.id}) + 1
      <4>1. d.id \notin {root.id}
        BY <2>2
      <4> QED
        BY <3>1, <4>1, FS_AddElement
    <3>3. {root.id} \cup {d.id} = {root.id, d.id}
      OBVIOUS
    <3>4. Cardinality(ids(f)) \in Nat
      BY <2>1, FS_CardinalityType
    <3> QED
      BY <3>1, <3>2, <3>3, <3>4
  <2>4. Cardinality({root.id, d.id}) <= Cardinality(ids(f))
    <3>1. {root.id, d.id} \in SUBSET ids(f)
      BY <2>2
    <3> QED
      BY <2>1, <3>1, FS_Subset
  <2>5. Cardinality(ids(f)) > 1
    BY <2>3, <2>4
  <2> QED
    BY <1>1, <1>4, <2>5
<1>5. CASE root.meaning \in DOMAIN index.groups
  <2>1. GroupOf(index, root) = ids(root.meaning)
    BY <1>1, <1>5 DEF GroupOf
  <2>2. root.meaning # None
    BY <1>1, <1>5
  <2> QED
    BY <1>3, <2>1, <2>2 DEF index
<1>6. CASE root.meaning \notin DOMAIN index.groups
  <2>1. GroupOf(index, root) = {}
    BY <1>6 DEF GroupOf
  <2> QED
    BY <1>4, <1>6, <2>1 DEF index
<1> QED
  BY <1>5, <1>6

JoinsBoth(p, x, y) == {x.id, y.id} = {p.left, p.right}

(* The pair of an index that joins two documents holds the basis of both.  *)
LEMMA JoinedByBasis ==
  ASSUME NEW g \in Inputs, NEW docs \in SUBSET g.docs, NEW keysOf, NEW p \in BasesOf(docs, keysOf),
         NEW x \in g.docs, NEW y \in g.docs, x # y, JoinsBoth(p, x, y)
  PROVE  x \in docs /\ y \in docs /\ x.lang = y.lang
         /\ p.basis = Basis(Fingerprint(x.text), Fingerprint(y.text))
<1>1. PICK q \in PairsBy(docs, keysOf) : p = BasisOf(q[1], q[2])
  BY DEF BasesOf
<1>2. PICK v \in docs, w \in docs : q = <<v, w>> /\ v.lang = w.lang
  BY DEF PairsBy
<1>3. p.left = v.id /\ p.right = w.id /\ p.basis = Basis(Fingerprint(v.text), Fingerprint(w.text))
  BY <1>1, <1>2 DEF BasisOf
<1>4. \A d, e \in g.docs : d.id = e.id => d = e
  BY IndexedGraphsAssumption
<1>5. x.id # y.id
  BY <1>4
<1>6. (x = v /\ y = w) \/ (x = w /\ y = v)
  <2>1. (x.id = v.id /\ y.id = w.id) \/ (x.id = w.id /\ y.id = v.id)
    BY <1>3, <1>5 DEF JoinsBoth
  <2> QED
    BY <1>4, <2>1
<1>7. Basis(Fingerprint(v.text), Fingerprint(w.text)) = Basis(Fingerprint(w.text), Fingerprint(v.text))
  BY BasisOfTexts
<1> QED
  BY <1>2, <1>3, <1>6, <1>7

(* And texts with a run of tokens in common are joined.                    *)
LEMMA TextsAreJoined ==
  ASSUME NEW g \in Inputs, NEW docs \in SUBSET g.docs, NEW x \in docs, NEW y \in docs, x # y, x.lang = y.lang,
         Fingerprint(x.text).eligible, Fingerprint(y.text).eligible,
         Fingerprint(x.text).shingles \cap Fingerprint(y.text).shingles # {}
  PROVE  \E p \in TextPairs(docs) : JoinsBoth(p, x, y)
<1> DEFINE keysOf == ShinglesOf(docs)
<1>1. AreDocs(docs)
  BY DocsOfGraph
<1>2. keysOf[x] \cap keysOf[y] # {}
  BY DEF ShinglesOf
<1> HIDE DEF keysOf
<1>3. Lower(Place(x), Place(y)) \/ Lower(Place(y), Place(x))
  <2>1. Place(x) \in [1 .. 3 -> Nat] /\ Place(y) \in [1 .. 3 -> Nat]
    BY <1>1, PlacesAreKeys
  <2>2. Place(x) # Place(y)
    <3>1. x.id # y.id
      BY IndexedGraphsAssumption
    <3>2. Place(x)[3] = x.id /\ Place(y)[3] = y.id
      BY DEF Place
    <3> QED
      BY <3>1, <3>2
  <2> QED
    BY <2>1, <2>2, LowerIsAnOrder
<1>4. <<x, y>> \in PairsBy(docs, keysOf) \/ <<y, x>> \in PairsBy(docs, keysOf)
  BY <1>2, <1>3 DEF PairsBy
<1>5. BasisOf(x, y) \in TextPairs(docs) \/ BasisOf(y, x) \in TextPairs(docs)
  BY <1>4 DEF TextPairs, BasesOf, keysOf
<1>6. BasisOf(x, y).left = x.id /\ BasisOf(x, y).right = y.id /\ BasisOf(y, x).left = y.id /\ BasisOf(y, x).right = x.id
  BY DEF BasisOf
<1> QED
  BY <1>5, <1>6 DEF JoinsBoth

(* The row that either lookup has for a function.                          *)
RowFor(root, d, arcs) ==
  Row(d, ScorePair(Basis(Fingerprint(root.text), Fingerprint(d.text)), root.id, d.id, arcs))

IsFoundDirectly(g, root, scope, d) ==
  /\ d \in InScope(g, scope) \ {root}
  /\ ~(d.meaning # None /\ d.meaning = root.meaning)
  /\ d.lang = root.lang /\ IsCallable(d.lang, d.text)
  /\ Fingerprint(root.text).eligible /\ Fingerprint(d.text).eligible

LEMMA DirectLookup ==
  ASSUME NEW g, NEW root, NEW scope
  PROVE  LET direct == LookupDirect(g, root, scope) IN
         /\ direct.exact = {d.id : d \in {d \in InScope(g, scope) \ {root} : d.meaning # None /\ d.meaning = root.meaning}}
         /\ \A row : row \in direct.similar <=>
              /\ IsRelated(row.score)
              /\ \E d : IsFoundDirectly(g, root, scope, d) /\ row = RowFor(root, d, Definitive(g, scope))
<1> DEFINE arcs == Definitive(g, scope)
           direct == LookupDirect(g, root, scope)
           exact == {d \in InScope(g, scope) \ {root} : d.meaning # None /\ d.meaning = root.meaning}
           others == {d \in InScope(g, scope) \ ({root} \cup exact) :
                        /\ d.lang = root.lang /\ IsCallable(d.lang, d.text)
                        /\ Fingerprint(root.text).eligible /\ Fingerprint(d.text).eligible}
           rows == {RowFor(root, d, arcs) : d \in others}
<1>1. direct.exact = {d.id : d \in exact} /\ direct.similar = {row \in rows : IsRelated(row.score)}
  BY DEF LookupDirect, RowFor
<1>2. \A d : d \in others <=> IsFoundDirectly(g, root, scope, d)
  BY DEF IsFoundDirectly
<1> HIDE DEF direct, others, arcs
<1>3. \A row : row \in direct.similar <=>
        IsRelated(row.score) /\ \E d : IsFoundDirectly(g, root, scope, d) /\ row = RowFor(root, d, arcs)
  BY <1>1, <1>2
<1> QED
  BY <1>1, <1>3 DEF direct, arcs

LEMMA IndexedLookup ==
  ASSUME NEW g \in Inputs, NEW scope, NEW root \in InScope(g, scope)
  PROVE  LET index == SimilarityIndex(g)
             reply == LookupIndexed(g, index, root, scope)
         IN
         /\ reply.exact = {d.id : d \in {d \in InScope(g, scope) : d.id \in GroupOf(index, root) \ {root.id}}}
         /\ reply.partial = (index.documents_truncated \/ index.pairs_truncated \/ index.functional_truncated)
         /\ \A row : row \in reply.similar <=>
              /\ IsRelated(row.score)
              /\ \E p \in index.pairs \cup index.functional : \E d \in InScope(g, scope) \ {root} :
                   /\ JoinsBoth(p, root, d) /\ d.id \notin GroupOf(index, root)
                   /\ row = RowFor(root, d, Definitive(g, scope))
<1> DEFINE index == SimilarityIndex(g)
           arcs == Definitive(g, scope)
           reply == LookupIndexed(g, index, root, scope)
           group == GroupOf(index, root)
           Scored(p, d) == Row(d, ScorePair(p.basis, root.id, d.id, arcs))
           JoinedBy(p) == {d \in InScope(g, scope) \ {root} : JoinsBoth(p, root, d) /\ d.id \notin group}
           rows == UNION {{Scored(p, d) : d \in JoinedBy(p)} : p \in index.pairs \cup index.functional}
<1>1. /\ reply.exact = {d.id : d \in {d \in InScope(g, scope) : d.id \in group \ {root.id}}}
      /\ reply.partial = (index.documents_truncated \/ index.pairs_truncated \/ index.functional_truncated)
      /\ reply.similar = {row \in rows : IsRelated(row.score)}
  <2> HIDE DEF index
  <2> QED
    BY DEF LookupIndexed, GroupOf, JoinsBoth
<1>2. ASSUME NEW p \in index.pairs \cup index.functional, NEW d \in JoinedBy(p)
      PROVE  Scored(p, d) = RowFor(root, d, arcs)
  <2>1. \E docs \in SUBSET g.docs : \E keysOf : p \in BasesOf(docs, keysOf)
    <3> DEFINE callable == CallableAmong(g.docs)
               first == First(callable, IndexLimit)
    <3>1. /\ first \in SUBSET g.docs
          /\ index.pairs \subseteq TextPairs(first) /\ \E keysOf : index.functional \subseteq BasesOf(first, keysOf)
      BY IndexHolds
    <3> HIDE DEF first, index
    <3> QED
      BY <3>1 DEF TextPairs
  <2>2. root \in g.docs /\ d \in g.docs /\ d # root /\ JoinsBoth(p, root, d)
    BY <1>2 DEF InScope
  <2>3. p.basis = Basis(Fingerprint(root.text), Fingerprint(d.text))
    <3>1. PICK docs \in SUBSET g.docs : \E keysOf : p \in BasesOf(docs, keysOf)
      BY <2>1
    <3>2. PICK keysOf : p \in BasesOf(docs, keysOf)
      BY <3>1
    <3>3. root # d
      BY <2>2
    <3> HIDE DEF arcs, index
    <3> QED
      BY <2>2, <3>2, <3>3, JoinedByBasis
  <2> QED
    BY <2>3 DEF RowFor
<1> HIDE DEF Scored, arcs, index, reply, group
<1>3. \A row : row \in rows <=>
        \E p \in index.pairs \cup index.functional : \E d \in JoinedBy(p) : row = RowFor(root, d, arcs)
  BY <1>2
<1>4. \A row : row \in reply.similar <=>
        /\ IsRelated(row.score)
        /\ \E p \in index.pairs \cup index.functional : \E d \in InScope(g, scope) \ {root} :
             JoinsBoth(p, root, d) /\ d.id \notin group /\ row = RowFor(root, d, arcs)
  BY <1>1, <1>3
<1> QED
  BY <1>1, <1>4 DEF reply, index, group, arcs

LEMMA ScoreKeepsShingles ==
  ASSUME NEW g \in Inputs, NEW scope, NEW x \in g.docs, NEW y \in g.docs,
         RelatedByText(RowFor(x, y, Definitive(g, scope)).score)
  PROVE  Fingerprint(x.text).shingles \cap Fingerprint(y.text).shingles # {}
<1> DEFINE basis == Basis(Fingerprint(x.text), Fingerprint(y.text))
           arcs == Definitive(g, scope)
           score == ScorePair(basis, x.id, y.id, arcs)
<1>1. basis \in Similarities /\ (basis.shingles > 0 => Fingerprint(x.text).shingles \cap Fingerprint(y.text).shingles # {})
  BY BasisOfTexts
<1>2. RowFor(x, y, arcs).score = score
  BY DEF RowFor, Row
<1> HIDE DEF basis
<1>3. score.shingles = basis.shingles
  BY <1>1, DefinitiveAreArcs, ScorePairIsOfBoth
<1>4. score.shingles >= 650
  BY <1>2 DEF RelatedByText
<1>5. basis.shingles \in Nat
  <2>1. basis.shingles \in Shares
    BY <1>1 DEF Similarities
  <2> QED
    BY <2>1 DEF Shares
<1>6. basis.shingles > 0
  BY <1>3, <1>4, <1>5
<1> QED
  BY <1>1, <1>6

(* With an index and without, the lookups agree on what both compare.      *)
LEMMA IndexAgrees ==
  ASSUME NEW g \in Inputs, NEW scope, NEW root \in InScope(g, scope)
  PROVE  IsAgreed(g, root, LookupDirect(g, root, scope), LookupIndexed(g, SimilarityIndex(g), root, scope))
<1> DEFINE index == SimilarityIndex(g)
           arcs == Definitive(g, scope)
           direct == LookupDirect(g, root, scope)
           reply == LookupIndexed(g, index, root, scope)
           group == GroupOf(index, root)
           callable == CallableAmong(g.docs)
           first == First(callable, IndexLimit)
           comparable == {d.id : d \in {d \in g.docs : Fingerprint(d.text).eligible}}
           ByText(lookup) == {row \in lookup.similar : RelatedByText(row.score) /\ row.node \in comparable}
           Copy(d) == d.meaning # None /\ d.meaning = root.meaning
<1>1. InScope(g, scope) \in SUBSET g.docs /\ root \in g.docs
  BY DEF InScope
<1>2. \A d, e \in g.docs : d.id = e.id => d = e
  BY IndexedGraphsAssumption
<1>3. \A d \in g.docs \ {root} : d.id \in group <=> Copy(d)
  BY <1>1, GroupsAreCopies
<1>4. /\ direct.exact = {d.id : d \in {d \in InScope(g, scope) \ {root} : Copy(d)}}
      /\ \A row : row \in direct.similar <=>
           /\ IsRelated(row.score)
           /\ \E d : IsFoundDirectly(g, root, scope, d) /\ row = RowFor(root, d, arcs)
  BY DirectLookup
<1>5. /\ reply.exact = {d.id : d \in {d \in InScope(g, scope) : d.id \in group \ {root.id}}}
      /\ reply.partial = (index.documents_truncated \/ index.pairs_truncated \/ index.functional_truncated)
      /\ \A row : row \in reply.similar <=>
           /\ IsRelated(row.score)
           /\ \E p \in index.pairs \cup index.functional : \E d \in InScope(g, scope) \ {root} :
                JoinsBoth(p, root, d) /\ d.id \notin group /\ row = RowFor(root, d, arcs)
  BY IndexedLookup
<1>6. /\ callable \in SUBSET g.docs /\ \A d : d \in callable <=> d \in g.docs /\ IsCallable(d.lang, d.text)
      /\ first \in SUBSET callable
      /\ ~index.documents_truncated => first = callable
      /\ index.pairs \subseteq TextPairs(first)
      /\ ~index.pairs_truncated => index.pairs = TextPairs(first)
      /\ \E keysOf : index.functional \subseteq BasesOf(first, keysOf)
  BY IndexHolds DEF CallableAmong
<1>7. \A d : RowFor(root, d, arcs).node = d.id
  BY DEF RowFor, Row
<1>8. \A d \in g.docs : d.id \in comparable <=> Fingerprint(d.text).eligible
  BY <1>2
<1> HIDE DEF index, direct, reply, group, callable, first, comparable, arcs
<1>9. reply.exact = direct.exact
  <2>1. \A d \in InScope(g, scope) : d.id \in group \ {root.id} <=> d \in InScope(g, scope) \ {root} /\ Copy(d)
    BY <1>1, <1>2, <1>3
  <2> HIDE DEF Copy
  <2> QED
    BY <1>4, <1>5, <2>1
<1>10. ASSUME NEW p \in index.pairs \cup index.functional, NEW d \in InScope(g, scope) \ {root}, JoinsBoth(p, root, d)
       PROVE  d \in callable /\ d.lang = root.lang
  <2>1. PICK keysOf : p \in BasesOf(first, keysOf)
    <3>1. CASE p \in index.pairs
      BY <1>6, <3>1 DEF TextPairs
    <3>2. CASE p \in index.functional
      BY <1>6, <3>2
    <3> QED
      BY <3>1, <3>2
  <2>2. first \in SUBSET g.docs /\ d \in g.docs /\ root # d
    BY <1>1, <1>6
  <2>3. d \in first /\ root.lang = d.lang
    BY <1>1, <1>10, <2>1, <2>2, JoinedByBasis
  <2> QED
    BY <1>6, <2>3
<1>11. ASSUME Fingerprint(root.text).eligible, NEW row \in ByText(reply)
       PROVE  row \in ByText(direct)
  <2>1. PICK p \in index.pairs \cup index.functional, d \in InScope(g, scope) \ {root} :
          JoinsBoth(p, root, d) /\ d.id \notin group /\ row = RowFor(root, d, arcs)
    BY <1>5
  <2>2. d \in callable /\ d.lang = root.lang
    BY <1>10, <2>1
  <2>3. d \in g.docs /\ row.node = d.id /\ ~Copy(d) /\ IsCallable(d.lang, d.text)
    BY <1>1, <1>3, <1>6, <1>7, <2>1, <2>2
  <2>4. Fingerprint(d.text).eligible
    BY <1>8, <1>11, <2>3
  <2>5. IsFoundDirectly(g, root, scope, d)
    BY <1>11, <2>1, <2>2, <2>3, <2>4 DEF IsFoundDirectly
  <2>6. IsRelated(row.score) /\ RelatedByText(row.score) /\ row.node \in comparable
    BY <1>5, <1>11
  <2> QED
    BY <1>4, <2>1, <2>5, <2>6
<1>12. ASSUME IsCallable(root.lang, root.text), Fingerprint(root.text).eligible, ~reply.partial, NEW row \in ByText(direct)
       PROVE  row \in ByText(reply)
  <2>1. PICK d : IsFoundDirectly(g, root, scope, d) /\ row = RowFor(root, d, arcs)
    BY <1>4
  <2>2. /\ d \in InScope(g, scope) \ {root} /\ ~Copy(d) /\ d.lang = root.lang
        /\ IsCallable(d.lang, d.text) /\ Fingerprint(d.text).eligible
    BY <2>1 DEF IsFoundDirectly
  <2>3. d \in callable /\ root \in callable /\ first = callable /\ index.pairs = TextPairs(callable)
    BY <1>1, <1>5, <1>6, <1>12, <2>2
  <2>4. RelatedByText(row.score) /\ IsRelated(row.score) /\ row.node \in comparable
    BY <1>4, <1>12
  <2>5. Fingerprint(root.text).shingles \cap Fingerprint(d.text).shingles # {}
    <3>1. d \in g.docs
      BY <1>1, <2>2
    <3> QED
      BY <1>1, <2>1, <2>4, <3>1, ScoreKeepsShingles DEF arcs
  <2>6. PICK p \in TextPairs(callable) : JoinsBoth(p, root, d)
    BY <1>6, <1>12, <2>2, <2>3, <2>5, TextsAreJoined
  <2>7. p \in index.pairs \cup index.functional /\ d.id \notin group
    BY <1>1, <1>3, <2>2, <2>3
  <2> QED
    BY <1>5, <2>1, <2>2, <2>4, <2>6, <2>7
<1> DEFINE agreed ==
             /\ reply.exact = direct.exact
             /\ IsCallable(root.lang, root.text) /\ Fingerprint(root.text).eligible =>
                  /\ ByText(reply) \subseteq ByText(direct)
                  /\ ~reply.partial => ByText(reply) = ByText(direct)
<1>13. agreed
  <2> HIDE DEF ByText
  <2> QED
    BY <1>9, <1>11, <1>12
<1>14. IsAgreed(g, root, direct, reply) = agreed
  BY DEF IsAgreed, comparable
<1> QED
  BY <1>13, <1>14 DEF direct, reply, index

LEMMA LookupsAgree ==
  ASSUME NEW g \in Inputs, NEW input \in {None, g}
  PROVE  Agree(<<g, input>>)
<1> SUFFICES ASSUME NEW scope \in Scopes, NEW root \in InScope(g, scope)
             PROVE  IsAgreed(g, root, LookupDirect(g, root, scope), FindSimilar(g, input, root, scope))
  BY DEF Agree
<1>1. CASE input = None
  <2>1. FindSimilar(g, input, root, scope) = LookupDirect(g, root, scope)
    BY <1>1 DEF FindSimilar
  <2> DEFINE direct == LookupDirect(g, root, scope)
  <2> HIDE DEF direct
  <2>2. IsAgreed(g, root, direct, direct)
    BY DEF IsAgreed
  <2> QED
    BY <2>1, <2>2 DEF direct
<1>2. CASE input # None
  <2>1. FindSimilar(g, input, root, scope) = LookupIndexed(g, SimilarityIndex(g), root, scope)
    BY <1>2, IndexIsBuilt DEF FindSimilar
  <2> QED
    BY <2>1, IndexAgrees
<1> QED
  BY <1>1, <1>2

(* Whatever a request asks of a graph, with its index or without.          *)
LEMMA QuestionsAreAnswered ==
  ASSUME NEW g \in Inputs, NEW input \in {None, g}
  PROVE  <<g, input>> \in CompleteAnswers \cap AgreeingLookups \cap CarefulAnswers
<1>1. <<g, input>> \in Questions
  BY DEF Questions
<1>2. AlwaysComplete(<<g, input>>)
  BY AnswerIsComplete DEF AlwaysComplete
<1>3. Agree(<<g, input>>)
  BY LookupsAgree
<1>4. Careful(<<g, input>>)
  BY AnswerIsCareful DEF Careful
<1> QED
  BY <1>1, <1>2, <1>3, <1>4 DEF CompleteAnswers, AgreeingLookups, CarefulAnswers

-----------------------------------------------------------------------------
(* The index that threads build in the background *)

(* The stage of a thread says whether it has a job. *)
JobsFitStages ==
  /\ \A w \in Alive : worker[w].job = None <=> worker[w].at = "take"
  /\ owner \notin {"drop", "dropped"} => epoch <= MaxSchedules

OfLatest(job) ==
  /\ job.epoch <= epoch
  /\ job.epoch = epoch => job.input = latest /\ owner \notin {"invalidate", "enqueue"}

JobsAreOfLatest ==
  /\ pending # None => OfLatest(pending)
  /\ \A w \in Alive : worker[w].job # None => OfLatest(worker[w].job)

PublishersAreCurrent ==
  \A w \in Alive : worker[w].at = "publish" =>
    worker[w].job.epoch = epoch \/ owner \in {"invalidate", "drop", "dropped"}

(* While the owner is inside schedule there is no index yet, and a thread  *)
(* is spawned for a job that waits.                                        *)
ScheduleIsPrepared ==
  /\ owner \in {"enqueue", "spawn", "fail"} => state.index = None /\ state.building /\ ~state.failed
  /\ owner \notin {"invalidate", "drop", "dropped"} => state.snapshot = SnapshotOf[latest]
  /\ owner = "fail" => ~running
  /\ owner = "spawn" => running /\ Alive = {} /\ pending # None /\ pending.epoch = epoch

(* A build that lookups are told of is waiting or being worked on. *)
BuildIsUnderWay ==
  owner = "idle" /\ state.building =>
    \/ pending # None /\ pending.epoch = epoch /\ Alive # {}
    \/ \E w \in Alive : worker[w].job # None /\ worker[w].job.epoch = epoch

Inv ==
  /\ TypeOK
  /\ OneWorker
  /\ JobsFitStages
  /\ JobsAreOfLatest
  /\ PublishersAreCurrent
  /\ ScheduleIsPrepared
  /\ BuildIsUnderWay
  /\ IndexIsOfLatest
  /\ StatusIsTrue

USE InputsAssumption, SchedulesAssumption, WorkersAssumption, ValuesAssumption

LEMMA InitHasInv == Init => Inv
<1> SUFFICES ASSUME Init PROVE Inv
  OBVIOUS
<1>1. PICK input \in Inputs :
        /\ latest = input
        /\ state = [snapshot |-> SnapshotOf[input], index |-> input, building |-> FALSE, failed |-> FALSE]
  BY DEF Init
<1>2. state \in State /\ state.index = latest /\ ~state.building /\ ~state.failed
      /\ state.snapshot = SnapshotOf[latest]
  BY <1>1 DEF State
<1>3. \A w \in Workers : worker[w] = None
  BY DEF Init
<1> USE DEF Init
<1>4. TypeOK
  <2>1. worker \in [Workers -> Thread \cup {None}]
    OBVIOUS
  <2>2. \A w \in Workers : stateLock = w <=> worker[w] # None /\ worker[w].at = "publish"
    BY <1>3
  <2>3. latest \in Inputs /\ epoch \in 0 .. MaxSchedules + 1
    OBVIOUS
  <2> QED
    BY <1>2, <2>1, <2>2, <2>3 DEF TypeOK
<1>5. OneWorker
  BY <1>2, <1>3 DEF OneWorker, Alive, State
<1>6. JobsFitStages
  BY <1>2, <1>3 DEF JobsFitStages, Alive, State
<1>7. JobsAreOfLatest
  BY <1>2, <1>3 DEF JobsAreOfLatest, Alive, State
<1>8. PublishersAreCurrent
  BY <1>2, <1>3 DEF PublishersAreCurrent, Alive, State
<1>9. ScheduleIsPrepared
  BY <1>2, <1>3 DEF ScheduleIsPrepared, Alive, State
<1>10. BuildIsUnderWay
  BY <1>2, <1>3 DEF BuildIsUnderWay, Alive, State
<1>11. IndexIsOfLatest
  BY <1>2, <1>3 DEF IndexIsOfLatest, Alive, State
<1>12. StatusIsTrue
  BY <1>2, <1>3 DEF StatusIsTrue, Alive, State
<1> QED
  BY <1>4, <1>5, <1>6, <1>7, <1>8, <1>9, <1>10, <1>11, <1>12 DEF Inv

-----------------------------------------------------------------------------
(* The owner's steps *)

LEMMA AdvanceKeepsInv ==
  ASSUME Inv, NEW input \in Inputs, AdvanceEpoch(input) PROVE Inv'
BY DEF AdvanceEpoch, queue, Inv, TypeOK, OneWorker, JobsFitStages, JobsAreOfLatest, OfLatest, PublishersAreCurrent,
       ScheduleIsPrepared, BuildIsUnderWay, IndexIsOfLatest, StatusIsTrue, Alive, Job, Thread

LEMMA InvalidateKeepsInv ==
  ASSUME Inv, Invalidate PROVE Inv'
BY DEF Invalidate, queue, Inv, TypeOK, OneWorker, JobsFitStages, JobsAreOfLatest, OfLatest, PublishersAreCurrent,
       ScheduleIsPrepared, BuildIsUnderWay, IndexIsOfLatest, StatusIsTrue, Alive, Job, Thread, State

LEMMA EnqueueKeepsInv ==
  ASSUME Inv, Enqueue PROVE Inv'
<1> USE DEF Enqueue, queue, Inv, TypeOK, OneWorker, JobsFitStages, JobsAreOfLatest, OfLatest,
          PublishersAreCurrent, ScheduleIsPrepared, BuildIsUnderWay, IndexIsOfLatest, StatusIsTrue,
          Alive, Job, Thread, State
<1>1. TypeOK'
  OBVIOUS
<1>2. OneWorker'
  OBVIOUS
<1>3. JobsFitStages'
  OBVIOUS
<1>4. JobsAreOfLatest'
  OBVIOUS
<1>5. PublishersAreCurrent'
  OBVIOUS
<1>6. ScheduleIsPrepared'
  OBVIOUS
<1>7. BuildIsUnderWay'
  OBVIOUS
<1>8. IndexIsOfLatest'
  OBVIOUS
<1>9. StatusIsTrue'
  OBVIOUS
<1> QED
  BY <1>1, <1>2, <1>3, <1>4, <1>5, <1>6, <1>7, <1>8, <1>9

LEMMA SpawnWorkerKeepsInv ==
  ASSUME Inv, SpawnWorker PROVE Inv'
BY DEF SpawnWorker, queue, Inv, TypeOK, OneWorker, JobsFitStages, JobsAreOfLatest, OfLatest, PublishersAreCurrent,
       ScheduleIsPrepared, BuildIsUnderWay, IndexIsOfLatest, StatusIsTrue, Alive, Job, Thread, State

LEMMA SpawnFailsKeepsInv ==
  ASSUME Inv, SpawnFails PROVE Inv'
<1> USE DEF SpawnFails, queue, Inv, TypeOK, OneWorker, JobsFitStages, JobsAreOfLatest, OfLatest,
          PublishersAreCurrent, ScheduleIsPrepared, BuildIsUnderWay, IndexIsOfLatest, StatusIsTrue,
          Alive, Job, Thread, State
<1>1. TypeOK'
  OBVIOUS
<1>2. OneWorker'
  OBVIOUS
<1>3. JobsFitStages'
  OBVIOUS
<1>4. JobsAreOfLatest'
  OBVIOUS
<1>5. PublishersAreCurrent'
  OBVIOUS
<1>6. ScheduleIsPrepared'
  OBVIOUS
<1>7. BuildIsUnderWay'
  OBVIOUS
<1>8. IndexIsOfLatest'
  OBVIOUS
<1>9. StatusIsTrue'
  OBVIOUS
<1> QED
  BY <1>1, <1>2, <1>3, <1>4, <1>5, <1>6, <1>7, <1>8, <1>9

LEMMA RecordFailureKeepsInv ==
  ASSUME Inv, RecordFailure PROVE Inv'
<1> USE DEF RecordFailure, queue, Inv, TypeOK, OneWorker, JobsFitStages, JobsAreOfLatest, OfLatest,
          PublishersAreCurrent, ScheduleIsPrepared, BuildIsUnderWay, IndexIsOfLatest, StatusIsTrue,
          Alive, Job, Thread, State
<1>1. TypeOK'
  OBVIOUS
<1>2. OneWorker'
  OBVIOUS
<1>3. JobsFitStages'
  OBVIOUS
<1>4. JobsAreOfLatest'
  OBVIOUS
<1>5. PublishersAreCurrent'
  OBVIOUS
<1>6. ScheduleIsPrepared'
  OBVIOUS
<1>7. BuildIsUnderWay'
  OBVIOUS
<1>8. IndexIsOfLatest'
  OBVIOUS
<1>9. StatusIsTrue'
  OBVIOUS
<1> QED
  BY <1>1, <1>2, <1>3, <1>4, <1>5, <1>6, <1>7, <1>8, <1>9

LEMMA StartDropKeepsInv ==
  ASSUME Inv, StartDrop PROVE Inv'
BY DEF StartDrop, queue, Inv, TypeOK, OneWorker, JobsFitStages, JobsAreOfLatest, OfLatest, PublishersAreCurrent,
       ScheduleIsPrepared, BuildIsUnderWay, IndexIsOfLatest, StatusIsTrue, Alive, Job, Thread, State

LEMMA FinishDropKeepsInv ==
  ASSUME Inv, FinishDrop PROVE Inv'
BY DEF FinishDrop, queue, Inv, TypeOK, OneWorker, JobsFitStages, JobsAreOfLatest, OfLatest, PublishersAreCurrent,
       ScheduleIsPrepared, BuildIsUnderWay, IndexIsOfLatest, StatusIsTrue, Alive, Job, Thread, State

-----------------------------------------------------------------------------
(* The thread's steps *)

LEMMA ExitKeepsInv ==
  ASSUME Inv, NEW w \in Workers, Exit(w) PROVE Inv'
<1>1. TypeOK'
  <2>1. /\ worker' = [worker EXCEPT ![w] = None] /\ running' = FALSE /\ worker[w].at = "take"
        /\ UNCHANGED <<owner, latest, epoch, state, stateLock, pending, queueLock>>
    BY DEF Exit
  <2>2. TypeOK
    BY DEF Inv
  <2>3. worker' \in [Workers -> Thread \cup {None}]
    BY <2>1, <2>2 DEF TypeOK
  <2>4. \A v \in Workers : stateLock' = v <=> worker'[v] # None /\ worker'[v].at = "publish"
    BY <2>1, <2>2 DEF TypeOK
  <2> QED
    BY <2>1, <2>2, <2>3, <2>4 DEF TypeOK, Job, State
<1> USE DEF Exit, Cancelled, queue, Inv, TypeOK, OneWorker, JobsFitStages, JobsAreOfLatest, OfLatest,
          PublishersAreCurrent, ScheduleIsPrepared, BuildIsUnderWay, IndexIsOfLatest, StatusIsTrue,
          Alive, Job, Thread, State
<1>2. OneWorker'
  OBVIOUS
<1>3. JobsFitStages'
  OBVIOUS
<1>4. JobsAreOfLatest'
  OBVIOUS
<1>5. PublishersAreCurrent'
  OBVIOUS
<1>6. ScheduleIsPrepared'
  OBVIOUS
<1>7. BuildIsUnderWay'
  OBVIOUS
<1>8. IndexIsOfLatest'
  OBVIOUS
<1>9. StatusIsTrue'
  OBVIOUS
<1> QED
  BY <1>1, <1>2, <1>3, <1>4, <1>5, <1>6, <1>7, <1>8, <1>9

LEMMA TakeJobKeepsInv ==
  ASSUME Inv, NEW w \in Workers, TakeJob(w) PROVE Inv'
BY DEF TakeJob, Cancelled, queue, Inv, TypeOK, OneWorker, JobsFitStages, JobsAreOfLatest, OfLatest, PublishersAreCurrent,
       ScheduleIsPrepared, BuildIsUnderWay, IndexIsOfLatest, StatusIsTrue, Alive, Job, Thread, State

LEMMA BuildKeepsInv ==
  ASSUME Inv, NEW w \in Workers, Build(w) PROVE Inv'
BY DEF Build, Cancelled, queue, Inv, TypeOK, OneWorker, JobsFitStages, JobsAreOfLatest, OfLatest, PublishersAreCurrent,
       ScheduleIsPrepared, BuildIsUnderWay, IndexIsOfLatest, StatusIsTrue, Alive, Job, Thread, State

LEMMA CheckResultKeepsInv ==
  ASSUME Inv, NEW w \in Workers, CheckResult(w) PROVE Inv'
BY DEF CheckResult, Cancelled, queue, Inv, TypeOK, OneWorker, JobsFitStages, JobsAreOfLatest, OfLatest, PublishersAreCurrent,
       ScheduleIsPrepared, BuildIsUnderWay, IndexIsOfLatest, StatusIsTrue, Alive, Job, Thread, State

LEMMA PublishIndexKeepsInv ==
  ASSUME Inv, NEW w \in Workers, PublishIndex(w) PROVE Inv'
<1> USE DEF PublishIndex, Cancelled, queue, Inv, TypeOK, OneWorker, JobsFitStages, JobsAreOfLatest, OfLatest,
          PublishersAreCurrent, ScheduleIsPrepared, BuildIsUnderWay, IndexIsOfLatest, StatusIsTrue,
          Alive, Job, Thread, State
<1>1. TypeOK'
  <2> DEFINE published == [snapshot |-> state.snapshot, index |-> worker[w].job.input,
                           building |-> FALSE, failed |-> FALSE]
  <2>1. worker[w].job.input \in Inputs
    OBVIOUS
  <2>2. state' = published /\ published \in State
    BY <2>1
  <2>3. worker' \in [Workers -> Thread \cup {None}]
    OBVIOUS
  <2>4. \A v \in Workers : stateLock' = v <=> worker'[v] # None /\ worker'[v].at = "publish"
    OBVIOUS
  <2> HIDE DEF State, Thread, published
  <2> QED
    BY <2>2, <2>3, <2>4
<1>2. OneWorker'
  OBVIOUS
<1>3. JobsFitStages'
  OBVIOUS
<1>4. JobsAreOfLatest'
  OBVIOUS
<1>5. PublishersAreCurrent'
  OBVIOUS
<1>6. ScheduleIsPrepared'
  <2>1. owner \notin {"enqueue", "spawn", "fail"}
    OBVIOUS
  <2>2. state'.snapshot = state.snapshot
    OBVIOUS
  <2> QED
    BY <2>1, <2>2
<1>7. BuildIsUnderWay'
  OBVIOUS
<1>8. IndexIsOfLatest'
  OBVIOUS
<1>9. StatusIsTrue'
  OBVIOUS
<1> QED
  BY <1>1, <1>2, <1>3, <1>4, <1>5, <1>6, <1>7, <1>8, <1>9

-----------------------------------------------------------------------------
(* The theorems *)

LEMMA NextKeepsInv == Inv /\ [Next]_vars => Inv'
<1> SUFFICES ASSUME Inv, [Next]_vars PROVE Inv'
  OBVIOUS
<1>1. CASE UNCHANGED vars
  BY <1>1 DEF vars, Inv, TypeOK, OneWorker, JobsFitStages, JobsAreOfLatest, OfLatest, PublishersAreCurrent,
              ScheduleIsPrepared, BuildIsUnderWay, IndexIsOfLatest, StatusIsTrue, Alive
<1>2. CASE Schedule
  BY <1>2, AdvanceKeepsInv, InvalidateKeepsInv, EnqueueKeepsInv, SpawnWorkerKeepsInv, SpawnFailsKeepsInv,
     RecordFailureKeepsInv DEF Schedule
<1>3. ASSUME NEW w \in Workers, Work(w) PROVE Inv'
  BY <1>3, ExitKeepsInv, TakeJobKeepsInv, BuildKeepsInv, CheckResultKeepsInv, PublishIndexKeepsInv DEF Work
<1> QED
  BY <1>1, <1>2, <1>3, StartDropKeepsInv, FinishDropKeepsInv DEF Next, Terminated

LEMMA InvIsInvariant == Spec => []Inv
BY InitHasInv, NextKeepsInv, PTL DEF Spec

(* Variables keep their types, and locks are held at the steps that hold   *)
(* them.                                                                   *)
THEOREM TypesHold == Spec => []TypeOK
<1>1. Inv => TypeOK
  BY DEF Inv
<1> QED
  BY <1>1, InvIsInvariant, PTL

(* Background::publish: what lookups find is of the graph that was         *)
(* scheduled last, although the epoch is read under neither lock.          *)
THEOREM IndexesAreOfLatest == Spec => []IndexIsOfLatest
<1>1. Inv => IndexIsOfLatest
  BY DEF Inv
<1> QED
  BY <1>1, InvIsInvariant, PTL

(* The queue's running flag: there is one thread at most, and one where the*)
(* flag says so.                                                           *)
THEOREM OneThreadWorks == Spec => []OneWorker
<1>1. Inv => OneWorker
  BY DEF Inv
<1> QED
  BY <1>1, InvIsInvariant, PTL

(* Between schedules a lookup is told that the index is being built only if*)
(* a thread has its job, and otherwise has an index or a failure.          *)
THEOREM LookupsAreToldTheTruth == Spec => []StatusIsTrue
<1>1. Inv => StatusIsTrue
  BY DEF Inv
<1> QED
  BY <1>1, InvIsInvariant, PTL

(* All of it, as the run checks it.                                        *)
THEOREM LookupsStaySound == Spec => []LookupsAreSound
BY IndexesAreOfLatest, OneThreadWorks, LookupsAreToldTheTruth, PTL DEF LookupsAreSound

(* Between schedules a question is answered from the index of the graph    *)
(* that was scheduled last, or from none.                                  *)
LEMMA ReadyIndexIsOfLatest == Inv /\ owner = "idle" => ReadyIndex \in {None, latest}
BY DEF Inv, IndexIsOfLatest, ReadyIndex

(* However far the thread is, suggest_refactors lists pairs of the graph as*)
(* it is now, and all of them unless it reports a budget or a limit; and   *)
(* find_similar finds the same with an index as without, but for texts too *)
(* short to be compared and where it says that it is partial.              *)
THEOREM AnswersStayComplete == Spec => []AnswersAreComplete
<1>1. Inv => AnswersAreComplete
  BY ReadyIndexIsOfLatest, QuestionsAreAnswered DEF AnswersAreComplete, Inv, TypeOK
<1> QED
  BY <1>1, InvIsInvariant, PTL

(* A strategy removes a function only where the answer left nothing out,   *)
(* with every proven relation to it redirected; and the strategy that comes*)
(* first is never one that gaps block.                                     *)
THEOREM NothingGoesUnseen == Spec => []NothingIsRemovedUnseen
<1>1. Inv => NothingIsRemovedUnseen
  BY ReadyIndexIsOfLatest, QuestionsAreAnswered DEF NothingIsRemovedUnseen, Inv, TypeOK
<1> QED
  BY <1>1, InvIsInvariant, PTL
=============================================================================
