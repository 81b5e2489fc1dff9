--------------------------- MODULE GraphReadersProofs ---------------------------
(***************************************************************************)
(* Proofs about what reads a published graph: the overlay of a working     *)
(* tree that changes, and the tasks that orient prepares and packs.  The   *)
(* lemmas about recursion, orders and least numbers are RefactorsProofs'.  *)
(*                                                                         *)
(* DeltaOverlay, for any paths, texts and extractions and any number of    *)
(* changes.  The overlay holds the finds of a text once for every time it  *)
(* was told that the file holds it (AddsUp), and knows of each changed     *)
(* path the text it has (Follows); so what a view counts is what the       *)
(* property says.                                                          *)
(*                                                                         *)
(* Orient, for any graphs, tasks, replies and budgets.  Every lane lists   *)
(* hits with numbers for scores and fusion candidates of distinct          *)
(* documents, so that the sidecar changes one semantic score and neither   *)
(* the candidates nor their order.  Packing prefers by that score, and may *)
(* choose others; but where a reply is asked for, all records have the     *)
(* same obligations, so that either all are covered or none is, and which  *)
(* depends only on whether some record fits the budget alone.  Whatever    *)
(* the obligations, what is selected fits and hangs together, and what was *)
(* excluded as out of reach stays so (Sound), for the search finds a path  *)
(* unless a closed set of records separates it from the selected, and what *)
(* is admitted lies on their side; each round but the last selects another *)
(* candidate, so that the rounds end where none is left (Settled).         *)
(***************************************************************************)
EXTENDS Orient, RefactorsProofs

-----------------------------------------------------------------------------
(* Counting in sequences *)

(* How many elements of seq are in S. *)
Count(seq, S) == Cardinality({i \in DOMAIN seq : seq[i] \in S})

(* A sequence has finitely many elements of a set.                         *)
LEMMA CountIsNumber ==
  ASSUME NEW A, NEW seq \in Seq(A), NEW S
  PROVE  /\ DOMAIN seq = 1 .. Len(seq) /\ Len(seq) \in Nat
         /\ IsFiniteSet({i \in DOMAIN seq : seq[i] \in S})
         /\ Count(seq, S) \in Nat
<1>1. DOMAIN seq = 1 .. Len(seq) /\ Len(seq) \in Nat
  OBVIOUS
<1>2. IsFiniteSet(1 .. Len(seq))
  BY <1>1, FS_Interval
<1>3. IsFiniteSet({i \in DOMAIN seq : seq[i] \in S})
  BY <1>1, <1>2, FS_Subset
<1> QED
  BY <1>1, <1>3, FS_CardinalityType DEF Count

(* It has 0 of a set that no element is in.                                *)
LEMMA CountOfNone ==
  ASSUME NEW seq, NEW S, \A i \in DOMAIN seq : seq[i] \notin S
  PROVE  Count(seq, S) = 0
<1>1. {i \in DOMAIN seq : seq[i] \in S} = {}
  OBVIOUS
<1> QED
  BY <1>1, FS_EmptySet DEF Count

(* Sequences that meet the sets at the same places count the same.         *)
LEMMA CountOfAlike ==
  ASSUME NEW s, NEW t, NEW S, NEW T, DOMAIN s = DOMAIN t, \A i \in DOMAIN s : s[i] \in S <=> t[i] \in T
  PROVE  Count(s, S) = Count(t, T)
<1>1. {i \in DOMAIN s : s[i] \in S} = {i \in DOMAIN t : t[i] \in T}
  OBVIOUS
<1> QED
  BY <1>1 DEF Count

(* Times counts one element, and is 0 for what is not one.                 *)
LEMMA CountOfElement ==
  ASSUME NEW A, NEW seq \in Seq(A), NEW x
  PROVE  /\ Times(seq, x) = Count(seq, {x}) /\ Times(seq, x) \in Nat
         /\ x \in Elements(seq) <=> Times(seq, x) # 0
<1>1. {i \in DOMAIN seq : seq[i] = x} = {i \in DOMAIN seq : seq[i] \in {x}}
  OBVIOUS
<1>2. Times(seq, x) = Count(seq, {x}) /\ Times(seq, x) \in Nat
  BY <1>1, CountIsNumber DEF Times, Count
<1>3. IsFiniteSet({i \in DOMAIN seq : seq[i] = x})
  <2>1. IsFiniteSet({i \in DOMAIN seq : seq[i] \in {x}})
    BY CountIsNumber
  <2> QED
    BY <1>1, <2>1
<1>4. Times(seq, x) = 0 <=> {i \in DOMAIN seq : seq[i] = x} = {}
  BY <1>3, FS_EmptySet DEF Times
<1>5. x \in Elements(seq) <=> {i \in DOMAIN seq : seq[i] = x} # {}
  BY DEF Elements
<1> QED
  BY <1>2, <1>4, <1>5

(* An element appended counts once.                                        *)
LEMMA CountAppended ==
  ASSUME NEW A, NEW seq \in Seq(A), NEW x \in A, NEW S
  PROVE  /\ Append(seq, x) \in Seq(A)
         /\ Count(Append(seq, x), S) = IF x \in S THEN Count(seq, S) + 1 ELSE Count(seq, S)
<1> DEFINE at(s) == {i \in DOMAIN s : s[i] \in S}
           n == Len(seq)
           longer == Append(seq, x)
<1>1. /\ n \in Nat /\ DOMAIN seq = 1 .. n
      /\ longer \in Seq(A) /\ DOMAIN longer = 1 .. n + 1
      /\ longer[n + 1] = x /\ \A i \in 1 .. n : longer[i] = seq[i]
  OBVIOUS
<1> HIDE DEF n, longer
<1>2. IsFiniteSet(at(seq)) /\ n + 1 \notin at(seq)
  <2>1. IsFiniteSet(at(seq))
    BY CountIsNumber
  <2> QED
    BY <1>1, <2>1
<1>3. CASE x \in S
  <2>1. at(longer) = at(seq) \cup {n + 1}
    BY <1>1, <1>3
  <2>2. Cardinality(at(longer)) = Cardinality(at(seq)) + 1
    BY <1>2, <2>1, FS_AddElement
  <2> QED
    BY <1>1, <1>3, <2>2 DEF Count, longer
<1>4. CASE x \notin S
  <2>1. at(longer) = at(seq)
    BY <1>1, <1>4
  <2> QED
    BY <1>1, <1>4, <2>1 DEF Count, longer
<1> QED
  BY <1>3, <1>4

(* Joined sequences count what both count.                                 *)
LEMMA CountJoined ==
  ASSUME NEW A, NEW s \in Seq(A), NEW t \in Seq(A), NEW S
  PROVE  s \o t \in Seq(A) /\ Count(s \o t, S) = Count(s, S) + Count(t, S)
<1> DEFINE at(seq) == {i \in DOMAIN seq : seq[i] \in S}
           m == Len(s)
           n == Len(t)
           st == s \o t
           moved == {m + i : i \in at(t)}
           move == [i \in at(t) |-> m + i]
<1>1. /\ m \in Nat /\ DOMAIN s = 1 .. m /\ n \in Nat /\ DOMAIN t = 1 .. n
      /\ st \in Seq(A) /\ DOMAIN st = 1 .. m + n
      /\ \A i \in 1 .. m : st[i] = s[i]
      /\ \A i \in 1 .. n : st[m + i] = t[i]
  OBVIOUS
<1> HIDE DEF m, n, st
<1>2. at(st) = at(s) \cup moved
  <2>1. at(s) \subseteq at(st) /\ moved \subseteq at(st)
    BY <1>1
  <2>2. ASSUME NEW i \in at(st), i \notin 1 .. m
        PROVE  i \in moved
    <3>1. i - m \in 1 .. n /\ i = m + (i - m)
      BY <1>1, <2>2
    <3> QED
      BY <1>1, <3>1
  <2> QED
    BY <1>1, <2>1, <2>2
<1>3. at(s) \cap moved = {}
  BY <1>1
<1>4. IsFiniteSet(at(s)) /\ IsFiniteSet(at(t))
  BY CountIsNumber
<1>5. move \in Bijection(at(t), moved)
  <2>1. at(t) \subseteq Int
    BY <1>1
  <2> QED
    BY <1>1, <2>1 DEF Bijection, Injection, Surjection, IsInjective
<1>6. IsFiniteSet(moved) /\ Cardinality(moved) = Cardinality(at(t))
  <2> HIDE DEF move, moved
  <2>1. ExistsBijection(at(t), moved)
    BY <1>5 DEF ExistsBijection
  <2> HIDE DEF at
  <2> QED
    BY ONLY <1>4, <2>1, FS_Bijection
<1>7. Cardinality(at(st)) = Cardinality(at(s)) + Cardinality(at(t))
  <2>1. at(s) \cap moved = {} /\ IsFiniteSet(at(s)) /\ IsFiniteSet(moved)
    BY <1>3, <1>4, <1>6
  <2> HIDE DEF at, moved
  <2>2. Cardinality(at(s) \cup moved) = Cardinality(at(s)) + Cardinality(moved) - Cardinality(at(s) \cap moved)
    BY ONLY <2>1, FS_Union
  <2>3. Cardinality(at(s) \cap moved) = 0 /\ Cardinality(at(s)) \in Nat /\ Cardinality(moved) \in Nat
    BY <2>1, FS_EmptySet, FS_CardinalityType
  <2> QED
    BY <1>2, <1>6, <2>2, <2>3
<1> QED
  BY <1>1, <1>7 DEF Count, st

(* Only keeps of a sequence what is in the set, as often as it was there.  *)
OnlyIs(to, A, seq, S, n) ==
  \A k \in 0 .. n : to[k] = IF k = 0 THEN <<>> ELSE IF seq[k] \in S THEN Append(to[k - 1], seq[k]) ELSE to[k - 1]

(* The function Only recurses on exists, and has sequences as values.      *)
LEMMA OnlySteps ==
  ASSUME NEW A, NEW seq \in Seq(A), NEW S
  PROVE  \E to \in [0 .. Len(seq) -> Seq(A)] : OnlyIs(to, A, seq, S, Len(seq)) /\ Only(seq, S) = to[Len(seq)]
<1> DEFINE n == Len(seq)
           step == [ss \in Seq(A) \X (1 .. n) |-> IF seq[ss[2]] \in S THEN Append(ss[1], seq[ss[2]]) ELSE ss[1]]
           Body(to) == [k \in 0 .. n |->
             IF k = 0 THEN <<>> ELSE IF seq[k] \in S THEN Append(to[k - 1], seq[k]) ELSE to[k - 1]]
           to == CHOOSE f : f = Body(f)
<1>1. n \in Nat /\ \A k \in 1 .. n : seq[k] \in A
  OBVIOUS
<1>2. step \in [Seq(A) \X (1 .. n) -> Seq(A)]
  BY <1>1
<1>3. <<>> \in Seq(A)
  OBVIOUS
<1>4. PICK f : IsRun(f, Seq(A), <<>>, n, step)
  <2> HIDE DEF n, step
  <2> QED
    BY ONLY <1>1, <1>2, <1>3, RunExists
<1>5. f = Body(f)
  <2>1. f \in [0 .. n -> Seq(A)] /\ \A k \in 0 .. n : f[k] = IF k = 0 THEN <<>> ELSE step[<<f[k - 1], k>>]
    BY <1>4 DEF IsRun
  <2>2. \A k \in 0 .. n : k # 0 =>
          step[<<f[k - 1], k>>] = IF seq[k] \in S THEN Append(f[k - 1], seq[k]) ELSE f[k - 1]
    <3> HIDE DEF n
    <3>1. \A k \in 0 .. n : k # 0 => k - 1 \in 0 .. n /\ k \in 1 .. n
      BY <1>1
    <3> QED
      BY <2>1, <3>1
  <2> HIDE DEF n, step
  <2> QED
    BY <2>1, <2>2
<1>6. to = Body(to)
  <2> HIDE DEF Body
  <2> QED
    BY <1>5
<1>7. OnlyIs(to, A, seq, S, n)
  <2> HIDE DEF to
  <2> QED
    BY <1>6 DEF OnlyIs
<1>8. Only(seq, S) = to[n]
  BY DEF Only
<1>9. to \in [0 .. n -> Seq(A)]
  <2> DEFINE T == {k \in 0 .. n : to[k] \in Seq(A)}
  <2>1. to = [k \in 0 .. n |-> to[k]]
    <3> HIDE DEF to, n
    <3> QED
      BY <1>6
  <2>2. 0 \in T
    <3> HIDE DEF to, n
    <3>1. 0 \in 0 .. n
      BY <1>1
    <3>2. to[0] = <<>>
      BY <1>7, <3>1 DEF OnlyIs
    <3> QED
      BY <1>3, <3>1, <3>2
  <2>3. ASSUME NEW k \in 1 .. n, k - 1 \in T
        PROVE  k \in T
    <3> HIDE DEF to, n
    <3>1. k \in 0 .. n /\ k # 0 /\ seq[k] \in A /\ to[k - 1] \in Seq(A)
      BY <1>1, <2>3
    <3>2. to[k] = IF seq[k] \in S THEN Append(to[k - 1], seq[k]) ELSE to[k - 1]
      BY <1>7, <3>1 DEF OnlyIs
    <3>3. to[k] \in Seq(A)
      <4>1. Append(to[k - 1], seq[k]) \in Seq(A)
        BY <3>1, CountAppended
      <4> QED
        BY <3>1, <3>2, <4>1
    <3> QED
      BY <3>1, <3>3
  <2>4. 0 .. n \subseteq T
    <3> HIDE DEF T, to, n
    <3> QED
      BY ONLY <1>1, <2>2, <2>3, UpTo
  <2> HIDE DEF to, n
  <2> QED
    BY <2>1, <2>4
<1> HIDE DEF to
<1> QED
  BY <1>7, <1>8, <1>9

(* Of what Only keeps, as much is in T as was in both.                     *)
LEMMA CountOfOnly ==
  ASSUME NEW A, NEW seq \in Seq(A), NEW S, NEW T
  PROVE  Only(seq, S) \in Seq(A) /\ Count(Only(seq, S), T) = Count(seq, S \cap T)
<1> DEFINE n == Len(seq)
           at(k) == {i \in 1 .. k : seq[i] \in S \cap T}
<1>1. n \in Nat /\ DOMAIN seq = 1 .. n /\ \A k \in 1 .. n : seq[k] \in A
  OBVIOUS
<1>2. PICK to \in [0 .. n -> Seq(A)] : OnlyIs(to, A, seq, S, n) /\ Only(seq, S) = to[n]
  BY OnlySteps
<1> DEFINE U == {k \in 0 .. n : Count(to[k], T) = Cardinality(at(k))}
<1> HIDE DEF n
<1>3. 0 \in U
  <2>1. 0 \in 0 .. n
    BY <1>1
  <2>2. to[0] = <<>>
    BY <1>2, <2>1 DEF OnlyIs
  <2>3. at(0) = {}
    OBVIOUS
  <2>4. Count(to[0], T) = 0
    BY <2>2, CountOfNone
  <2> QED
    BY <2>1, <2>3, <2>4, FS_EmptySet
<1>4. ASSUME NEW k \in 1 .. n, k - 1 \in U
      PROVE  k \in U
  <2>1. /\ k \in 0 .. n /\ k # 0 /\ k - 1 \in 0 .. n /\ seq[k] \in A
        /\ Count(to[k - 1], T) = Cardinality(at(k - 1))
    BY <1>1, <1>4
  <2>2. to[k] = IF seq[k] \in S THEN Append(to[k - 1], seq[k]) ELSE to[k - 1]
    BY <1>2, <2>1 DEF OnlyIs
  <2>3. to[k - 1] \in Seq(A)
    BY <1>2, <2>1
  <2>4. IsFiniteSet(at(k - 1)) /\ k \notin at(k - 1)
    <3>1. IsFiniteSet(1 .. k - 1)
      BY <1>1, FS_Interval
    <3> QED
      BY <1>1, <3>1, FS_Subset
  <2>5. CASE seq[k] \in S \cap T
    <3>1. at(k) = at(k - 1) \cup {k}
      BY <1>1, <2>5
    <3>2. Cardinality(at(k)) = Cardinality(at(k - 1)) + 1
      <4> HIDE DEF at
      <4> QED
        BY <2>4, <3>1, FS_AddElement
    <3>3. Count(to[k], T) = Count(to[k - 1], T) + 1
      BY <2>1, <2>2, <2>3, <2>5, CountAppended
    <3> HIDE DEF at
    <3> QED
      BY <2>1, <3>2, <3>3
  <2>6. CASE seq[k] \notin S \cap T
    <3>1. at(k) = at(k - 1)
      BY <1>1, <2>6
    <3>2. Count(to[k], T) = Count(to[k - 1], T)
      BY <2>1, <2>2, <2>3, <2>6, CountAppended
    <3> HIDE DEF at
    <3> QED
      BY <2>1, <3>1, <3>2
  <2> QED
    BY <2>5, <2>6
<1>5. n \in U
  <2>1. 0 .. n \subseteq U
    <3> HIDE DEF U
    <3> QED
      BY ONLY <1>1, <1>3, <1>4, UpTo
  <2> QED
    BY <1>1, <2>1
<1>6. at(n) = {i \in DOMAIN seq : seq[i] \in S \cap T}
  BY <1>1
<1>7. to[n] \in Seq(A)
  BY <1>1, <1>2
<1> QED
  BY <1>2, <1>5, <1>6, <1>7 DEF Count

(* Concat of what the paths have, of which only path p has elements of S.  *)
ConcatIs(to, parts, n) ==
  \A k \in 0 .. n : to[k] = IF k = 0 THEN <<>> ELSE to[k - 1] \o parts[k]

(* The function Concat recurses on exists, and has sequences as values.    *)
LEMMA ConcatSteps ==
  ASSUME NEW A, NEW n \in Nat, NEW parts \in [1 .. n -> Seq(A)]
  PROVE  \E to \in [0 .. n -> Seq(A)] : ConcatIs(to, parts, n) /\ Concat(parts) = to[n]
<1> DEFINE step == [ss \in Seq(A) \X (1 .. n) |-> ss[1] \o parts[ss[2]]]
           Body(to) == [k \in 0 .. n |-> IF k = 0 THEN <<>> ELSE to[k - 1] \o parts[k]]
           to == CHOOSE f : f = Body(f)
<1>1. \A k \in 1 .. n : parts[k] \in Seq(A)
  OBVIOUS
<1>2. step \in [Seq(A) \X (1 .. n) -> Seq(A)]
  BY <1>1
<1>3. <<>> \in Seq(A)
  OBVIOUS
<1>4. PICK f : IsRun(f, Seq(A), <<>>, n, step)
  <2> HIDE DEF step
  <2> QED
    BY ONLY n \in Nat, <1>2, <1>3, RunExists
<1>5. f = Body(f)
  <2>1. f \in [0 .. n -> Seq(A)] /\ \A k \in 0 .. n : f[k] = IF k = 0 THEN <<>> ELSE step[<<f[k - 1], k>>]
    BY <1>4 DEF IsRun
  <2>2. \A k \in 0 .. n : k # 0 => step[<<f[k - 1], k>>] = f[k - 1] \o parts[k]
    <3>1. \A k \in 0 .. n : k # 0 => k - 1 \in 0 .. n /\ k \in 1 .. n
      OBVIOUS
    <3> QED
      BY <2>1, <3>1
  <2> HIDE DEF step
  <2> QED
    BY <2>1, <2>2
<1>6. to = Body(to)
  <2> HIDE DEF Body
  <2> QED
    BY <1>5
<1>7. ConcatIs(to, parts, n)
  <2> HIDE DEF to
  <2> QED
    BY <1>6 DEF ConcatIs
<1>8. Concat(parts) = to[n]
  <2>1. Len(parts) = n
    OBVIOUS
  <2> QED
    BY <2>1 DEF Concat
<1>9. to \in [0 .. n -> Seq(A)]
  <2> DEFINE T == {k \in 0 .. n : to[k] \in Seq(A)}
  <2>1. to = [k \in 0 .. n |-> to[k]]
    <3> HIDE DEF to
    <3> QED
      BY <1>6
  <2>2. 0 \in T
    <3> HIDE DEF to
    <3>1. 0 \in 0 .. n
      OBVIOUS
    <3>2. to[0] = <<>>
      BY <1>7, <3>1 DEF ConcatIs
    <3> QED
      BY <1>3, <3>1, <3>2
  <2>3. ASSUME NEW k \in 1 .. n, k - 1 \in T
        PROVE  k \in T
    <3> HIDE DEF to
    <3>1. k \in 0 .. n /\ k # 0 /\ parts[k] \in Seq(A) /\ to[k - 1] \in Seq(A)
      BY <1>1, <2>3
    <3>2. to[k] = to[k - 1] \o parts[k]
      BY <1>7, <3>1 DEF ConcatIs
    <3>3. to[k - 1] \o parts[k] \in Seq(A)
      BY <3>1, CountJoined
    <3>4. to[k] \in Seq(A)
      BY <3>2, <3>3
    <3> QED
      BY <3>1, <3>4
  <2>4. 0 .. n \subseteq T
    <3> HIDE DEF T, to
    <3> QED
      BY ONLY n \in Nat, <2>2, <2>3, UpTo
  <2> HIDE DEF to
  <2> QED
    BY <2>1, <2>4
<1> HIDE DEF to
<1> QED
  BY <1>7, <1>8, <1>9

(* Of the n parts only the p-th has elements of S.                         *)
IsAlone(p, A, n, parts, S) ==
  /\ n \in Nat /\ parts \in [1 .. n -> Seq(A)] /\ p \in 1 .. n
  /\ \A q \in 1 .. n : q # p => Count(parts[q], S) = 0

(* Concat then counts what that part counts.                               *)
LEMMA CountOfConcat ==
  ASSUME NEW A, NEW n, NEW parts, NEW S, NEW p, IsAlone(p, A, n, parts, S)
  PROVE  Concat(parts) \in Seq(A) /\ Count(Concat(parts), S) = Count(parts[p], S)
<1>0. n \in Nat /\ parts \in [1 .. n -> Seq(A)] /\ p \in 1 .. n
  BY DEF IsAlone
<1> USE <1>0
<1>1. PICK to \in [0 .. n -> Seq(A)] : ConcatIs(to, parts, n) /\ Concat(parts) = to[n]
  BY ConcatSteps
<1> DEFINE T == {k \in 0 .. n : Count(to[k], S) = IF k < p THEN 0 ELSE Count(parts[p], S)}
<1>2. Count(parts[p], S) \in Nat
  BY CountIsNumber
<1>3. 0 \in T
  <2>1. 0 \in 0 .. n /\ 0 < p
    OBVIOUS
  <2>2. to[0] = <<>>
    BY <1>1, <2>1 DEF ConcatIs
  <2>3. Count(to[0], S) = 0
    BY <2>2, CountOfNone
  <2> QED
    BY <2>1, <2>3
<1>4. ASSUME NEW k \in 1 .. n, k - 1 \in T
      PROVE  k \in T
  <2>1. /\ k \in 0 .. n /\ k # 0 /\ k - 1 \in 0 .. n /\ parts[k] \in Seq(A) /\ to[k - 1] \in Seq(A)
        /\ Count(to[k - 1], S) = IF k - 1 < p THEN 0 ELSE Count(parts[p], S)
    BY <1>4
  <2>2. to[k] = to[k - 1] \o parts[k]
    BY <1>1, <2>1 DEF ConcatIs
  <2>3. Count(to[k], S) = Count(to[k - 1], S) + Count(parts[k], S)
    BY <2>1, <2>2, CountJoined
  <2>4. k # p => Count(parts[k], S) = 0
    BY DEF IsAlone
  <2> QED
    BY <1>2, <2>1, <2>3, <2>4
<1>5. 0 .. n \subseteq T
  <2> HIDE DEF T
  <2> QED
    BY ONLY n \in Nat, <1>3, <1>4, UpTo
<1> QED
  BY <1>1, <1>5

-----------------------------------------------------------------------------
(* What the overlay holds *)

Stored == Texts \cup {Absent}
Items == {Absent} \cup UNION {Elements(Declares[t]) \cup Elements(Relates[t]) \cup Elements(Doubts[t]) : t \in Texts}
FindKinds == {"DeleteNode", "DeleteEdge", "UpsertNode", "UpsertEdge", "CoverageGap"}
Records == [kind : FindKinds, path : Paths, hash : Stored, ordinal : Nat, item : Items]
Changes == {Absent} \cup Written \cup Removed
Overlays == [base : Nat, next : Nat, changes : [Paths -> Changes], records : Seq(Records)]

Holding(kind, path, text, items) ==
  {r \in Records : r.kind = kind /\ r.path = path /\ r.hash = text /\ r.item \in items}
Found(kind, text) == IF kind = "UpsertNode" THEN Declares[text] ELSE Relates[text]

(* What an extraction lists are items of records.                          *)
LEMMA FoundIsTyped ==
  ASSUME NEW t \in Texts
  PROVE  /\ Declares[t] \in Seq(Items) /\ Relates[t] \in Seq(Items) /\ Doubts[t] \in Seq(Items)
         /\ <<Absent>> \in Seq(Items)
<1>1. /\ Elements(Declares[t]) \subseteq Items /\ Elements(Relates[t]) \subseteq Items
      /\ Elements(Doubts[t]) \subseteq Items /\ Absent \in Items
  BY DEF Items
<1>2. /\ Declares[t] \in Seq(Elements(Declares[t])) /\ Relates[t] \in Seq(Elements(Relates[t]))
      /\ Doubts[t] \in Seq(Elements(Doubts[t]))
  BY ExtractionAssumption DEF Elements
<1>3. \A S, T, seq : S \subseteq T /\ seq \in Seq(S) => seq \in Seq(T)
  OBVIOUS
<1>4. <<Absent>> \in Seq(Items)
  BY <1>1
<1> QED
  BY ONLY <1>1, <1>2, <1>3, <1>4

(* What pushing items does to the overlay.                                 *)
IsPushed(pushed, o, path, hash, kind, items) ==
  /\ pushed \in Overlays /\ pushed.base = o.base /\ pushed.changes = o.changes
  /\ \A k, p, t, I : Count(pushed.records, Holding(k, p, t, I)) =
        Count(o.records, Holding(k, p, t, I)) +
        IF k = kind /\ p = path /\ t = hash THEN Count(items, I) ELSE 0

(* Push keeps the overlay typed and adds its items to its kind alone.      *)
LEMMA PushAdds ==
  ASSUME NEW o \in Overlays, NEW path \in Paths, NEW hash \in Stored, NEW kind \in FindKinds, NEW items \in Seq(Items)
  PROVE  IsPushed(Push(o, path, hash, kind, items), o, path, hash, kind, items)
<1> DEFINE pushed == Push(o, path, hash, kind, items)
           Record(i) == [kind |-> kind, path |-> path, hash |-> hash, ordinal |-> o.next + i - 1, item |-> items[i]]
           new == [i \in DOMAIN items |-> Record(i)]
<1>1. /\ o.next \in Nat /\ o.records \in Seq(Records) /\ Len(items) \in Nat
      /\ DOMAIN items = 1 .. Len(items)
      /\ \A i \in DOMAIN items : items[i] \in Items /\ o.next + i - 1 \in Nat
  BY DEF Overlays
<1>2. \A i \in DOMAIN items : Record(i) \in Records
  BY <1>1 DEF Records
<1>3. new \in Seq(Records)
  <2> HIDE DEF Record
  <2> QED
    BY <1>1, <1>2
<1>4. /\ pushed = [o EXCEPT !.next = o.next + Len(items), !.records = o.records \o new]
  BY DEF Push
<1>5. o.records \o new \in Seq(Records)
  <2> HIDE DEF new
  <2> QED
    BY <1>1, <1>3
<1>6. /\ pushed \in Overlays /\ pushed.base = o.base /\ pushed.changes = o.changes
      /\ pushed.records = o.records \o new
  <2> DEFINE records == o.records \o new
             next == o.next + Len(items)
  <2>1. next \in Nat /\ records \in Seq(Records)
    BY <1>1, <1>5
  <2>2. pushed = [o EXCEPT !.next = next, !.records = records]
    BY <1>4
  <2> HIDE DEF new, pushed, records, next
  <2>3. /\ pushed \in Overlays /\ pushed.base = o.base /\ pushed.changes = o.changes
        /\ pushed.records = records
    BY <2>1, <2>2 DEF Overlays
  <2> QED
    BY <2>3 DEF records
<1>7. ASSUME NEW k, NEW p, NEW t, NEW I
      PROVE  Count(new, Holding(k, p, t, I)) = IF k = kind /\ p = path /\ t = hash THEN Count(items, I) ELSE 0
  <2>1. CASE k = kind /\ p = path /\ t = hash
    <3>1. \A i \in DOMAIN items : new[i] \in Holding(k, p, t, I) <=> items[i] \in I
      BY <1>2, <2>1 DEF Holding
    <3>2. DOMAIN new = DOMAIN items
      OBVIOUS
    <3> HIDE DEF new
    <3> QED
      BY <2>1, <3>1, <3>2, CountOfAlike
  <2>2. CASE ~(k = kind /\ p = path /\ t = hash)
    <3>1. \A i \in DOMAIN new : new[i] \notin Holding(k, p, t, I)
      BY <2>2 DEF Holding
    <3> HIDE DEF new
    <3> QED
      BY <2>2, <3>1, CountOfNone
  <2> QED
    BY <2>1, <2>2
<1>8. ASSUME NEW k, NEW p, NEW t, NEW I
      PROVE  Count(pushed.records, Holding(k, p, t, I)) =
               Count(o.records, Holding(k, p, t, I)) + Count(new, Holding(k, p, t, I))
  <2> HIDE DEF new, pushed
  <2> QED
    BY <1>1, <1>3, <1>6, CountJoined
<1> HIDE DEF new, pushed
<1>9. \A k, p, t, I : Count(pushed.records, Holding(k, p, t, I)) =
               Count(o.records, Holding(k, p, t, I)) +
               IF k = kind /\ p = path /\ t = hash THEN Count(items, I) ELSE 0
  BY <1>7, <1>8
<1> QED
  BY <1>6, <1>9 DEF pushed, IsPushed

(* Records of deletions add nothing that a view shows.                     *)
LEMMA PushDeletesAdds ==
  ASSUME NEW o \in Overlays, NEW path \in Paths, NEW hash \in Stored
  PROVE  LET pushed == PushDeletes(o, path, hash) IN
         /\ pushed \in Overlays /\ pushed.base = o.base /\ pushed.changes = o.changes
         /\ \A p, t, I : \A k \in {"UpsertNode", "UpsertEdge"} :
               Count(pushed.records, Holding(k, p, t, I)) = Count(o.records, Holding(k, p, t, I))
<1> DEFINE nodes == Push(o, path, hash, "DeleteNode", <<Absent>>)
           both == Push(nodes, path, hash, "DeleteEdge", <<Absent>>)
<1>1. /\ <<Absent>> \in Seq(Items) /\ "DeleteNode" \in FindKinds /\ "DeleteEdge" \in FindKinds
  BY DEF Items, FindKinds
<1>2. IsPushed(nodes, o, path, hash, "DeleteNode", <<Absent>>)
  BY <1>1, PushAdds
<1> HIDE DEF nodes
<1>3. IsPushed(both, nodes, path, hash, "DeleteEdge", <<Absent>>)
  <2>1. nodes \in Overlays
    BY <1>2 DEF IsPushed
  <2> QED
    BY <1>1, <2>1, PushAdds
<1>4. PushDeletes(o, path, hash) = both
  BY DEF PushDeletes, nodes
<1> HIDE DEF both
<1>5. \A k, p, t, I : Count(o.records, Holding(k, p, t, I)) \in Nat
  <2>1. o.records \in Seq(Records)
    BY DEF Overlays
  <2> QED
    BY <2>1, CountIsNumber
<1> QED
  BY <1>2, <1>3, <1>4, <1>5 DEF IsPushed

Upserted == {"UpsertNode", "UpsertEdge"}

(* What the deletion of a file does to the overlay.                        *)
IsDeleted(after, o, path, old) ==
  /\ after \in Overlays /\ after.base = o.base
  /\ after.changes = [o.changes EXCEPT ![path] = [active |-> FALSE, old |-> old]]
  /\ \A p, t, I : \A k \in Upserted :
        Count(after.records, Holding(k, p, t, I)) = Count(o.records, Holding(k, p, t, I))

(* Delete marks the path removed, and adds nothing that a view shows.      *)
LEMMA DeleteForgets ==
  ASSUME NEW o \in Overlays, NEW path \in Paths, NEW old \in Stored
  PROVE  IsDeleted(Delete(o, path, old), o, path, old)
<1> DEFINE change == [active |-> FALSE, old |-> old]
           changed == [o EXCEPT !.changes[path] = change]
<1>1. change \in Changes
  BY DEF Changes, Removed, Stored
<1>2. Delete(o, path, old) = PushDeletes(changed, path, old)
  BY DEF Delete
<1> HIDE DEF change
<1>3. /\ changed \in Overlays /\ changed.base = o.base /\ changed.records = o.records
      /\ changed.changes = [o.changes EXCEPT ![path] = change]
  BY <1>1 DEF Overlays, Changes
<1> HIDE DEF changed
<1> QED
  BY <1>2, <1>3, PushDeletesAdds DEF change, IsDeleted, Upserted

(* The records hold the finds of a text once more than before.             *)
Brings(more, records, path, new) ==
  \A p, t, I : \A k \in Upserted :
    Count(more, Holding(k, p, t, I)) =
      Count(records, Holding(k, p, t, I)) + IF p = path /\ t = new THEN Count(Found(k, new), I) ELSE 0

(* What a new text of a file does to the overlay.                          *)
IsApplied(after, o, path, old, new) ==
  /\ after \in Overlays /\ after.base = o.base
  /\ after.changes = [o.changes EXCEPT ![path] = [active |-> TRUE, old |-> old, current |-> new]]
  /\ Brings(after.records, o.records, path, new)

(* Apply marks the path written, and adds the finds of its text.           *)
LEMMA ApplyBrings ==
  ASSUME NEW o \in Overlays, NEW path \in Paths, NEW old \in Stored, NEW new \in Texts
  PROVE  IsApplied(Apply(o, path, old, new), o, path, old, new)
<1> DEFINE change == [active |-> TRUE, old |-> old, current |-> new]
           changed == [o EXCEPT !.changes[path] = change]
           gone == PushDeletes(changed, path, old)
           nodes == Push(gone, path, new, "UpsertNode", Declares[new])
           edges == Push(nodes, path, new, "UpsertEdge", Relates[new])
           after == Push(edges, path, new, "CoverageGap", Doubts[new])
<1>1. change \in Changes
  BY DEF Changes, Written, Stored
<1>2. Apply(o, path, old, new) = after
  BY DEF Apply
<1> HIDE DEF change
<1>3. /\ changed \in Overlays /\ changed.base = o.base /\ changed.records = o.records
      /\ changed.changes = [o.changes EXCEPT ![path] = change]
  BY <1>1 DEF Overlays, Changes
<1> HIDE DEF changed
<1>4. /\ gone \in Overlays /\ gone.base = changed.base /\ gone.changes = changed.changes
      /\ \A p, t, I : \A k \in {"UpsertNode", "UpsertEdge"} :
               Count(gone.records, Holding(k, p, t, I)) = Count(changed.records, Holding(k, p, t, I))
  BY <1>3, PushDeletesAdds
<1> HIDE DEF gone
<1>5. /\ new \in Stored /\ {"UpsertNode", "UpsertEdge", "CoverageGap"} \subseteq FindKinds
      /\ Declares[new] \in Seq(Items) /\ Relates[new] \in Seq(Items) /\ Doubts[new] \in Seq(Items)
  BY FoundIsTyped DEF Stored, FindKinds
<1>6. IsPushed(nodes, gone, path, new, "UpsertNode", Declares[new])
  BY <1>4, <1>5, PushAdds
<1> HIDE DEF nodes
<1>7. IsPushed(edges, nodes, path, new, "UpsertEdge", Relates[new])
  <2>1. nodes \in Overlays
    BY <1>6 DEF IsPushed
  <2> QED
    BY <1>5, <2>1, PushAdds
<1> HIDE DEF edges
<1>8. IsPushed(after, edges, path, new, "CoverageGap", Doubts[new])
  <2>1. edges \in Overlays
    BY <1>7 DEF IsPushed
  <2> QED
    BY <1>5, <2>1, PushAdds
<1> HIDE DEF after
<1>9. \A k, p, t, I : Count(o.records, Holding(k, p, t, I)) \in Nat
  <2>1. o.records \in Seq(Records)
    BY DEF Overlays
  <2> QED
    BY <2>1, CountIsNumber
<1>10. \A I : Count(Declares[new], I) \in Nat /\ Count(Relates[new], I) \in Nat
  BY <1>5, CountIsNumber
<1>11. ASSUME NEW p, NEW t, NEW I, NEW k \in {"UpsertNode", "UpsertEdge"}
      PROVE  Count(after.records, Holding(k, p, t, I)) =
                 Count(o.records, Holding(k, p, t, I)) +
                 IF p = path /\ t = new THEN Count(Found(k, new), I) ELSE 0
  <2>1. Count(gone.records, Holding(k, p, t, I)) = Count(o.records, Holding(k, p, t, I))
    BY <1>3, <1>4
  <2>2. Count(nodes.records, Holding(k, p, t, I)) = Count(gone.records, Holding(k, p, t, I)) +
               IF k = "UpsertNode" /\ p = path /\ t = new THEN Count(Declares[new], I) ELSE 0
    BY <1>6 DEF IsPushed
  <2>3. Count(edges.records, Holding(k, p, t, I)) = Count(nodes.records, Holding(k, p, t, I)) +
               IF k = "UpsertEdge" /\ p = path /\ t = new THEN Count(Relates[new], I) ELSE 0
    BY <1>7 DEF IsPushed
  <2>4. Count(after.records, Holding(k, p, t, I)) = Count(edges.records, Holding(k, p, t, I)) +
               IF k = "CoverageGap" /\ p = path /\ t = new THEN Count(Doubts[new], I) ELSE 0
    BY <1>8 DEF IsPushed
  <2> QED
    BY <1>9, <1>10, <2>1, <2>2, <2>3, <2>4 DEF Found
<1>12. /\ after.base = o.base
       /\ after.changes = [o.changes EXCEPT ![path] = change]
  BY <1>3, <1>4, <1>6, <1>7, <1>8 DEF IsPushed
<1> QED
  BY <1>2, <1>8, <1>11, <1>12 DEF change, IsPushed, IsApplied, Brings, Upserted

-----------------------------------------------------------------------------
(* What the graph and the view show *)

Documents == {Document(p, d, b) : p \in Paths, d \in Items, b \in Stored}
Edges == {EdgeOf(p, e) : p \in Paths, e \in Items}

(* What a text gives of a file names the path of the file.                 *)
LEMMA SymbolsAreOfThePath ==
  ASSUME NEW p \in Paths, NEW t \in Stored, NEW b \in Stored
  PROVE  /\ Symbols(p, t, b) \in Seq(Documents) /\ \A i \in DOMAIN Symbols(p, t, b) : Symbols(p, t, b)[i].path = p
         /\ Sites(p, t) \in Seq(Edges) /\ \A i \in DOMAIN Sites(p, t) : Sites(p, t)[i].path = p
<1>1. CASE t = Absent
  <2>1. Symbols(p, t, b) = <<>> /\ Sites(p, t) = <<>>
    BY <1>1 DEF Symbols, Sites
  <2> QED
    BY <2>1
<1>2. CASE t # Absent
  <2>1. t \in Texts
    BY <1>2 DEF Stored
  <2> DEFINE symbols == [i \in DOMAIN Declares[t] |-> Document(p, Declares[t][i], b)]
             sites == [i \in DOMAIN Relates[t] |-> EdgeOf(p, Relates[t][i])]
  <2>2. /\ Len(Declares[t]) \in Nat /\ DOMAIN Declares[t] = 1 .. Len(Declares[t])
        /\ Len(Relates[t]) \in Nat /\ DOMAIN Relates[t] = 1 .. Len(Relates[t])
        /\ \A i \in DOMAIN Declares[t] : Declares[t][i] \in Items
        /\ \A i \in DOMAIN Relates[t] : Relates[t][i] \in Items
    BY <2>1, FoundIsTyped
  <2>3. /\ \A i \in DOMAIN Declares[t] : Document(p, Declares[t][i], b) \in Documents
        /\ \A i \in DOMAIN Relates[t] : EdgeOf(p, Relates[t][i]) \in Edges
    BY <2>2 DEF Documents, Edges
  <2>4. symbols \in Seq(Documents) /\ sites \in Seq(Edges)
    BY <2>2, <2>3
  <2>5. /\ \A i \in DOMAIN symbols : symbols[i].path = p
        /\ \A i \in DOMAIN sites : sites[i].path = p
    BY DEF Document, EdgeOf
  <2>6. Symbols(p, t, b) = symbols /\ Sites(p, t) = sites
    BY <1>2 DEF Symbols, Sites
  <2> HIDE DEF symbols, sites
  <2> QED
    BY <2>4, <2>5, <2>6
<1> QED
  BY <1>1, <1>2

(* A graph shows of a path the text the tree has there.                    *)
IsShownOf(tree, g) ==
  /\ g.documents \in Seq(Documents) /\ g.edges \in Seq(Edges)
  /\ \A p \in Paths : \A x : x.path = p =>
       /\ Count(g.documents, {x}) = Count(Symbols(p, tree[p], tree[p]), {x})
       /\ Count(g.edges, {x}) = Count(Sites(p, tree[p]), {x})

(* An indexed graph has of each path what the tree's text there gives.     *)
LEMMA GraphShowsTheTree ==
  ASSUME NEW g, NEW tree \in [Paths -> Stored]
  PROVE  IsShownOf(tree, Graph(g, tree))
<1> DEFINE n == Cardinality(Paths)
           symbols == [p \in 1 .. n |-> Symbols(p, tree[p], tree[p])]
           sites == [p \in 1 .. n |-> Sites(p, tree[p])]
<1>1. Graph(g, tree).documents = Concat(symbols) /\ Graph(g, tree).edges = Concat(sites)
  BY DEF Graph
<1>2. n \in Nat /\ Paths = 1 .. n
  BY PathsAssumption, FS_CardinalityType
<1>3. /\ symbols \in [1 .. n -> Seq(Documents)] /\ sites \in [1 .. n -> Seq(Edges)]
      /\ \A q \in 1 .. n : /\ \A i \in DOMAIN symbols[q] : symbols[q][i].path = q
                          /\ \A i \in DOMAIN sites[q] : sites[q][i].path = q
  <2>1. \A q \in 1 .. n : /\ symbols[q] \in Seq(Documents) /\ \A i \in DOMAIN symbols[q] : symbols[q][i].path = q
                         /\ sites[q] \in Seq(Edges) /\ \A i \in DOMAIN sites[q] : sites[q][i].path = q
    BY <1>2, SymbolsAreOfThePath
  <2> QED
    BY <2>1
<1>4. \A p \in 1 .. n : symbols[p] = Symbols(p, tree[p], tree[p]) /\ sites[p] = Sites(p, tree[p])
  OBVIOUS
<1> HIDE DEF n, symbols, sites
<1>5. Concat(symbols) \in Seq(Documents) /\ Concat(sites) \in Seq(Edges)
  <2>1. n \in Nat /\ symbols \in [1 .. n -> Seq(Documents)] /\ sites \in [1 .. n -> Seq(Edges)]
    BY <1>2, <1>3
  <2>2. Concat(symbols) \in Seq(Documents)
    <3>1. PICK to \in [0 .. n -> Seq(Documents)] : ConcatIs(to, symbols, n) /\ Concat(symbols) = to[n]
      BY ONLY <2>1, ConcatSteps
    <3> QED
      BY <2>1, <3>1
  <2>3. Concat(sites) \in Seq(Edges)
    <3>1. PICK to \in [0 .. n -> Seq(Edges)] : ConcatIs(to, sites, n) /\ Concat(sites) = to[n]
      BY ONLY <2>1, ConcatSteps
    <3> QED
      BY <2>1, <3>1
  <2> QED
    BY <2>2, <2>3
<1>6. ASSUME NEW p \in Paths, NEW x, x.path = p
      PROVE  /\ Count(Concat(symbols), {x}) = Count(symbols[p], {x})
             /\ Count(Concat(sites), {x}) = Count(sites[p], {x})
  <2>1. \A q \in 1 .. n : q # p => /\ \A i \in DOMAIN symbols[q] : symbols[q][i] \notin {x}
                                  /\ \A i \in DOMAIN sites[q] : sites[q][i] \notin {x}
    BY <1>3, <1>6
  <2>2. \A q \in 1 .. n : q # p => Count(symbols[q], {x}) = 0 /\ Count(sites[q], {x}) = 0
    BY <2>1, CountOfNone
  <2>3. p \in 1 .. n
    BY <1>2
  <2>4. Count(Concat(symbols), {x}) = Count(symbols[p], {x})
    <3>1. IsAlone(p, Documents, n, symbols, {x})
      BY <1>2, <1>3, <2>2, <2>3 DEF IsAlone
    <3> QED
      BY ONLY <3>1, CountOfConcat
  <2>5. Count(Concat(sites), {x}) = Count(sites[p], {x})
    <3>1. IsAlone(p, Edges, n, sites, {x})
      BY <1>2, <1>3, <2>2, <2>3 DEF IsAlone
    <3> QED
      BY ONLY <3>1, CountOfConcat
  <2> QED
    BY <2>4, <2>5
<1>7. \A p \in Paths : \A x : x.path = p =>
        /\ Count(Concat(symbols), {x}) = Count(Symbols(p, tree[p], tree[p]), {x})
        /\ Count(Concat(sites), {x}) = Count(Sites(p, tree[p]), {x})
  BY <1>2, <1>4, <1>6
<1> QED
  BY <1>1, <1>5, <1>7 DEF IsShownOf

(* The edges of a relation count what they counted among all edges.        *)
LEMMA RelatedAreCounted ==
  ASSUME NEW A, NEW seq \in Seq(A), NEW relation, NEW x
  PROVE  /\ Related(seq, relation) \in Seq(A)
         /\ Count(Related(seq, relation), {x}) = IF x.relation = relation THEN Count(seq, {x}) ELSE 0
<1> DEFINE S == {e \in Elements(seq) : e.relation = relation}
<1>1. Related(seq, relation) = Only(seq, S)
  BY DEF Related
<1>2. \A i \in DOMAIN seq : seq[i] \in S \cap {x} <=> seq[i] = x /\ x.relation = relation
  BY DEF Elements
<1> HIDE DEF S
<1>3. Only(seq, S) \in Seq(A) /\ Count(Only(seq, S), {x}) = Count(seq, S \cap {x})
  BY CountOfOnly
<1>4. CASE x.relation = relation
  <2>1. Count(seq, S \cap {x}) = Count(seq, {x})
    BY <1>2, <1>4, CountOfAlike
  <2> QED
    BY <1>1, <1>3, <1>4, <2>1
<1>5. CASE x.relation # relation
  <2>1. \A i \in DOMAIN seq : seq[i] \notin S \cap {x}
    BY <1>2, <1>5
  <2>2. Count(seq, S \cap {x}) = 0
    BY <2>1, CountOfNone
  <2> QED
    BY <1>1, <1>3, <1>5, <2>2
<1> QED
  BY <1>4, <1>5

(* The upserts of a path that count are those of the text it now holds.    *)
LEMMA UpsertsAreCurrent ==
  ASSUME NEW o \in Overlays, NEW kind \in Upserted, NEW p \in Paths, NEW I
  PROVE  /\ Upserts(o, kind) \in Seq(Records)
         /\ Count(Upserts(o, kind), {r \in Records : r.path = p /\ r.item \in I}) =
              IF o.changes[p] # Absent /\ o.changes[p].active
              THEN Count(o.records, Holding(kind, p, o.changes[p].current, I)) ELSE 0
<1> DEFINE S == {r \in Elements(o.records) : r.kind = kind /\ IsCurrent(o, r)}
           T == {r \in Records : r.path = p /\ r.item \in I}
<1>1. o.records \in Seq(Records) /\ \A i \in DOMAIN o.records : o.records[i] \in Records
  <2>1. o.records \in Seq(Records)
    BY DEF Overlays
  <2> QED
    BY <2>1
<1>2. Upserts(o, kind) = Only(o.records, S)
  BY DEF Upserts
<1>3. \A i \in DOMAIN o.records : o.records[i] \in S \cap T <=>
        /\ o.records[i].kind = kind /\ o.records[i].path = p /\ o.records[i].item \in I
        /\ o.changes[p] # Absent /\ o.changes[p].active /\ o.changes[p].current = o.records[i].hash
  BY <1>1 DEF Elements, IsCurrent, IsShadowed
<1> HIDE DEF S
<1>4. Only(o.records, S) \in Seq(Records) /\ Count(Only(o.records, S), T) = Count(o.records, S \cap T)
  BY <1>1, CountOfOnly
<1> HIDE DEF T
<1>5. CASE o.changes[p] # Absent /\ o.changes[p].active
  <2>1. \A i \in DOMAIN o.records :
          o.records[i] \in S \cap T <=> o.records[i] \in Holding(kind, p, o.changes[p].current, I)
    BY <1>1, <1>3, <1>5 DEF Holding
  <2>2. Count(o.records, S \cap T) = Count(o.records, Holding(kind, p, o.changes[p].current, I))
    BY <2>1, CountOfAlike
  <2> QED
    BY <1>2, <1>4, <1>5, <2>2 DEF T
<1>6. CASE ~(o.changes[p] # Absent /\ o.changes[p].active)
  <2>1. \A i \in DOMAIN o.records : o.records[i] \notin S \cap T
    BY <1>3, <1>6
  <2>2. Count(o.records, S \cap T) = 0
    BY <2>1, CountOfNone
  <2> QED
    BY <1>2, <1>4, <1>6, <2>2 DEF T
<1> QED
  BY <1>5, <1>6

(* A view is made of the unchanged and of what the upserts give, where x   *)
(* is what those of path p with an item in I give.  It shows of a path     *)
(* what the graph has if the overlay left it alone, else the upserts.      *)
IsMade(A, o, kind, seq, fresh, p, x, I) ==
  /\ o \in Overlays /\ kind \in Upserted /\ seq \in Seq(A) /\ fresh \in Seq(A)
  /\ p \in Paths /\ x.path = p
  /\ DOMAIN fresh = DOMAIN Upserts(o, kind)
  /\ \A i \in DOMAIN fresh : fresh[i] = x <=> Upserts(o, kind)[i].path = p /\ Upserts(o, kind)[i].item \in I

(* Then the view counts the graph's or the records'.                       *)
LEMMA ViewShowsTheChange ==
  ASSUME NEW A, NEW o, NEW kind, NEW seq, NEW fresh, NEW p, NEW x, NEW I, IsMade(A, o, kind, seq, fresh, p, x, I)
  PROVE  /\ Unchanged(o, seq) \o fresh \in Seq(A)
         /\ Count(Unchanged(o, seq) \o fresh, {x}) =
              IF o.changes[p] = Absent THEN Count(seq, {x})
              ELSE IF o.changes[p].active THEN Count(o.records, Holding(kind, p, o.changes[p].current, I)) ELSE 0
<1> DEFINE S == {y \in Elements(seq) : ~IsShadowed(o, y.path)}
           kept == Unchanged(o, seq)
           upserts == Upserts(o, kind)
           T == {r \in Records : r.path = p /\ r.item \in I}
<1>0. /\ o \in Overlays /\ kind \in Upserted /\ seq \in Seq(A) /\ fresh \in Seq(A)
      /\ p \in Paths /\ x.path = p /\ DOMAIN fresh = DOMAIN upserts
      /\ \A i \in DOMAIN fresh : fresh[i] = x <=> upserts[i].path = p /\ upserts[i].item \in I
  BY DEF IsMade
<1> USE <1>0
<1>1. kept = Only(seq, S)
  BY DEF Unchanged
<1>2. \A i \in DOMAIN seq : seq[i] \in S \cap {x} <=> seq[i] = x /\ o.changes[p] = Absent
  BY DEF Elements, IsShadowed
<1> HIDE DEF S, kept
<1>3. kept \in Seq(A) /\ Count(kept, {x}) = Count(seq, S \cap {x})
  BY ONLY <1>0, <1>1, CountOfOnly
<1>4. Count(kept, {x}) = IF o.changes[p] = Absent THEN Count(seq, {x}) ELSE 0
  <2>1. CASE o.changes[p] = Absent
    <3>1. Count(seq, S \cap {x}) = Count(seq, {x})
      BY <1>2, <2>1, CountOfAlike
    <3> QED
      BY <1>3, <2>1, <3>1
  <2>2. CASE o.changes[p] # Absent
    <3>1. \A i \in DOMAIN seq : seq[i] \notin S \cap {x}
      BY <1>2, <2>2
    <3>2. Count(seq, S \cap {x}) = 0
      BY <3>1, CountOfNone
    <3> QED
      BY <1>3, <2>2, <3>2
  <2> QED
    BY <2>1, <2>2
<1>5. /\ upserts \in Seq(Records)
      /\ Count(upserts, T) = IF o.changes[p] # Absent /\ o.changes[p].active
                             THEN Count(o.records, Holding(kind, p, o.changes[p].current, I)) ELSE 0
  BY UpsertsAreCurrent
<1>6. Count(fresh, {x}) = Count(upserts, T)
  <2>1. \A i \in DOMAIN fresh : fresh[i] \in {x} <=> upserts[i] \in T
    <3> HIDE DEF upserts
    <3>1. \A i \in DOMAIN fresh : upserts[i] \in Records
      BY <1>5 DEF upserts
    <3> QED
      BY <3>1 DEF upserts
  <2> HIDE DEF T
  <2> QED
    BY <2>1, CountOfAlike
<1>7. kept \o fresh \in Seq(A) /\ Count(kept \o fresh, {x}) = Count(kept, {x}) + Count(fresh, {x})
  BY <1>3, CountJoined
<1>8. Count(seq, {x}) \in Nat /\ Count(fresh, {x}) \in Nat
  BY CountIsNumber
<1> HIDE DEF upserts, T
<1> QED
  BY <1>4, <1>5, <1>6, <1>7, <1>8 DEF kept

-----------------------------------------------------------------------------
(* The invariant.  A path without a change holds what the graph was built  *)
(* of; a changed one holds the text of its change, and the overlay has the *)
(* finds of a text once for every time the path was brought to it.         *)

OverlayTyped ==
  /\ files \in [Paths -> Stored]
  /\ overlay \in Overlays
  /\ brought \in [Paths -> [Texts -> Nat]]
  /\ graph.generation \in Nat /\ graph.hashes \in [Paths -> Stored]
  /\ graph = Graph(graph.generation, graph.hashes)

AddsUp(records, times) ==
  \A p \in Paths, t \in Texts : \A I : \A k \in Upserted :
    Count(records, Holding(k, p, t, I)) = times[p][t] * Count(Found(k, t), I)

Follows(tree, hashes, known) ==
  \A p \in Paths : IF known[p] = Absent THEN tree[p] = hashes[p]
                  ELSE /\ known[p].active <=> tree[p] # Absent
                       /\ known[p].active => known[p].current = tree[p]

OverlayInductive ==
  /\ OverlayTyped
  /\ AddsUp(overlay.records, brought)
  /\ IF CanView(graph, overlay) THEN Follows(files, graph.hashes, overlay.changes) ELSE graph.hashes = files

(* A new overlay knows no change and has been told nothing.                *)
LEMMA NewOverlayIsEmpty ==
  ASSUME NEW g \in Nat
  PROVE  /\ NewOverlay(g) \in Overlays /\ NewOverlay(g).base = g
         /\ NewOverlay(g).changes = [p \in Paths |-> Absent]
         /\ AddsUp(NewOverlay(g).records, [p \in Paths |-> [t \in Texts |-> 0]])
         /\ [p \in Paths |-> [t \in Texts |-> 0]] \in [Paths -> [Texts -> Nat]]
<1>1. NewOverlay(g) = [base |-> g, next |-> 0, changes |-> [p \in Paths |-> Absent], records |-> <<>>]
  BY DEF NewOverlay
<1>2. NewOverlay(g) \in Overlays
  BY <1>1 DEF Overlays, Changes
<1>3. ASSUME NEW p \in Paths, NEW t \in Texts, NEW I, NEW k \in Upserted
      PROVE  Count(<<>>, Holding(k, p, t, I)) = 0 * Count(Found(k, t), I)
  <2>1. Count(<<>>, Holding(k, p, t, I)) = 0
    BY CountOfNone
  <2>2. Found(k, t) \in Seq(Items)
    BY FoundIsTyped DEF Found
  <2>3. Count(Found(k, t), I) \in Nat
    BY <2>2, CountIsNumber
  <2> QED
    BY <2>1, <2>3
<1>4. AddsUp(NewOverlay(g).records, [p \in Paths |-> [t \in Texts |-> 0]])
  BY <1>1, <1>3 DEF AddsUp
<1> QED
  BY <1>1, <1>2, <1>4

(* A graph is of the generation and the tree it was indexed at.            *)
LEMMA GraphIsOfTheTree ==
  ASSUME NEW g, NEW tree
  PROVE  Graph(g, tree).generation = g /\ Graph(g, tree).hashes = tree
BY DEF Graph

(* To bring a path to a text adds its finds once more.                     *)
LEMMA BringingAddsUp ==
  ASSUME NEW records, NEW more, NEW times \in [Paths -> [Texts -> Nat]], AddsUp(records, times),
         NEW path \in Paths, NEW new \in Texts, Brings(more, records, path, new)
  PROVE  /\ AddsUp(more, [times EXCEPT ![path][new] = @ + 1])
         /\ [times EXCEPT ![path][new] = @ + 1] \in [Paths -> [Texts -> Nat]]
<1> DEFINE after == [times EXCEPT ![path][new] = @ + 1]
<1>1. after \in [Paths -> [Texts -> Nat]]
  OBVIOUS
<1>2. ASSUME NEW p \in Paths, NEW t \in Texts
      PROVE  after[p][t] = IF p = path /\ t = new THEN times[p][t] + 1 ELSE times[p][t]
  OBVIOUS
<1> HIDE DEF after
<1>3. ASSUME NEW p \in Paths, NEW t \in Texts, NEW I, NEW k \in Upserted
      PROVE  Count(more, Holding(k, p, t, I)) = after[p][t] * Count(Found(k, t), I)
  <2> DEFINE c == Count(Found(k, t), I)
             b == times[p][t]
  <2>1. c \in Nat /\ b \in Nat
    <3>1. Found(k, t) \in Seq(Items)
      BY FoundIsTyped DEF Found
    <3> QED
      BY <3>1, CountIsNumber
  <2>2. Count(records, Holding(k, p, t, I)) = b * c
    BY DEF AddsUp
  <2>3. Count(more, Holding(k, p, t, I)) = b * c + IF p = path /\ t = new THEN c ELSE 0
    BY <2>2 DEF Brings
  <2>4. after[p][t] = IF p = path /\ t = new THEN b + 1 ELSE b
    BY <1>2
  <2> HIDE DEF b, c
  <2>5. (b + 1) * c = b * c + c /\ b * c \in Nat
    BY <2>1
  <2>6. Count(more, Holding(k, p, t, I)) = after[p][t] * c
    BY <2>3, <2>4, <2>5
  <2> QED
    BY <2>6 DEF c
<1> QED
  BY <1>1, <1>3 DEF AddsUp, after

(* A first graph with a new overlay is such a state.                       *)
LEMMA OverlayInductiveInit == OverlayInit => OverlayInductive
<1> SUFFICES ASSUME OverlayInit PROVE OverlayInductive
  OBVIOUS
<1>1. Tree \in [Paths -> Stored]
  BY PathsAssumption DEF Stored
<1>2. /\ files = Tree /\ graph = Graph(1, Tree) /\ overlay = NewOverlay(1)
      /\ brought = [p \in Paths |-> [t \in Texts |-> 0]]
  BY DEF OverlayInit
<1>3. graph.generation = 1 /\ graph.hashes = Tree
  BY <1>2, GraphIsOfTheTree
<1>4. 1 \in Nat
  OBVIOUS
<1>5. /\ overlay \in Overlays /\ overlay.base = 1 /\ overlay.changes = [p \in Paths |-> Absent]
      /\ AddsUp(overlay.records, brought) /\ brought \in [Paths -> [Texts -> Nat]]
  BY <1>2, <1>4, NewOverlayIsEmpty
<1>6. OverlayTyped
  BY <1>1, <1>2, <1>3, <1>4, <1>5 DEF OverlayTyped
<1>7. Follows(files, graph.hashes, overlay.changes)
  BY <1>2, <1>3, <1>5 DEF Follows
<1> QED
  BY <1>3, <1>5, <1>6, <1>7 DEF OverlayInductive, CanView

(* And every report, publication and new overlay leads to one.             *)
LEMMA OverlayInductiveStep == OverlayInductive /\ [OverlayNext]_overlayVars => OverlayInductive'
<1> SUFFICES ASSUME OverlayInductive, [OverlayNext]_overlayVars PROVE OverlayInductive'
  OBVIOUS
<1> USE DEF Stored
<1>1. /\ files \in [Paths -> Stored] /\ overlay \in Overlays /\ brought \in [Paths -> [Texts -> Nat]]
      /\ graph.generation \in Nat /\ graph.hashes \in [Paths -> Stored]
      /\ AddsUp(overlay.records, brought)
  BY DEF OverlayInductive, OverlayTyped
<1>2. /\ overlay.base \in Nat /\ overlay.changes \in [Paths -> Changes]
  BY <1>1 DEF Overlays
<1>3. ASSUME NEW path \in Paths, NEW text \in Texts, WriteFile(path, text)
      PROVE  OverlayInductive'
  <2>1. /\ files' = [files EXCEPT ![path] = text] /\ brought' = [brought EXCEPT ![path][text] = @ + 1]
        /\ CanView(graph, overlay) /\ graph' = graph
        /\ overlay' = Apply(overlay, path, files[path], text)
    BY <1>3 DEF WriteFile, Change
  <2>2. files[path] \in Stored
    BY <1>1
  <2> DEFINE change == [active |-> TRUE, old |-> files[path], current |-> text]
  <2>3. /\ overlay' \in Overlays /\ overlay'.base = overlay.base
        /\ overlay'.changes = [overlay.changes EXCEPT ![path] = change]
        /\ Brings(overlay'.records, overlay.records, path, text)
    <3>1. IsApplied(overlay', overlay, path, files[path], text)
      BY <1>1, <2>1, <2>2, ApplyBrings
    <3> QED
      BY <3>1 DEF IsApplied
  <2>4. AddsUp(overlay'.records, brought') /\ brought' \in [Paths -> [Texts -> Nat]]
    BY <1>1, <2>1, <2>3, BringingAddsUp
  <2>5. change # Absent /\ change.active /\ change.current = text /\ text # Absent
    <3>1. change \in Written
      BY <2>2 DEF Written
    <3> QED
      BY <3>1, AbsentAssumption, PathsAssumption
  <2> HIDE DEF change
  <2>6. Follows(files', graph.hashes, overlay'.changes)
    <3>1. Follows(files, graph.hashes, overlay.changes)
      BY <2>1 DEF OverlayInductive
    <3> QED
      BY <1>1, <1>2, <2>1, <2>3, <2>5, <3>1 DEF Follows
  <2>7. files' \in [Paths -> Stored]
    BY <1>1, <2>1
  <2>8. OverlayTyped'
    BY <2>1, <2>3, <2>4, <2>7 DEF OverlayInductive, OverlayTyped
  <2> QED
    BY <2>1, <2>3, <2>4, <2>6, <2>8 DEF OverlayInductive, CanView
<1>4. ASSUME NEW path \in Paths, RemoveFile(path)
      PROVE  OverlayInductive'
  <2>1. /\ files' = [files EXCEPT ![path] = Absent] /\ brought' = brought
        /\ CanView(graph, overlay) /\ graph' = graph
        /\ overlay' = Delete(overlay, path, files[path])
    BY <1>4 DEF RemoveFile, Change
  <2>2. files[path] \in Stored
    BY <1>1
  <2> DEFINE change == [active |-> FALSE, old |-> files[path]]
  <2>3. /\ overlay' \in Overlays /\ overlay'.base = overlay.base
        /\ overlay'.changes = [overlay.changes EXCEPT ![path] = change]
        /\ \A p, t, I : \A k \in Upserted :
              Count(overlay'.records, Holding(k, p, t, I)) = Count(overlay.records, Holding(k, p, t, I))
    <3>1. IsDeleted(overlay', overlay, path, files[path])
      BY <1>1, <2>1, <2>2, DeleteForgets
    <3> QED
      BY <3>1 DEF IsDeleted
  <2>4. AddsUp(overlay'.records, brought')
    BY <1>1, <2>1, <2>3 DEF AddsUp
  <2>5. change # Absent /\ ~change.active
    <3>1. change \in Removed
      BY <2>2 DEF Removed
    <3> QED
      BY <3>1, AbsentAssumption
  <2> HIDE DEF change
  <2>6. Follows(files', graph.hashes, overlay'.changes)
    <3>1. Follows(files, graph.hashes, overlay.changes)
      BY <2>1 DEF OverlayInductive
    <3> QED
      BY <1>1, <1>2, <2>1, <2>3, <2>5, <3>1 DEF Follows
  <2>7. files' \in [Paths -> Stored]
    BY <1>1, <2>1
  <2>8. OverlayTyped'
    BY <2>1, <2>3, <2>7 DEF OverlayInductive, OverlayTyped
  <2> QED
    BY <2>1, <2>3, <2>4, <2>6, <2>8 DEF OverlayInductive, CanView
<1>5. ASSUME NEW path \in Paths, NEW to \in Paths, MoveFile(path, to)
      PROVE  OverlayInductive'
  <2> DEFINE text == files[path]
             gone == Delete(overlay, path, text)
             removed == [active |-> FALSE, old |-> text]
             written == [active |-> TRUE, old |-> text, current |-> text]
  <2>1. /\ files' = [files EXCEPT ![path] = Absent, ![to] = text] /\ brought' = [brought EXCEPT ![to][text] = @ + 1]
        /\ CanView(graph, overlay) /\ graph' = graph /\ path # to
        /\ overlay' = Apply(gone, to, text, text)
    BY <1>5 DEF MoveFile, Change, Rename
  <2>2. text \in Texts /\ text \in Stored
    BY <1>1, <1>5 DEF MoveFile
  <2> HIDE DEF text
  <2>3. /\ gone \in Overlays /\ gone.base = overlay.base
        /\ gone.changes = [overlay.changes EXCEPT ![path] = removed]
        /\ \A p, t, I : \A k \in Upserted :
              Count(gone.records, Holding(k, p, t, I)) = Count(overlay.records, Holding(k, p, t, I))
    <3>1. IsDeleted(gone, overlay, path, text)
      BY <1>1, <2>2, DeleteForgets
    <3> HIDE DEF gone
    <3> QED
      BY <3>1 DEF IsDeleted
  <2> HIDE DEF gone
  <2>4. /\ overlay' \in Overlays /\ overlay'.base = gone.base
        /\ overlay'.changes = [gone.changes EXCEPT ![to] = written]
        /\ Brings(overlay'.records, gone.records, to, text)
    <3>1. IsApplied(overlay', gone, to, text, text)
      BY <2>1, <2>2, <2>3, ApplyBrings
    <3> QED
      BY <3>1 DEF IsApplied
  <2>5. AddsUp(gone.records, brought)
    BY <1>1, <2>3 DEF AddsUp
  <2>6. AddsUp(overlay'.records, brought') /\ brought' \in [Paths -> [Texts -> Nat]]
    BY <1>1, <2>1, <2>2, <2>4, <2>5, BringingAddsUp
  <2>7. /\ removed # Absent /\ ~removed.active
        /\ written # Absent /\ written.active /\ written.current = text /\ text # Absent
    <3>1. removed \in Removed /\ written \in Written
      BY <2>2 DEF Removed, Written
    <3> QED
      BY <2>2, <3>1, AbsentAssumption, PathsAssumption
  <2> HIDE DEF removed, written
  <2>8. Follows(files', graph.hashes, overlay'.changes)
    <3>1. Follows(files, graph.hashes, overlay.changes)
      BY <2>1 DEF OverlayInductive
    <3>2. ASSUME NEW p \in Paths
          PROVE  /\ files'[p] = IF p = to THEN text ELSE IF p = path THEN Absent ELSE files[p]
                 /\ overlay'.changes[p] =
                      IF p = to THEN written ELSE IF p = path THEN removed ELSE overlay.changes[p]
      BY <1>1, <1>2, <2>1, <2>3, <2>4
    <3>3. ASSUME NEW p \in Paths
          PROVE  IF overlay'.changes[p] = Absent THEN files'[p] = graph.hashes[p]
                 ELSE /\ overlay'.changes[p].active <=> files'[p] # Absent
                      /\ overlay'.changes[p].active => overlay'.changes[p].current = files'[p]
      <4>1. CASE p = to
        BY <2>7, <3>2, <4>1
      <4>2. CASE p # to /\ p = path
        BY <2>7, <3>2, <4>2
      <4>3. CASE p # to /\ p # path
        BY <3>1, <3>2, <4>3 DEF Follows
      <4> QED
        BY <4>1, <4>2, <4>3
    <3> QED
      BY <3>3 DEF Follows
  <2>9. files' \in [Paths -> Stored]
    BY <1>1, <2>1, <2>2
  <2>10. OverlayTyped'
    BY <2>1, <2>4, <2>6, <2>9 DEF OverlayInductive, OverlayTyped
  <2> QED
    BY <2>1, <2>3, <2>4, <2>6, <2>8, <2>10 DEF OverlayInductive, CanView
<1>6. CASE Republish
  <2>1. /\ CanView(graph, overlay) /\ graph' = Graph(graph.generation + 1, files)
        /\ files' = files /\ overlay' = overlay /\ brought' = brought
    BY <1>6 DEF Republish
  <2>2. graph'.generation = graph.generation + 1 /\ graph'.hashes = files
    BY <2>1, GraphIsOfTheTree
  <2>3. ~CanView(graph, overlay)'
    BY <1>1, <2>1, <2>2 DEF CanView
  <2>4. OverlayTyped'
    BY <1>1, <2>1, <2>2 DEF OverlayTyped
  <2> QED
    BY <1>1, <2>1, <2>2, <2>3, <2>4 DEF OverlayInductive
<1>7. CASE StartOverlay
  <2>1. /\ ~CanView(graph, overlay) /\ overlay' = NewOverlay(graph.generation)
        /\ brought' = [p \in Paths |-> [t \in Texts |-> 0]]
        /\ files' = files /\ graph' = graph
    BY <1>7 DEF StartOverlay
  <2>2. /\ overlay' \in Overlays /\ overlay'.changes = [p \in Paths |-> Absent]
        /\ AddsUp(overlay'.records, brought') /\ brought' \in [Paths -> [Texts -> Nat]]
    BY <1>1, <2>1, NewOverlayIsEmpty
  <2>3. graph.hashes = files
    BY <2>1 DEF OverlayInductive
  <2>4. Follows(files, graph.hashes, overlay'.changes)
    BY <2>2, <2>3 DEF Follows
  <2>5. OverlayTyped'
    BY <1>1, <2>1, <2>2 DEF OverlayInductive, OverlayTyped
  <2> QED
    BY <2>1, <2>2, <2>3, <2>4, <2>5 DEF OverlayInductive
<1>8. CASE UNCHANGED overlayVars
  <2>1. files' = files /\ graph' = graph /\ overlay' = overlay /\ brought' = brought
    BY <1>8 DEF overlayVars
  <2> QED
    BY <2>1 DEF OverlayInductive, OverlayTyped, CanView
<1> QED
  BY <1>3, <1>4, <1>5, <1>6, <1>7, <1>8 DEF OverlayNext

-----------------------------------------------------------------------------
(* What the invariant says of the view *)

(* How often, and with which body, a view shows the finds of a path.       *)
OftenShown(p) ==
  IF overlay.changes[p] = Absent THEN 1 ELSE IF files[p] = Absent THEN 0 ELSE brought[p][files[p]]
BodyShown(p) == IF overlay.changes[p] = Absent THEN files[p] ELSE Absent

(* Where the overlay has a change of the path, what it has of its text.    *)
LEMMA ChangedIsBrought ==
  ASSUME OverlayInductive, CanView(graph, overlay), NEW p \in Paths, NEW I, NEW kind \in Upserted,
         overlay.changes[p] # Absent
  PROVE  (IF overlay.changes[p].active THEN Count(overlay.records, Holding(kind, p, overlay.changes[p].current, I))
          ELSE 0) =
         IF files[p] = Absent THEN 0 ELSE OftenShown(p) * Count(Found(kind, files[p]), I)
<1>1. Follows(files, graph.hashes, overlay.changes) /\ AddsUp(overlay.records, brought)
  BY DEF OverlayInductive
<1>2. /\ overlay.changes[p].active <=> files[p] # Absent
      /\ overlay.changes[p].active => overlay.changes[p].current = files[p]
  BY <1>1 DEF Follows
<1>3. CASE files[p] = Absent
  BY <1>2, <1>3
<1>4. CASE files[p] # Absent
  <2>1. files[p] \in Texts
    BY <1>4 DEF OverlayInductive, OverlayTyped, Stored
  <2>2. Count(overlay.records, Holding(kind, p, files[p], I)) = brought[p][files[p]] * Count(Found(kind, files[p]), I)
    BY <1>1, <2>1 DEF AddsUp
  <2> QED
    BY <1>2, <1>4, <2>2 DEF OftenShown
<1> QED
  BY <1>3, <1>4

(* A view counts the symbols of a path's text as often as it was brought.  *)
LEMMA SymbolsAreShown ==
  ASSUME OverlayInductive, CanView(graph, overlay), NEW p \in Paths, NEW x, x.path = p
  PROVE  /\ ViewDocuments(graph, overlay) \in Seq(Documents)
         /\ Symbols(p, files[p], BodyShown(p)) \in Seq(Documents)
         /\ Count(ViewDocuments(graph, overlay), {x}) =
              OftenShown(p) * Count(Symbols(p, files[p], BodyShown(p)), {x})
<1> DEFINE upserts == Upserts(overlay, "UpsertNode")
           fresh == [i \in DOMAIN upserts |-> Document(upserts[i].path, upserts[i].item, Absent)]
           I == {d \in Items : Document(p, d, Absent) = x}
           given == Symbols(p, files[p], BodyShown(p))
<1>1. /\ overlay \in Overlays /\ files \in [Paths -> Stored] /\ graph.hashes \in [Paths -> Stored]
      /\ graph = Graph(graph.generation, graph.hashes) /\ "UpsertNode" \in Upserted
      /\ Follows(files, graph.hashes, overlay.changes)
  BY DEF OverlayInductive, OverlayTyped, Upserted
<1>2. /\ graph.documents \in Seq(Documents)
      /\ Count(graph.documents, {x}) = Count(Symbols(p, graph.hashes[p], graph.hashes[p]), {x})
  <2>1. IsShownOf(graph.hashes, graph)
    BY <1>1, GraphShowsTheTree
  <2> QED
    BY <2>1 DEF IsShownOf
<1>3. /\ upserts \in Seq(Records) /\ Len(upserts) \in Nat /\ DOMAIN upserts = 1 .. Len(upserts)
      /\ \A i \in DOMAIN upserts : upserts[i].path \in Paths /\ upserts[i].item \in Items
  <2>1. upserts \in Seq(Records)
    BY <1>1, UpsertsAreCurrent
  <2> HIDE DEF upserts
  <2>2. \A i \in DOMAIN upserts : upserts[i] \in Records
    BY <2>1
  <2> QED
    BY <2>1, <2>2 DEF Records
<1>4. ViewDocuments(graph, overlay) = Unchanged(overlay, graph.documents) \o fresh
  BY DEF ViewDocuments
<1>5. /\ DOMAIN fresh = DOMAIN upserts
      /\ \A i \in DOMAIN fresh : fresh[i] = x <=> upserts[i].path = p /\ upserts[i].item \in I
  <2> HIDE DEF upserts
  <2> QED
    BY <1>3 DEF Document
<1>6. fresh \in Seq(Documents)
  <2> HIDE DEF upserts
  <2>1. \A i \in DOMAIN upserts : Document(upserts[i].path, upserts[i].item, Absent) \in Documents
    <3>1. Absent \in Stored
      BY DEF Stored
    <3>2. \A q \in Paths, d \in Items : Document(q, d, Absent) \in Documents
      BY <3>1 DEF Documents
    <3> QED
      BY <1>3, <3>2
  <2> QED
    BY <1>3, <2>1
<1> HIDE DEF fresh, I
<1>7. /\ Unchanged(overlay, graph.documents) \o fresh \in Seq(Documents)
      /\ Count(Unchanged(overlay, graph.documents) \o fresh, {x}) =
           IF overlay.changes[p] = Absent THEN Count(graph.documents, {x})
           ELSE IF overlay.changes[p].active
                THEN Count(overlay.records, Holding("UpsertNode", p, overlay.changes[p].current, I)) ELSE 0
  <2>1. IsMade(Documents, overlay, "UpsertNode", graph.documents, fresh, p, x, I)
    BY <1>1, <1>2, <1>5, <1>6 DEF IsMade
  <2> QED
    BY ONLY <2>1, ViewShowsTheChange
<1>8. given \in Seq(Documents)
  <2>1. files[p] \in Stored /\ BodyShown(p) \in Stored
    BY <1>1 DEF BodyShown, Stored
  <2> QED
    BY <2>1, SymbolsAreOfThePath
<1>9. Count(given, {x}) \in Nat
  BY <1>8, CountIsNumber
<1>10. CASE overlay.changes[p] = Absent
  <2>1. graph.hashes[p] = files[p]
    BY <1>1, <1>10 DEF Follows
  <2>2. Count(graph.documents, {x}) = Count(given, {x})
    BY <1>2, <1>10, <2>1 DEF BodyShown
  <2>3. OftenShown(p) = 1
    BY <1>10 DEF OftenShown
  <2> HIDE DEF given
  <2>4. Count(ViewDocuments(graph, overlay), {x}) = OftenShown(p) * Count(given, {x})
    BY <1>4, <1>7, <1>9, <1>10, <2>2, <2>3
  <2> QED
    BY <1>4, <1>7, <1>8, <2>4 DEF given
<1>11. CASE overlay.changes[p] # Absent
  <2>1. Count(ViewDocuments(graph, overlay), {x}) =
          IF files[p] = Absent THEN 0 ELSE OftenShown(p) * Count(Found("UpsertNode", files[p]), I)
    BY <1>1, <1>4, <1>7, <1>11, ChangedIsBrought
  <2>2. CASE files[p] = Absent
    <3>1. OftenShown(p) = 0
      BY <1>11, <2>2 DEF OftenShown
    <3> HIDE DEF given
    <3>2. Count(ViewDocuments(graph, overlay), {x}) = OftenShown(p) * Count(given, {x})
      BY <1>9, <2>1, <2>2, <3>1
    <3> QED
      BY <1>4, <1>7, <1>8, <3>2 DEF given
  <2>3. CASE files[p] # Absent
    <3>1. files[p] \in Texts /\ BodyShown(p) = Absent
      BY <1>1, <1>11, <2>3 DEF Stored, BodyShown
    <3>2. \A i \in DOMAIN Declares[files[p]] : Declares[files[p]][i] \in Items
      BY <3>1, FoundIsTyped
    <3>3. /\ DOMAIN given = DOMAIN Declares[files[p]]
          /\ \A i \in DOMAIN given : given[i] \in {x} <=> Declares[files[p]][i] \in I
      BY <2>3, <3>1, <3>2 DEF Symbols, I
    <3> HIDE DEF given
    <3>4. Count(given, {x}) = Count(Declares[files[p]], I)
      BY <3>3, CountOfAlike
    <3>5. Count(ViewDocuments(graph, overlay), {x}) = OftenShown(p) * Count(given, {x})
      BY <2>1, <2>3, <3>4 DEF Found
    <3> QED
      BY <1>4, <1>7, <1>8, <3>5 DEF given
  <2> QED
    BY <2>2, <2>3
<1> QED
  BY <1>10, <1>11

(* And its edges, of all relations.                                        *)
LEMMA SitesAreShown ==
  ASSUME OverlayInductive, CanView(graph, overlay), NEW p \in Paths, NEW x, x.path = p
  PROVE  LET upserts == Upserts(overlay, "UpsertEdge")
             view == Unchanged(overlay, graph.edges) \o
                     [i \in DOMAIN upserts |-> EdgeOf(upserts[i].path, upserts[i].item)]
         IN  /\ view \in Seq(Edges) /\ Sites(p, files[p]) \in Seq(Edges)
             /\ Count(view, {x}) = OftenShown(p) * Count(Sites(p, files[p]), {x})
<1> DEFINE upserts == Upserts(overlay, "UpsertEdge")
           fresh == [i \in DOMAIN upserts |-> EdgeOf(upserts[i].path, upserts[i].item)]
           view == Unchanged(overlay, graph.edges) \o fresh
           I == {e \in Items : EdgeOf(p, e) = x}
           given == Sites(p, files[p])
<1>1. /\ overlay \in Overlays /\ files \in [Paths -> Stored] /\ graph.hashes \in [Paths -> Stored]
      /\ graph = Graph(graph.generation, graph.hashes) /\ "UpsertEdge" \in Upserted
      /\ Follows(files, graph.hashes, overlay.changes)
  BY DEF OverlayInductive, OverlayTyped, Upserted
<1>2. /\ graph.edges \in Seq(Edges)
      /\ Count(graph.edges, {x}) = Count(Sites(p, graph.hashes[p]), {x})
  <2>1. IsShownOf(graph.hashes, graph)
    BY <1>1, GraphShowsTheTree
  <2> QED
    BY <2>1 DEF IsShownOf
<1>3. /\ upserts \in Seq(Records) /\ Len(upserts) \in Nat /\ DOMAIN upserts = 1 .. Len(upserts)
      /\ \A i \in DOMAIN upserts : upserts[i].path \in Paths /\ upserts[i].item \in Items
  <2>1. upserts \in Seq(Records)
    BY <1>1, UpsertsAreCurrent
  <2> HIDE DEF upserts
  <2>2. \A i \in DOMAIN upserts : upserts[i] \in Records
    BY <2>1
  <2> QED
    BY <2>1, <2>2 DEF Records
<1>4. view = Unchanged(overlay, graph.edges) \o fresh
  BY DEF view
<1>5. /\ DOMAIN fresh = DOMAIN upserts
      /\ \A i \in DOMAIN fresh : fresh[i] = x <=> upserts[i].path = p /\ upserts[i].item \in I
  <2> HIDE DEF upserts
  <2> QED
    BY <1>3 DEF EdgeOf
<1>6. fresh \in Seq(Edges)
  <2> HIDE DEF upserts
  <2>1. \A i \in DOMAIN upserts : EdgeOf(upserts[i].path, upserts[i].item) \in Edges
    <3>2. \A q \in Paths, e \in Items : EdgeOf(q, e) \in Edges
      BY DEF Edges
    <3> QED
      BY <1>3, <3>2
  <2> QED
    BY <1>3, <2>1
<1> HIDE DEF fresh, I, view
<1>7. /\ Unchanged(overlay, graph.edges) \o fresh \in Seq(Edges)
      /\ Count(Unchanged(overlay, graph.edges) \o fresh, {x}) =
           IF overlay.changes[p] = Absent THEN Count(graph.edges, {x})
           ELSE IF overlay.changes[p].active
                THEN Count(overlay.records, Holding("UpsertEdge", p, overlay.changes[p].current, I)) ELSE 0
  <2>1. IsMade(Edges, overlay, "UpsertEdge", graph.edges, fresh, p, x, I)
    BY <1>1, <1>2, <1>5, <1>6 DEF IsMade
  <2> QED
    BY ONLY <2>1, ViewShowsTheChange
<1>8. given \in Seq(Edges)
  <2>1. files[p] \in Stored /\ Absent \in Stored
    BY <1>1 DEF Stored
  <2> QED
    BY <2>1, SymbolsAreOfThePath
<1>9. Count(given, {x}) \in Nat
  BY <1>8, CountIsNumber
<1>10. ASSUME overlay.changes[p] = Absent
       PROVE  Count(view, {x}) = OftenShown(p) * Count(given, {x})
  <2>1. graph.hashes[p] = files[p]
    BY <1>1, <1>10 DEF Follows
  <2>2. Count(graph.edges, {x}) = Count(given, {x})
    BY <1>2, <2>1
  <2>3. OftenShown(p) = 1
    BY <1>10 DEF OftenShown
  <2> HIDE DEF given
  <2>4. Count(view, {x}) = OftenShown(p) * Count(given, {x})
    BY <1>4, <1>7, <1>9, <1>10, <2>2, <2>3
  <2> QED
    BY <1>4, <1>7, <1>8, <2>4 DEF given
<1>11. ASSUME overlay.changes[p] # Absent
       PROVE  Count(view, {x}) = OftenShown(p) * Count(given, {x})
  <2>1. Count(view, {x}) =
          IF files[p] = Absent THEN 0 ELSE OftenShown(p) * Count(Found("UpsertEdge", files[p]), I)
    BY <1>1, <1>4, <1>7, <1>11, ChangedIsBrought
  <2>2. CASE files[p] = Absent
    <3>1. OftenShown(p) = 0
      BY <1>11, <2>2 DEF OftenShown
    <3> HIDE DEF given
    <3>2. Count(view, {x}) = OftenShown(p) * Count(given, {x})
      BY <1>9, <2>1, <2>2, <3>1
    <3> QED
      BY <1>4, <1>7, <1>8, <3>2 DEF given
  <2>3. CASE files[p] # Absent
    <3>1. files[p] \in Texts
      BY <1>1, <1>11, <2>3 DEF Stored
    <3>2. \A i \in DOMAIN Relates[files[p]] : Relates[files[p]][i] \in Items
      BY <3>1, FoundIsTyped
    <3>3. /\ DOMAIN given = DOMAIN Relates[files[p]]
          /\ \A i \in DOMAIN given : given[i] \in {x} <=> Relates[files[p]][i] \in I
      BY <2>3, <3>1, <3>2 DEF Sites, I
    <3> HIDE DEF given
    <3>4. Count(given, {x}) = Count(Relates[files[p]], I)
      BY <3>3, CountOfAlike
    <3>5. Count(view, {x}) = OftenShown(p) * Count(given, {x})
      BY <2>1, <2>3, <3>4 DEF Found
    <3> QED
      BY <1>4, <1>7, <1>8, <3>5 DEF given
  <2> QED
    BY <2>2, <2>3
<1> HIDE DEF given
<1>12. Count(view, {x}) = OftenShown(p) * Count(given, {x})
  BY <1>10, <1>11
<1> QED
  BY <1>4, <1>7, <1>8, <1>12 DEF view, fresh, given

(* Both show the same of a path if they count the same, times over.        *)
LEMMA ShownAsOften ==
  ASSUME NEW A, NEW seq \in Seq(A), NEW given \in Seq(A), NEW x, NEW n,
         Count(seq, {x}) = n * Count(given, {x})
  PROVE  Times(seq, x) = n * Times(given, x)
<1>1. Times(seq, x) = Count(seq, {x}) /\ Times(given, x) = Count(given, {x})
  BY CountOfElement
<1> QED
  BY <1>1

(* So for the symbols, as the property says it.                            *)
LEMMA SymbolsAreTheLatest ==
  ASSUME OverlayInductive, CanView(graph, overlay), NEW p \in Paths, NEW x, x.path = p
  PROVE  Times(ViewDocuments(graph, overlay), x) = OftenShown(p) * Times(Symbols(p, files[p], BodyShown(p)), x)
<1>1. /\ ViewDocuments(graph, overlay) \in Seq(Documents) /\ Symbols(p, files[p], BodyShown(p)) \in Seq(Documents)
      /\ Count(ViewDocuments(graph, overlay), {x}) = OftenShown(p) * Count(Symbols(p, files[p], BodyShown(p)), {x})
  BY SymbolsAreShown
<1> QED
  BY ONLY <1>1, ShownAsOften

(* And for the edges of one relation.                                      *)
LEMMA EdgesAreTheLatest ==
  ASSUME OverlayInductive, CanView(graph, overlay), NEW p \in Paths, NEW x, x.path = p, NEW relation
  PROVE  Times(ViewEdges(graph, overlay, relation), x) = OftenShown(p) * Times(Related(Sites(p, files[p]), relation), x)
<1> DEFINE upserts == Upserts(overlay, "UpsertEdge")
           view == Unchanged(overlay, graph.edges) \o
                   [i \in DOMAIN upserts |-> EdgeOf(upserts[i].path, upserts[i].item)]
           given == Sites(p, files[p])
           n == OftenShown(p)
<1>1. view \in Seq(Edges) /\ given \in Seq(Edges) /\ Count(view, {x}) = n * Count(given, {x})
  BY SitesAreShown
<1>2. ViewEdges(graph, overlay, relation) = Related(view, relation)
  BY DEF ViewEdges
<1>3. n \in Nat
  BY DEF OftenShown, OverlayInductive, OverlayTyped, Stored
<1> HIDE DEF view, given, n
<1>4. /\ Related(view, relation) \in Seq(Edges)
      /\ Count(Related(view, relation), {x}) = IF x.relation = relation THEN Count(view, {x}) ELSE 0
  BY <1>1, RelatedAreCounted
<1>5. /\ Related(given, relation) \in Seq(Edges)
      /\ Count(Related(given, relation), {x}) = IF x.relation = relation THEN Count(given, {x}) ELSE 0
  BY <1>1, RelatedAreCounted
<1>6. Count(Related(view, relation), {x}) = n * Count(Related(given, relation), {x})
  BY <1>1, <1>3, <1>4, <1>5
<1>7. Times(Related(view, relation), x) = n * Times(Related(given, relation), x)
  BY ONLY <1>4, <1>5, <1>6, ShownAsOften
<1> QED
  BY <1>2, <1>7 DEF given, n

(* A file is fresh at the text it holds.                                   *)
LEMMA OnlyTheLatestIsFresh ==
  ASSUME OverlayInductive, CanView(graph, overlay), NEW p \in Paths, NEW u \in Texts,
         overlay.changes[p] # Absent \/ graph.hashes[p] # Absent
  PROVE  ViewFresh(graph, overlay, p, u) = "fresh" <=> u = files[p]
<1>1. /\ Follows(files, graph.hashes, overlay.changes) /\ files[p] \in Stored
  BY DEF OverlayInductive, OverlayTyped
<1>2. u # Absent
  BY PathsAssumption
<1>3. CASE overlay.changes[p] = Absent
  BY <1>1, <1>2, <1>3 DEF Follows, ViewFresh, IsShadowed
<1>4. CASE overlay.changes[p] # Absent
  <2>1. /\ overlay.changes[p].active <=> files[p] # Absent
        /\ overlay.changes[p].active => overlay.changes[p].current = files[p]
    BY <1>1, <1>4 DEF Follows
  <2> QED
    BY <1>2, <1>4, <2>1 DEF ViewFresh, AssertFresh, IsShadowed
<1> QED
  BY <1>3, <1>4

(* The arcs join what is shown.                                            *)
LEMMA ArcsJoinTheShown ==
  ASSUME OverlayInductive, NEW a \in DefinitiveArcs(graph, overlay)
  PROVE  {a.source, a.target} \subseteq {d.id : d \in Elements(ViewDocuments(graph, overlay))}
<1> DEFINE upserts == Upserts(overlay, "UpsertNode")
           fresh == [i \in DOMAIN upserts |-> Document(upserts[i].path, upserts[i].item, Absent)]
           docs == graph.documents
           kept == Unchanged(overlay, docs)
           visible == {d \in {docs[i] : i \in DOMAIN docs} : ~IsShadowed(overlay, d.path)}
<1>1. docs \in Seq(Documents)
  <2>1. graph.hashes \in [Paths -> Stored] /\ graph = Graph(graph.generation, graph.hashes)
    BY DEF OverlayInductive, OverlayTyped
  <2>2. IsShownOf(graph.hashes, graph)
    BY <2>1, GraphShowsTheTree
  <2> QED
    BY <2>2 DEF IsShownOf
<1>2. {a.source, a.target} \subseteq {d.id : d \in visible}
  BY DEF DefinitiveArcs
<1> HIDE DEF docs
<1>3. ASSUME NEW d \in visible
      PROVE  d \in Elements(ViewDocuments(graph, overlay))
  <2> DEFINE S == {y \in Elements(docs) : ~IsShadowed(overlay, y.path)}
  <2>1. d \in Elements(docs) /\ d \in S
    BY DEF Elements
  <2>2. kept = Only(docs, S)
    BY DEF Unchanged
  <2>3. \A i \in DOMAIN docs : docs[i] \in S \cap {d} <=> docs[i] \in {d}
    BY <2>1
  <2> HIDE DEF S
  <2>4. kept \in Seq(Documents) /\ Count(kept, {d}) = Count(docs, S \cap {d})
    BY <1>1, <2>2, CountOfOnly
  <2>5. Count(docs, S \cap {d}) = Count(docs, {d})
    BY <2>3, CountOfAlike
  <2>6. Count(docs, {d}) # 0
    BY <1>1, <2>1, CountOfElement
  <2> HIDE DEF kept
  <2>7. d \in Elements(kept)
    BY <2>4, <2>5, <2>6, CountOfElement
  <2>8. PICK i \in DOMAIN kept : kept[i] = d
    BY <2>7 DEF Elements
  <2>9. fresh \in Seq(Documents)
    <3>1. overlay \in Overlays /\ "UpsertNode" \in Upserted
      BY DEF OverlayInductive, OverlayTyped, Upserted
    <3>2. upserts \in Seq(Records)
      <4>1. d \in Documents
        BY <1>1, <2>1 DEF Elements
      <4>2. PICK p \in Paths : TRUE
        BY <4>1 DEF Documents
      <4> QED
        BY <3>1, <4>2, UpsertsAreCurrent
    <3> HIDE DEF upserts
    <3>3. \A j \in DOMAIN upserts : upserts[j] \in Records
      BY <3>2
    <3>4. \A j \in DOMAIN upserts : upserts[j].path \in Paths /\ upserts[j].item \in Items
      BY <3>3 DEF Records
    <3>5. \A q \in Paths, e \in Items : Document(q, e, Absent) \in Documents
      <4>1. Absent \in Stored
        BY DEF Stored
      <4> QED
        BY <4>1 DEF Documents
    <3>6. \A j \in DOMAIN upserts : Document(upserts[j].path, upserts[j].item, Absent) \in Documents
      BY <3>4, <3>5
    <3> QED
      BY <3>2, <3>6
  <2>10. ViewDocuments(graph, overlay) = kept \o fresh
    BY DEF ViewDocuments, kept, docs
  <2> HIDE DEF fresh
  <2>11. i \in DOMAIN (kept \o fresh) /\ (kept \o fresh)[i] = d
    BY <2>4, <2>8, <2>9
  <2> QED
    BY <2>10, <2>11 DEF Elements
<1> HIDE DEF visible
<1> QED
  BY <1>2, <1>3

(* In a state of the invariant the view is what the property says.         *)
LEMMA LatestIsShown == OverlayInductive => OverlayShowsTheLatest
<1> SUFFICES ASSUME OverlayInductive, CanView(graph, overlay) PROVE OverlayShowsTheLatest
  BY DEF OverlayShowsTheLatest
<1> DEFINE IsKept(p) == overlay.changes[p] = Absent
           Often(p) == IF IsKept(p) THEN 1 ELSE IF files[p] = Absent THEN 0 ELSE brought[p][files[p]]
           Body(p) == IF IsKept(p) THEN files[p] ELSE Absent
           Shows(p, seq, given) ==
             \A x \in {y \in Elements(seq) \cup Elements(given) : y.path = p} :
               Times(seq, x) = Often(p) * Times(given, x)
<1>1. ASSUME NEW p \in Paths
      PROVE  Shows(p, ViewDocuments(graph, overlay), Symbols(p, files[p], Body(p)))
  <2>1. Often(p) = OftenShown(p) /\ Body(p) = BodyShown(p)
    BY DEF OftenShown, BodyShown
  <2>2. \A x : x.path = p => Times(ViewDocuments(graph, overlay), x) =
                            OftenShown(p) * Times(Symbols(p, files[p], BodyShown(p)), x)
    BY SymbolsAreTheLatest
  <2> HIDE DEF Often, Body
  <2> QED
    BY <2>1, <2>2
<1>2. ASSUME NEW p \in Paths, NEW relation \in Relations
      PROVE  Shows(p, ViewEdges(graph, overlay, relation), Related(Sites(p, files[p]), relation))
  <2>1. Often(p) = OftenShown(p)
    BY DEF OftenShown
  <2>2. \A x : x.path = p => Times(ViewEdges(graph, overlay, relation), x) =
                            OftenShown(p) * Times(Related(Sites(p, files[p]), relation), x)
    BY EdgesAreTheLatest
  <2> HIDE DEF Often
  <2> QED
    BY <2>1, <2>2
<1>3. ASSUME NEW p \in Paths, ~IsKept(p) \/ graph.hashes[p] # Absent
      PROVE  \A u \in Texts : ViewFresh(graph, overlay, p, u) = "fresh" <=> u = files[p]
  BY <1>3, OnlyTheLatestIsFresh
<1>4. \A a \in DefinitiveArcs(graph, overlay) :
        {a.source, a.target} \subseteq {d.id : d \in Elements(ViewDocuments(graph, overlay))}
  BY ArcsJoinTheShown
<1> HIDE DEF Shows
<1> QED
  BY <1>1, <1>2, <1>3, <1>4 DEF OverlayShowsTheLatest, Shows

(* However files are written, deleted, moved and moved back, and graphs    *)
(* published in between, a view that opens shows of every file what its    *)
(* text has and as often as the overlay was told of it, its arcs join what *)
(* is shown, and the file is fresh at its text alone: delta.rs records by  *)
(* the text they are of, so a record of a text left and come back to       *)
(* counts again.                                                           *)
THEOREM OverlayStaysTheLatest == OverlaySpec => []OverlayShowsTheLatest
<1>1. OverlaySpec => []OverlayInductive
  BY OverlayInductiveInit, OverlayInductiveStep, PTL DEF OverlaySpec
<1> QED
  BY <1>1, LatestIsShown, PTL

(* A step of orient and expand is one of the overlay or leaves the overlay *)
(* as it is: a runtime that answers tasks shows the latest as well.        *)
THEOREM OrientKeepsTheOverlay == OrientSpec => OverlaySpec /\ []OverlayShowsTheLatest
<1>1. OrientInit => OverlayInit
  BY DEF OrientInit
<1>2. [OrientNext]_orientVars => [OverlayNext]_overlayVars
  <2>1. CASE OverlayNext /\ prepared = Absent /\ UNCHANGED <<stored, session>>
    BY <2>1
  <2>2. CASE Untouched /\ SessionNext
    BY <2>2 DEF Untouched
  <2>3. CASE UNCHANGED orientVars
    BY <2>3 DEF orientVars
  <2> QED
    BY <2>1, <2>2, <2>3 DEF OrientNext
<1>3. OrientSpec => OverlaySpec
  BY <1>1, <1>2, PTL DEF OrientSpec, OverlaySpec
<1> QED
  BY <1>3, OverlayStaysTheLatest, PTL

-----------------------------------------------------------------------------
(* What retrieval finds *)

(* Documents as retrieval takes them: each with an id of its own.          *)
AreDocuments(documents) ==
  /\ documents \in Seq(ToSet(documents))
  /\ \A d \in ToSet(documents) : d.id \in Nat /\ d.path \in Nat /\ d.span \in Nat /\ IsFiniteSet(WordsOf[d.name])
  /\ \A d, e \in ToSet(documents) : d.id = e.id => d = e

AllHits == [id : Nat, score : Nat]

(* A sequence has finitely many elements.                                  *)
LEMMA ElementsAreFinite ==
  ASSUME NEW A, NEW seq \in Seq(A)
  PROVE  IsFiniteSet(ToSet(seq)) /\ ToSet(seq) \subseteq A
<1>1. IsFiniteSet(DOMAIN seq)
  <2>1. DOMAIN seq = 1 .. Len(seq) /\ Len(seq) \in Nat
    OBVIOUS
  <2> QED
    BY <2>1, FS_Interval
<1>2. IsFiniteSet({seq[i] : i \in DOMAIN seq})
  BY <1>1, ImageIsFinite
<1> QED
  BY <1>2 DEF ToSet

(* A lane lists hits, each with a score.                                   *)
LEMMA HitsAreScored ==
  ASSUME NEW documents, AreDocuments(documents), NEW score \in [ToSet(documents) -> Nat]
  PROVE  Hits(documents, score) \in Seq(AllHits)
<1> DEFINE hit == [d \in ToSet(documents) |-> Hit(d.id, score[d])]
           S == {Hit(d.id, score[d]) : d \in {d \in ToSet(documents) : score[d] > 0}}
           below == [x \in S |-> {y \in S : ByScore(y, x)}]
<1>1. IsFiniteSet(S)
  <2>1. IsFiniteSet(ToSet(documents))
    BY ElementsAreFinite DEF AreDocuments
  <2>2. IsFiniteSet({hit[d] : d \in ToSet(documents)})
    <3> HIDE DEF hit
    <3> QED
      BY <2>1, ImageIsFinite
  <2>3. S \subseteq {hit[d] : d \in ToSet(documents)}
    OBVIOUS
  <2> HIDE DEF S, hit
  <2> QED
    BY <2>2, <2>3, FS_Subset
<1>2. \A x \in S : x \in AllHits
  BY DEF Hit, AllHits, AreDocuments
<1>3. \A x, y \in S : x.id = y.id => x = y
  BY DEF Hit, AreDocuments
<1> HIDE DEF S
<1>4. IsOrder(below, S)
  <2>1. below \in [S -> SUBSET S]
    OBVIOUS
  <2>2. \A x \in S : x \notin below[x]
    BY <1>2 DEF ByScore, AllHits
  <2>3. \A x, y \in S : x # y => x \in below[y] \/ y \in below[x]
    BY <1>2, <1>3 DEF ByScore, AllHits
  <2>4. \A x, y \in S : y \in below[x] => below[y] \subseteq below[x]
    BY <1>2 DEF ByScore, AllHits
  <2> HIDE DEF below
  <2> QED
    BY <2>1, <2>2, <2>3, <2>4 DEF IsOrder
<1>5. IsOrdering(Hits(documents, score), S, below)
  <2>1. Hits(documents, score) =
          [n \in 1 .. Cardinality(S) |-> CHOOSE x \in S : Cardinality({y \in S : ByScore(y, x)}) = n - 1]
    BY DEF Hits, Ordered, S
  <2>2. \A x \in S : Cardinality(below[x]) = Cardinality({y \in S : ByScore(y, x)})
    OBVIOUS
  <2> HIDE DEF below
  <2> QED
    BY <2>1, <2>2 DEF IsOrdering
<1>6. Hits(documents, score) \in Seq(S)
  <2> HIDE DEF below
  <2> QED
    BY <1>1, <1>4, <1>5, OrderingListsAll
<1> QED
  BY <1>2, <1>6

(* A score is divided by a number that is not zero.                        *)
LEMMA QuotientIsNat ==
  ASSUME NEW a \in Nat, NEW b \in Nat \ {0}
  PROVE  a \div b \in Nat
  OBVIOUS

LEMMA ProductIsNat ==
  ASSUME NEW a \in Nat, NEW b \in Nat
  PROVE  a * b \in Nat /\ (a # 0 /\ b # 0 => a * b # 0)
  OBVIOUS

LEMMA SimilarityIsNat ==
  ASSUME NEW q \in Nat \ {0}, NEW n \in Nat, NEW c \in Nat
  PROVE  Similarity(q, n, c) \in Nat
<1>1. CASE n = 0
  BY <1>1 DEF Similarity
<1>2. CASE n # 0
  <2>1. 2 * q \in Nat \ {0} /\ 2 * q * n \in Nat \ {0}
    BY <1>2, ProductIsNat
  <2>2. 2 * c \in Nat /\ 420000 * n + 280000 * q \in Nat
    OBVIOUS
  <2>3. 2 * c * (420000 * n + 280000 * q) \in Nat
    BY <2>2, ProductIsNat
  <2>4. q * n \in Nat
    BY ProductIsNat
  <2>5. 2 * c * (420000 * n + 280000 * q) + q * n \in Nat
    BY <2>3, <2>4
  <2> DEFINE num == 2 * c * (420000 * n + 280000 * q) + q * n
             den == 2 * q * n
  <2> HIDE DEF num, den
  <2>6. num \div den \in Nat
    BY <2>1, <2>5, QuotientIsNat DEF num, den
  <2> QED
    BY <1>2, <2>6 DEF Similarity, num, den
<1> QED
  BY <1>1, <1>2

(* The lanes that look at names, words and bodies.                         *)
LEMMA TextLanesAreScored ==
  ASSUME NEW documents, AreDocuments(documents), NEW task, IsFiniteSet(task.words)
  PROVE  /\ ExactRank(task, documents) \in Seq(AllHits)
         /\ TextRank(task, documents) \in Seq(AllHits)
         /\ StructuralRank(task, documents) \in Seq(AllHits)
<1>1. ExactRank(task, documents) \in Seq(AllHits)
  <2> DEFINE score == [d \in ToSet(documents) |-> IF task.name # Nothing /\ d.name = task.name THEN 1000000 ELSE 0]
  <2>1. score \in [ToSet(documents) -> Nat]
    OBVIOUS
  <2>2. ExactRank(task, documents) = Hits(documents, score)
    BY DEF ExactRank
  <2> HIDE DEF score
  <2> QED
    BY <2>1, <2>2, HitsAreScored
<1>2. \A S : Cardinality(task.words \cap S) \in Nat
  <2> TAKE S
  <2>1. IsFiniteSet(task.words \cap S)
    BY FS_Subset
  <2> QED
    BY <2>1, FS_CardinalityType
<1>3. TextRank(task, documents) \in Seq(AllHits)
  <2> DEFINE score == [d \in ToSet(documents) |->
                         Cardinality(task.words \cap (WordsOf[d.name] \cup d.words)) * 1000000]
  <2>1. score \in [ToSet(documents) -> Nat]
    <3> SUFFICES ASSUME NEW d \in ToSet(documents)
                 PROVE  Cardinality(task.words \cap (WordsOf[d.name] \cup d.words)) * 1000000 \in Nat
      BY Z3
    <3> DEFINE n == Cardinality(task.words \cap (WordsOf[d.name] \cup d.words))
    <3>1. n \in Nat
      BY <1>2, Z3
    <3> HIDE DEF n
    <3>2. n * 1000000 \in Nat
      BY <3>1, SMT
    <3> QED
      BY <3>2, SMT DEF n
  <2>2. TextRank(task, documents) = Hits(documents, score)
    BY DEF TextRank
  <2> HIDE DEF score
  <2> QED
    BY <2>1, <2>2, HitsAreScored
<1>4. StructuralRank(task, documents) \in Seq(AllHits)
  <2> DEFINE target == TargetBody(task, documents)
             q == Cardinality(task.words)
             Names(d) == Similarity(q, Cardinality(WordsOf[d.name]), Cardinality(task.words \cap WordsOf[d.name]))
             Bodies(d) == IF WordsOf[d.name] # {} /\ target # Nothing /\ d.body = target THEN 300000 ELSE 0
             score == [d \in ToSet(documents) |-> Names(d) + Bodies(d)]
  <2>1. q \in Nat
    BY FS_CardinalityType
  <2>2. CASE q = 0
    <3>1. StructuralRank(task, documents) = <<>>
      BY <2>2 DEF StructuralRank
    <3> QED
      BY <3>1
  <2>3. CASE q # 0
    <3>1. ASSUME NEW d \in ToSet(documents)
          PROVE  Names(d) \in Nat /\ Bodies(d) \in Nat
      <4>1. Cardinality(WordsOf[d.name]) \in Nat
        BY FS_CardinalityType DEF AreDocuments
      <4> HIDE DEF q
      <4>2. Names(d) \in Nat
        BY <1>2, <2>1, <2>3, <4>1, SimilarityIsNat
      <4> QED
        BY <4>2
    <3>2. StructuralRank(task, documents) = Hits(documents, score)
      BY <2>3 DEF StructuralRank
    <3>3. score \in [ToSet(documents) -> Nat]
      <4> HIDE DEF Names, Bodies
      <4> QED
        BY <3>1
    <3> HIDE DEF score
    <3> QED
      BY <3>2, <3>3, HitsAreScored
  <2> QED
    BY <2>2, <2>3
<1> QED
  BY <1>1, <1>3, <1>4

(* What a hop comes to is hit once, the sooner the higher.                 *)
LEMMA HopIsScored ==
  ASSUME NEW documents, AreDocuments(documents), NEW frontier,
         frontier \subseteq {d.id : d \in ToSet(documents)}, NEW h \in Nat \ {0}
  PROVE  HitsOfHop(documents, frontier, h) \in Seq(AllHits)
<1> DEFINE PathOf(id) == (CHOOSE d \in ToSet(documents) : d.id = id).path
           path == [id \in frontier |-> PathOf(id)]
           below == [x \in frontier |->
                      {y \in frontier : path[y] < path[x] \/ (path[y] = path[x] /\ y < x)}]
           found == [n \in 1 .. Cardinality(frontier) |->
                      CHOOSE x \in frontier :
                        Cardinality({y \in frontier : PathOf(y) < PathOf(x) \/ (PathOf(y) = PathOf(x) /\ y < x)}) = n - 1]
<1>0. HitsOfHop(documents, frontier, h) = [i \in DOMAIN found |-> Hit(found[i], 1000000 \div h)]
  BY DEF HitsOfHop, Ordered
<1>1. IsFiniteSet(frontier) /\ frontier \subseteq Nat
  <2> DEFINE id == [d \in ToSet(documents) |-> d.id]
  <2>1. IsFiniteSet({id[d] : d \in ToSet(documents)})
    <3>1. IsFiniteSet(ToSet(documents))
      BY ElementsAreFinite DEF AreDocuments
    <3> HIDE DEF id
    <3> QED
      BY <3>1, ImageIsFinite
  <2>2. frontier \subseteq {id[d] : d \in ToSet(documents)}
    OBVIOUS
  <2>3. IsFiniteSet(frontier)
    <3> HIDE DEF id
    <3> QED
      BY <2>1, <2>2, FS_Subset
  <2> QED
    BY <2>3 DEF AreDocuments
<1>2. path \in [frontier -> Nat]
  <2>1. \A x \in frontier : PathOf(x) \in Nat
    BY DEF AreDocuments
  <2> HIDE DEF PathOf
  <2> QED
    BY <2>1
<1>3. /\ \A n \in 1 .. Cardinality(frontier) : found[n] = CHOOSE x \in frontier : Cardinality(below[x]) = n - 1
      /\ found \in [1 .. Cardinality(frontier) -> {found[n] : n \in 1 .. Cardinality(frontier)}]
  <2> HIDE DEF PathOf
  <2>1. \A x \in frontier : below[x] = {y \in frontier : PathOf(y) < PathOf(x) \/ (PathOf(y) = PathOf(x) /\ y < x)}
    OBVIOUS
  <2>2. \A n \in 1 .. Cardinality(frontier) : found[n] = CHOOSE x \in frontier : Cardinality(below[x]) = n - 1
    <3> HIDE DEF below
    <3> QED
      BY <2>1
  <2>3. found \in [1 .. Cardinality(frontier) -> {found[n] : n \in 1 .. Cardinality(frontier)}]
    OBVIOUS
  <2> HIDE DEF found, below
  <2> QED
    BY <2>2, <2>3
<1> HIDE DEF PathOf, path
<1> HIDE DEF found
<1>4. IsOrder(below, frontier)
  <2>1. below \in [frontier -> SUBSET frontier]
    BY SMT
  <2>2. \A x \in frontier : x \in Nat /\ path[x] \in Nat
    BY <1>1, <1>2, SMT
  <2>3. \A x \in frontier : x \notin below[x]
    BY <2>2, SMT
  <2>4. \A x, y \in frontier : x # y => x \in below[y] \/ y \in below[x]
    BY <2>2, SMT
  <2>5. ASSUME NEW x \in frontier, NEW y \in frontier, NEW z \in frontier, y \in below[x], z \in below[y]
        PROVE  z \in below[x]
    BY <2>2, <2>5, SMT
  <2> HIDE DEF below
  <2>6. \A x, y \in frontier : y \in below[x] => below[y] \subseteq below[x]
    BY <2>1, <2>5, SMT
  <2> QED
    BY <2>1, <2>3, <2>4, <2>6, SMT DEF IsOrder
<1>5. IsOrdering(found, frontier, below)
  <2> HIDE DEF below
  <2> QED
    BY <1>3 DEF IsOrdering
<1>6. found \in Seq(frontier)
  <2> HIDE DEF below
  <2> QED
    BY <1>1, <1>4, <1>5, OrderingListsAll
<1> HIDE DEF below
<1> DEFINE worth == 1000000 \div h
<1>7. worth \in Nat
  BY QuotientIsNat
<1>8. HitsOfHop(documents, frontier, h) = [i \in DOMAIN found |-> Hit(found[i], worth)]
  BY <1>0
<1> HIDE DEF worth
<1>9. \A i \in DOMAIN found : Hit(found[i], worth) \in AllHits
  <2> SUFFICES ASSUME NEW i \in DOMAIN found  PROVE Hit(found[i], worth) \in AllHits
    OBVIOUS
  <2>1. found[i] \in Nat
    <3>1. found[i] \in frontier
      BY <1>6
    <3> QED
      BY <1>1, <3>1
  <2> QED
    BY <1>7, <2>1 DEF Hit, AllHits
<1> QED
  BY <1>6, <1>8, <1>9

(* So does the lane of the graph, hop by hop.                              *)
LEMMA GraphIsScored ==
  ASSUME NEW documents, AreDocuments(documents), NEW roots, NEW arcs, NEW scope, scope.depth \in Nat
  PROVE  GraphRank(roots, documents, arcs, scope).hits \in Seq(AllHits)
<1> DEFINE ids == {d.id : d \in ToSet(documents)}
           After(frontier) ==
             {a.target : a \in {a \in arcs : a.kind \in scope.kinds /\ a.source \in frontier}} \cap ids
           n == scope.depth
           U == SUBSET (roots \cup ids)
           A == [visited : U, frontier : U]
           start == [visited |-> roots, frontier |-> roots]
           Then(last) == [visited |-> last.visited \cup (After(last.frontier) \ last.visited),
                          frontier |-> After(last.frontier) \ last.visited]
           hopStep == [ss \in A \X (1 .. n) |-> Then(ss[1])]
           HopBody(f) == [h \in 0 .. n |-> IF h = 0 THEN start ELSE Then(f[h - 1])]
           hop == CHOOSE f : f = HopBody(f)
           HitBody(f) == [h \in 0 .. n |-> IF h = 0 THEN <<>> ELSE f[h - 1] \o HitsOfHop(documents, hop[h].frontier, h)]
           hits == CHOOSE f : f = HitBody(f)
<1>1. n \in Nat
  OBVIOUS
<1>2. \A last \in A : Then(last) \in A
  OBVIOUS
<1>3. hop = HopBody(hop)
  <2>1. hopStep \in [A \X (1 .. n) -> A] /\ start \in A
    <3> HIDE DEF Then
    <3>1. \A ss \in A \X (1 .. n) : Then(ss[1]) \in A
      <4> HIDE DEF A
      <4> QED
        BY <1>2
    <3>2. start \in A
      OBVIOUS
    <3> HIDE DEF A
    <3> QED
      BY <3>1, <3>2
  <2>2. PICK f : IsRun(f, A, start, n, hopStep)
    <3> HIDE DEF A, start, hopStep, n
    <3> QED
      BY <1>1, <2>1, RunExists
  <2>3. f \in [0 .. n -> A] /\ \A k \in 0 .. n : f[k] = IF k = 0 THEN start ELSE hopStep[<<f[k - 1], k>>]
    BY <2>2 DEF IsRun
  <2>4. \A k \in 0 .. n : k # 0 => hopStep[<<f[k - 1], k>>] = Then(f[k - 1])
    <3>1. \A k \in 0 .. n : k # 0 => k - 1 \in 0 .. n /\ k \in 1 .. n
      BY <1>1
    <3> HIDE DEF Then, A, n
    <3> QED
      BY <2>3, <3>1
  <2>5. f = HopBody(f)
    <3> HIDE DEF Then, A, n, start, hopStep
    <3> QED
      BY <2>3, <2>4
  <2> HIDE DEF HopBody
  <2> QED
    BY <2>5
<1>4. \A h \in 1 .. n : hop[h].frontier \subseteq ids
  <2> HIDE DEF hop
  <2>1. \A h \in 1 .. n : h \in 0 .. n /\ h # 0
    BY <1>1
  <2>2. \A h \in 1 .. n : hop[h] = Then(hop[h - 1])
    <3> HIDE DEF Then, start, n
    <3> QED
      BY <1>3, <2>1
  <2>3. \A last : Then(last).frontier \subseteq ids
    OBVIOUS
  <2> HIDE DEF Then
  <2> QED
    BY <2>2, <2>3
<1>5. \A h \in 1 .. n : HitsOfHop(documents, hop[h].frontier, h) \in Seq(AllHits)
  <2> HIDE DEF hop
  <2> QED
    BY <1>1, <1>4, HopIsScored
<1> HIDE DEF hop
<1> DEFINE B == Seq(AllHits)
           hitStep == [ss \in B \X (1 .. n) |-> ss[1] \o HitsOfHop(documents, hop[ss[2]].frontier, ss[2])]
<1>6. PICK f : IsRun(f, B, <<>>, n, hitStep)
  <2>1. \A s, t \in B : s \o t \in B
    OBVIOUS
  <2>2. <<>> \in B
    OBVIOUS
  <2>3. hitStep \in [B \X (1 .. n) -> B]
    <3> HIDE DEF B, n
    <3>1. \A ss \in B \X (1 .. n) : ss[1] \in B /\ HitsOfHop(documents, hop[ss[2]].frontier, ss[2]) \in B
      BY <1>5 DEF B
    <3> QED
      BY <2>1, <3>1
  <2> HIDE DEF B, hitStep, n
  <2> QED
    BY <1>1, <2>2, <2>3, RunExists
<1>7. f = HitBody(f)
  <2>1. f \in [0 .. n -> B] /\ \A k \in 0 .. n : f[k] = IF k = 0 THEN <<>> ELSE hitStep[<<f[k - 1], k>>]
    BY <1>6 DEF IsRun
  <2>2. \A k \in 0 .. n : k # 0 => k - 1 \in 0 .. n /\ k \in 1 .. n
    BY <1>1
  <2>3. \A k \in 0 .. n : k # 0 =>
          hitStep[<<f[k - 1], k>>] = f[k - 1] \o HitsOfHop(documents, hop[k].frontier, k)
    <3> HIDE DEF B, n
    <3> QED
      BY <2>1, <2>2
  <2> HIDE DEF B, n, hitStep
  <2> QED
    BY <2>1, <2>3
<1>8. hits = HitBody(hits)
  <2> HIDE DEF HitBody
  <2> QED
    BY <1>7
<1>9. hits[n] \in B
  <2> DEFINE T == {k \in 0 .. n : hits[k] \in B}
  <2> HIDE DEF hits
  <2>1. 0 \in T
    <3>1. hits[0] = <<>>
      BY <1>1, <1>8
    <3>2. 0 \in 0 .. n /\ <<>> \in B
      BY <1>1
    <3> HIDE DEF B, n
    <3> QED
      BY <3>1, <3>2
  <2>2. ASSUME NEW k \in 1 .. n, k - 1 \in T
        PROVE  k \in T
    <3>1. k \in 0 .. n /\ k # 0 /\ hits[k - 1] \in B
      BY <1>1, <2>2
    <3>2. hits[k] = hits[k - 1] \o HitsOfHop(documents, hop[k].frontier, k)
      <4> HIDE DEF n
      <4> QED
        BY <1>8, <3>1
    <3>3. hits[k] \in B
      BY <1>5, <3>1, <3>2
    <3> QED
      BY <3>1, <3>3
  <2>3. 0 .. n \subseteq T
    <3> HIDE DEF T, n
    <3> QED
      BY ONLY <1>1, <2>1, <2>2, UpTo
  <2> QED
    BY <1>1, <2>3
<1>10. GraphRank(roots, documents, arcs, scope).hits = hits[n]
  BY DEF GraphRank, hop
<1> HIDE DEF hits
<1> QED
  BY <1>9, <1>10

AllScores == [exact : Nat, bm25 : Nat, graph : Nat, structural : Nat, rrf : Nat]

(* What scored lanes say of a document are numbers.                        *)
LEMMA ScoresAreNumbers ==
  ASSUME NEW lanes, \A l \in Lanes : lanes[l] \in Seq(AllHits), NEW id
  PROVE  Scores(lanes, id) \in AllScores
<1> DEFINE Places(l) == {i \in DOMAIN lanes[l] : lanes[l][i].id = id}
           Position(l) == CHOOSE i \in Places(l) : TRUE
           Raw(l) == IF Places(l) = {} THEN 0 ELSE lanes[l][Position(l)].score
           Rank(l) == IF Places(l) = {} THEN 0 ELSE (Profile.weight[l] * 1000000) \div (Profile.k + Position(l))
<1>1. ASSUME NEW l \in Lanes
      PROVE  Raw(l) \in Nat /\ Rank(l) \in Nat
  <2>1. CASE Places(l) = {}
    BY <2>1
  <2>2. CASE Places(l) # {}
    <3>1. Position(l) \in Places(l)
      BY <2>2
    <3> HIDE DEF Position
    <3>2. Position(l) \in DOMAIN lanes[l] /\ lanes[l] \in Seq(AllHits)
      BY <3>1
    <3>3. Position(l) \in Nat \ {0} /\ lanes[l][Position(l)] \in AllHits
      BY <3>2
    <3>4. Raw(l) \in Nat
      BY <2>2, <3>3 DEF AllHits
    <3>5. Profile.weight[l] * 1000000 \in Nat /\ Profile.k + Position(l) \in Nat \ {0}
      BY <3>3, ProfileAssumption
    <3>6. (Profile.weight[l] * 1000000) \div (Profile.k + Position(l)) \in Nat
      BY ONLY <3>5, QuotientIsNat
    <3> HIDE DEF Places
    <3> QED
      BY <2>2, <3>4, <3>6
  <2> QED
    BY <2>1, <2>2
<1>2. Scores(lanes, id) =
        [exact |-> Raw("exact"), bm25 |-> Raw("bm25"), graph |-> Raw("graph"), structural |-> Raw("structural"),
         rrf |-> Rank("exact") + Rank("bm25") + Rank("graph") + Rank("structural")]
  BY DEF Scores
<1> HIDE DEF Raw, Rank
<1> QED
  BY <1>1, <1>2 DEF Lanes, AllScores

(* What fuse ranks: documents with their scores.                           *)
IsScoring(scored, documents) ==
  /\ IsFiniteSet(scored)
  /\ \A s \in scored : s.document \in ToSet(documents) /\ s.scores \in AllScores
  /\ \A s, t \in scored : s.document = t.document => s = t

(* Higher scores are before lower ones, the fused first; at the same scores*)
(* paths and ids decide.                                                   *)
LEMMA RanksAreAnOrder ==
  ASSUME NEW documents, AreDocuments(documents), NEW scored, IsScoring(scored, documents)
  PROVE  Ranked(scored) \in Seq(scored) /\ Len(Ranked(scored)) = Cardinality(scored) /\ Cardinality(scored) \in Nat
<1> DEFINE below == [x \in scored |-> {y \in scored : RanksAbove(y, x)}]
           Key(s) == <<s.scores.rrf, s.scores.exact, s.scores.bm25, s.scores.structural, s.scores.graph>>
           Higher(a, b) == \E k \in 1 .. 5 : a[k] > b[k] /\ \A j \in 1 .. k - 1 : a[j] = b[j]
           Before(s, t) == s.document.path < t.document.path
                            \/ (s.document.path = t.document.path /\ s.document.id < t.document.id)
<1>1. \A s, t : RanksAbove(s, t) <=> Higher(Key(s), Key(t)) \/ (Key(s) = Key(t) /\ Before(s, t))
  BY DEF RanksAbove
<1>2. \A s \in scored : /\ Key(s) \in [1 .. 5 -> Nat]
                        /\ s.document.path \in Nat /\ s.document.id \in Nat
  BY DEF IsScoring, AreDocuments, AllScores
<1>3. \A a, b, c \in [1 .. 5 -> Nat] : /\ ~Higher(a, a)
                                       /\ a # b => Higher(a, b) \/ Higher(b, a)
                                       /\ Higher(a, b) /\ Higher(b, c) => Higher(a, c)
  <2> SUFFICES ASSUME NEW a \in [1 .. 5 -> Nat], NEW b \in [1 .. 5 -> Nat], NEW c \in [1 .. 5 -> Nat]
               PROVE  /\ ~Higher(a, a)
                      /\ a # b => Higher(a, b) \/ Higher(b, a)
                      /\ Higher(a, b) /\ Higher(b, c) => Higher(a, c)
    OBVIOUS
  <2>1. ~Higher(a, a)
    OBVIOUS
  <2>2. ASSUME NEW x \in [1 .. 5 -> Nat], NEW y \in [1 .. 5 -> Nat]
        PROVE  Higher(x, y) <=> \/ x[1] > y[1]
                                \/ x[1] = y[1] /\ x[2] > y[2]
                                \/ x[1] = y[1] /\ x[2] = y[2] /\ x[3] > y[3]
                                \/ x[1] = y[1] /\ x[2] = y[2] /\ x[3] = y[3] /\ x[4] > y[4]
                                \/ x[1] = y[1] /\ x[2] = y[2] /\ x[3] = y[3] /\ x[4] = y[4] /\ x[5] > y[5]
    OBVIOUS
  <2> HIDE DEF Higher
  <2>3. \A i \in 1 .. 5 : a[i] \in Nat /\ b[i] \in Nat /\ c[i] \in Nat
    OBVIOUS
  <2>4. a # b => Higher(a, b) \/ Higher(b, a)
    <3> SUFFICES ASSUME a # b PROVE Higher(a, b) \/ Higher(b, a)
      OBVIOUS
    <3>1. a[1] # b[1] \/ a[2] # b[2] \/ a[3] # b[3] \/ a[4] # b[4] \/ a[5] # b[5]
      OBVIOUS
    <3> QED
      BY <2>2, <2>3, <3>1
  <2>5. Higher(a, b) /\ Higher(b, c) => Higher(a, c)
    BY <2>2, <2>3
  <2> QED
    BY <2>1, <2>4, <2>5
<1>4. \A s, t \in scored : s # t => s.document.id # t.document.id
  BY DEF IsScoring, AreDocuments
<1>5. IsOrder(below, scored)
  <2> HIDE DEF Higher, Key
  <2>1. below \in [scored -> SUBSET scored]
    OBVIOUS
  <2>2. \A x \in scored : x \notin below[x]
    BY <1>1, <1>2, <1>3
  <2>3. \A x, y \in scored : x # y => x \in below[y] \/ y \in below[x]
    BY <1>1, <1>2, <1>3, <1>4
  <2>4. ASSUME NEW x \in scored, NEW y \in scored, NEW z \in scored, RanksAbove(z, y), RanksAbove(y, x)
        PROVE  RanksAbove(z, x)
    <3>1. Key(x) \in [1 .. 5 -> Nat] /\ Key(y) \in [1 .. 5 -> Nat] /\ Key(z) \in [1 .. 5 -> Nat]
      BY <1>2
    <3>2. Before(z, y) /\ Before(y, x) => Before(z, x)
      BY <1>2
    <3> HIDE DEF Before
    <3> QED
      BY <1>1, <1>3, <2>4, <3>1, <3>2
  <2>5. \A x, y \in scored : y \in below[x] => below[y] \subseteq below[x]
    BY <2>4
  <2> HIDE DEF below
  <2> QED
    BY <2>1, <2>2, <2>3, <2>5 DEF IsOrder
<1>6. IsOrdering(Ranked(scored), scored, below)
  <2>1. Ranked(scored) =
          [n \in 1 .. Cardinality(scored) |->
            CHOOSE x \in scored : Cardinality({y \in scored : RanksAbove(y, x)}) = n - 1]
    BY DEF Ranked, Ordered
  <2>2. \A x \in scored : Cardinality(below[x]) = Cardinality({y \in scored : RanksAbove(y, x)})
    OBVIOUS
  <2> HIDE DEF below
  <2> QED
    BY <2>1, <2>2 DEF IsOrdering
<1> HIDE DEF below
<1> QED
  BY <1>5, <1>6, OrderingListsAll DEF IsScoring

IdsOf(documents) == {d.id : d \in ToSet(documents)}

(* Candidates are of documents, each of another one, and their scores are  *)
(* numbers.                                                                *)
AllCandidates(documents) ==
  [id : IdsOf(documents), path : Nat, span : Nat, provenance : {"Syntax"},
   scores : [exact : Nat, bm25 : Nat, graph : Nat, structural : Nat, semantic : Nat, rrf : Nat]]
AreCandidates(list, documents) ==
  /\ list \in Seq(ToSet(list))
  /\ ToSet(list) \subseteq AllCandidates(documents)
  /\ \A c, e \in ToSet(list) : c.id = e.id => c = e

AreUnscored(list) == \A c \in ToSet(list) : c.scores.semantic = 0

(* fuse returns such candidates, which no sidecar has scored.              *)
LEMMA FusedAreCandidates ==
  ASSUME NEW documents, AreDocuments(documents), NEW lanes, \A l \in Lanes : lanes[l] \in Seq(AllHits)
  PROVE  AreCandidates(Fuse(documents, lanes), documents) /\ AreUnscored(Fuse(documents, lanes))
<1> DEFINE ids == UNION {{h.id : h \in ToSet(lanes[l])} : l \in Lanes}
           met == {d \in ToSet(documents) : d.id \in ids}
           score == [d \in met |-> [document |-> d, scores |-> Scores(lanes, d.id)]]
           scored == {[document |-> d, scores |-> Scores(lanes, d.id)] : d \in met}
           n == Cardinality(scored)
           m == Lesser(n, Profile.max)
           list == [k \in 1 .. n |-> Candidate(Ranked(scored)[k])]
           found == SubSeq(list, 1, m)
<1>1. IsScoring(scored, documents)
  <2>1. IsFiniteSet(scored)
    <3>1. IsFiniteSet(met)
      <4>1. IsFiniteSet(ToSet(documents))
        BY ElementsAreFinite DEF AreDocuments
      <4> HIDE DEF ids
      <4> QED
        BY <4>1, FS_Subset
    <3>2. scored = {score[d] : d \in met}
      OBVIOUS
    <3> HIDE DEF met, scored, score
    <3> QED
      BY <3>1, <3>2, ImageIsFinite
  <2> HIDE DEF ids
  <2> QED
    BY <2>1, ScoresAreNumbers DEF IsScoring
<1>2. Fuse(documents, lanes) = found
  BY DEF Fuse
<1> HIDE DEF scored
<1>3. /\ Ranked(scored) \in Seq(scored) /\ Len(Ranked(scored)) = n /\ n \in Nat
  BY <1>1, RanksAreAnOrder
<1>4. m \in 0 .. n
  BY <1>3, ProfileAssumption DEF Lesser
<1> DEFINE one == [s \in scored |-> Candidate(s)]
           C == {one[s] : s \in scored}
<1>5. list \in [1 .. n -> C]
  <2>1. \A k \in 1 .. n : Ranked(scored)[k] \in scored
    BY <1>3
  <2> HIDE DEF n
  <2> QED
    BY <2>1
<1> HIDE DEF n, list
<1>6. found \in Seq(C)
  <2> HIDE DEF C, m
  <2>1. list \in Seq(C) /\ Len(list) = n
    BY <1>3, <1>5
  <2> QED
    BY <1>3, <1>4, <2>1
<1> HIDE DEF m, found
<1>7. \A s \in scored : s.document \in ToSet(documents) /\ s.scores \in AllScores
  BY <1>1 DEF IsScoring
<1>8. C \subseteq AllCandidates(documents)
  <2> SUFFICES ASSUME NEW s \in scored PROVE Candidate(s) \in AllCandidates(documents)
    OBVIOUS
  <2>1. s.document.id \in IdsOf(documents) /\ s.document.path \in Nat /\ s.document.span \in Nat
    BY <1>7 DEF IdsOf, AreDocuments
  <2>2. /\ s.scores.exact \in Nat /\ s.scores.bm25 \in Nat /\ s.scores.graph \in Nat
        /\ s.scores.structural \in Nat /\ s.scores.rrf \in Nat
    BY <1>7 DEF AllScores
  <2> QED
    BY <2>1, <2>2 DEF Candidate, AllCandidates
<1>9. \A c, e \in C : c.id = e.id => c = e
  <2>1. \A s, t \in scored : s.document.id = t.document.id => s = t
    BY <1>1 DEF IsScoring, AreDocuments
  <2>2. \A s \in scored : Candidate(s).id = s.document.id
    BY DEF Candidate
  <2> QED
    BY <2>1, <2>2
<1>10. \A c \in C : c.scores.semantic = 0
  <2>1. \A s \in scored : Candidate(s).scores.semantic = 0
    BY DEF Candidate
  <2> QED
    BY <2>1
<1> HIDE DEF C
<1>11. ToSet(found) \subseteq C /\ found \in Seq(ToSet(found))
  <2>1. \A i \in DOMAIN found : found[i] \in C
    BY <1>6
  <2>2. found \in [1 .. Len(found) -> ToSet(found)] /\ Len(found) \in Nat
    BY <1>6 DEF ToSet
  <2> QED
    BY <2>1, <2>2 DEF ToSet
<1> QED
  BY <1>2, <1>8, <1>9, <1>10, <1>11 DEF AreCandidates, AreUnscored

(* And retrieval does, whatever the graph is.                              *)
LEMMA RetrievedAreCandidates ==
  ASSUME NEW documents, AreDocuments(documents), NEW task, IsFiniteSet(task.words),
         NEW scope, scope.depth \in Nat, NEW arcs
  PROVE  LET found == Retrieve(task, scope, documents, arcs).candidates IN
         AreCandidates(found, documents) /\ AreUnscored(found)
<1> DEFINE exact == ExactRank(task, documents)
           text == TextRank(task, documents)
           roots == IF exact = <<>> THEN SubSeq(text, 1, Lesser(Len(text), RootLimit)) ELSE exact
           reached == GraphRank({h.id : h \in ToSet(roots)}, documents, arcs, scope)
           lanes == [l \in Lanes |-> CASE l = "exact" -> exact [] l = "bm25" -> text [] l = "graph" -> reached.hits
                                       [] l = "structural" -> IF Hybrid THEN StructuralRank(task, documents) ELSE <<>>]
<1>1. Retrieve(task, scope, documents, arcs).candidates = Fuse(documents, lanes)
  BY DEF Retrieve
<1>2. exact \in Seq(AllHits) /\ text \in Seq(AllHits) /\ StructuralRank(task, documents) \in Seq(AllHits)
  BY TextLanesAreScored
<1>3. reached.hits \in Seq(AllHits)
  <2> HIDE DEF roots
  <2> QED
    BY GraphIsScored
<1>4. <<>> \in Seq(AllHits)
  OBVIOUS
<1> HIDE DEF exact, text, reached
<1>5. \A l \in Lanes : lanes[l] \in Seq(AllHits)
  BY <1>2, <1>3, <1>4 DEF Lanes
<1> HIDE DEF lanes
<1> QED
  BY <1>1, <1>5, FusedAreCandidates

(* A part of a list of candidates is one.                                  *)
LEMMA SomeAreCandidates ==
  ASSUME NEW documents, NEW list, AreCandidates(list, documents), NEW some \in Seq(ToSet(list))
  PROVE  AreCandidates(some, documents) /\ (AreUnscored(list) => AreUnscored(some))
<1>1. \A i \in DOMAIN some : some[i] \in ToSet(list)
  OBVIOUS
<1>2. some \in Seq(ToSet(some))
  <2>1. some \in [1 .. Len(some) -> ToSet(some)] /\ Len(some) \in Nat
    BY DEF ToSet
  <2> QED
    BY <2>1
<1>3. ToSet(some) \subseteq ToSet(list)
  BY <1>1 DEF ToSet
<1> QED
  BY <1>2, <1>3 DEF AreCandidates, AreUnscored

-----------------------------------------------------------------------------
(* What a sidecar may do to a preparation *)

(* scored is c with another semantic score.                                *)
IsScored(scored, c, v) == scored = [c EXCEPT !.scores.semantic = v]

(* Scoring a candidate keeps the rest of it, and can be undone.            *)
LEMMA ScoringKeepsTheRest ==
  ASSUME NEW documents, NEW c \in AllCandidates(documents), c.scores.semantic = 0, NEW v, NEW scored, IsScored(scored, c, v)
  PROVE  /\ scored.id = c.id
         /\ [scored EXCEPT !.scores.semantic = 0] = c
<1>1. PICK a, b, d, p, e, f, g, h, k :
        c = [id |-> a, path |-> b, span |-> d, provenance |-> p,
             scores |-> [exact |-> e, bm25 |-> f, graph |-> g, structural |-> h, semantic |-> 0, rrf |-> k]]
  BY DEF AllCandidates
<1> DEFINE Scored(w) ==
             [id |-> a, path |-> b, span |-> d, provenance |-> p,
              scores |-> [exact |-> e, bm25 |-> f, graph |-> g, structural |-> h, semantic |-> w, rrf |-> k]]
<1>2. scored = Scored(v)
  BY <1>1 DEF IsScored
<1>3. [Scored(v) EXCEPT !.scores.semantic = 0] = Scored(0)
  OBVIOUS
<1>4. [scored EXCEPT !.scores.semantic = 0] = c
  <2>1. c = Scored(0)
    BY <1>1
  <2> HIDE DEF Scored
  <2> QED
    BY <1>2, <1>3, <2>1
<1> QED
  BY <1>1, <1>2, <1>4

(* A candidate that is not scored has the semantic score 0.                *)
LEMMA UnscoredIsZero ==
  ASSUME NEW documents, NEW c \in AllCandidates(documents), c.scores.semantic = 0
  PROVE  [c EXCEPT !.scores.semantic = 0] = c
  BY DEF AllCandidates

(* Two lists of candidates have the same candidates at the same places, and*)
(* without the semantic scores the first is the second.                    *)
Alike(list, plain) ==
  /\ DOMAIN list = DOMAIN plain
  /\ \A i \in DOMAIN plain : list[i].id = plain[i].id
  /\ [i \in DOMAIN list |-> [list[i] EXCEPT !.scores.semantic = 0]] = plain
  /\ list = <<>> <=> plain = <<>>

(* The list with the semantic score of one candidate replaced.             *)
ScoredAt(scored, list, id, v) ==
  scored = [i \in DOMAIN list |-> IF list[i].id = id THEN [list[i] EXCEPT !.scores.semantic = v] ELSE list[i]]

(* Whatever the reply, candidates stay where they were.                    *)
LEMMA RerankMovesNone ==
  ASSUME NEW documents, NEW list, AreCandidates(list, documents), AreUnscored(list), NEW reply
  PROVE  Alike(Rerank(list, reply).candidates, Rerank(list, <<>>).candidates)
<1>1. Rerank(list, <<>>).candidates = list
  BY DEF Rerank
<1>2. /\ list = [i \in DOMAIN list |-> list[i]] /\ DOMAIN list = 1 .. Len(list) /\ Len(list) \in Nat
      /\ \A i \in DOMAIN list : list[i] \in AllCandidates(documents) /\ list[i].scores.semantic = 0
  <2>1. list \in Seq(ToSet(list)) /\ \A i \in DOMAIN list : list[i] \in ToSet(list)
    BY DEF AreCandidates, ToSet
  <2> QED
    BY <2>1 DEF AreCandidates, AreUnscored
<1>3. Alike(list, list)
  <2>1. \A i \in DOMAIN list : [list[i] EXCEPT !.scores.semantic = 0] = list[i]
    BY <1>2, UnscoredIsZero
  <2> QED
    BY <1>2, <2>1 DEF Alike
<1>4. ASSUME NEW id, NEW v, NEW scored, ScoredAt(scored, list, id, v)
      PROVE  Alike(scored, list)
  <2>1. DOMAIN scored = DOMAIN list
    BY <1>4 DEF ScoredAt
  <2>2. ASSUME NEW i \in DOMAIN list
        PROVE  scored[i].id = list[i].id /\ [scored[i] EXCEPT !.scores.semantic = 0] = list[i]
    <3> DEFINE c == list[i]
               d == scored[i]
    <3>1. c \in AllCandidates(documents) /\ c.scores.semantic = 0 /\ (d = c \/ IsScored(d, c, v))
      BY <1>2, <1>4 DEF ScoredAt, IsScored
    <3> HIDE DEF c, d
    <3>2. d.id = c.id /\ [d EXCEPT !.scores.semantic = 0] = c
      BY <3>1, ScoringKeepsTheRest, UnscoredIsZero
    <3> QED
      BY <3>2 DEF c, d
  <2>3. scored = <<>> <=> list = <<>>
    <3>1. scored \in [1 .. Len(list) -> {scored[i] : i \in DOMAIN list}]
      BY <1>2, <1>4 DEF ScoredAt
    <3>2. scored \in Seq({scored[i] : i \in DOMAIN list}) /\ Len(scored) = Len(list)
      BY <1>2, <3>1
    <3> QED
      BY <3>2
  <2>4. [i \in DOMAIN scored |-> [scored[i] EXCEPT !.scores.semantic = 0]] = list
    BY <1>2, <2>1, <2>2
  <2> QED
    BY <2>1, <2>2, <2>3, <2>4 DEF Alike
<1>5. \/ Rerank(list, reply).candidates = list
      \/ \E id, v : ScoredAt(Rerank(list, reply).candidates, list, id, v)
  BY DEF Rerank, ScoredAt
<1>6. CASE Rerank(list, reply).candidates = list
  BY <1>1, <1>3, <1>6
<1>7. CASE Rerank(list, reply).candidates # list
  <2>1. PICK id, v : ScoredAt(Rerank(list, reply).candidates, list, id, v)
    BY <1>5, <1>7
  <2> QED
    BY <1>1, <1>4, <2>1
<1> QED
  BY <1>6, <1>7

(* So do the candidates of a preparation, of any documents and roots.      *)
LEMMA CandidatesMoveNone ==
  ASSUME NEW documents, NEW scope, NEW arcs, NEW roots, NEW reply,
         NEW found, AreCandidates(found, documents), AreUnscored(found)
  PROVE  LET plain == Candidates(scope, documents, arcs, roots, found, <<>>).candidates IN
         /\ Alike(Candidates(scope, documents, arcs, roots, found, reply).candidates, plain)
         /\ roots = <<>> /\ plain # <<>> => 1 \in DOMAIN plain
<1>2. CASE roots = <<>>
  <2> DEFINE calls == Only(found, {c \in ToSet(found) : DocumentOf(documents, c.id).kind = "CALLS"})
             list == IF "Calls" \in scope.kinds /\ calls # <<>> THEN calls ELSE found
  <2>1. /\ Candidates(scope, documents, arcs, roots, found, reply) = Rerank(list, reply)
        /\ Candidates(scope, documents, arcs, roots, found, <<>>) = Rerank(list, <<>>)
    BY <1>2 DEF Candidates, Mapped
  <2>2. AreCandidates(list, documents) /\ AreUnscored(list)
    <3>1. calls \in Seq(ToSet(found))
      BY CountOfOnly DEF AreCandidates
    <3>2. AreCandidates(calls, documents) /\ AreUnscored(calls)
      BY <3>1, SomeAreCandidates
    <3> HIDE DEF calls
    <3> QED
      BY <3>2
  <2> HIDE DEF list
  <2>4. list # <<>> => 1 \in DOMAIN list
    BY <2>2 DEF AreCandidates
  <2>5. Rerank(list, <<>>).candidates = list
    BY DEF Rerank
  <2> QED
    BY <2>1, <2>2, <2>4, <2>5, RerankMovesNone
<1>3. CASE roots # <<>>
  <2> DEFINE ids == IF "Calls" \in scope.kinds THEN GraphEvidence(roots, documents, arcs, scope) ELSE roots
             Selected(id) ==
               [id |-> id, path |-> DocumentOf(documents, id).path, span |-> DocumentOf(documents, id).span,
                provenance |-> "Syntax",
                scores |-> [exact |-> 0, bm25 |-> 0, structural |-> 0, semantic |-> 0, rrf |-> 0,
                            graph |-> IF id \in ToSet(roots) THEN 0 ELSE 50000]]
             list == [i \in DOMAIN ids |-> Selected(ids[i])]
  <2>1. /\ Candidates(scope, documents, arcs, roots, found, reply).candidates = list
        /\ Candidates(scope, documents, arcs, roots, found, <<>>).candidates = list
    BY <1>3 DEF Candidates, Mapped
  <2>2. \A i \in DOMAIN list : [list[i] EXCEPT !.scores.semantic = 0] = list[i]
    <3> HIDE DEF ids
    <3> QED
      OBVIOUS
  <2>3. list = [i \in DOMAIN list |-> list[i]]
    <3> HIDE DEF ids, Selected
    <3> QED
      OBVIOUS
  <2> HIDE DEF list
  <2> QED
    BY <1>3, <2>1, <2>2, <2>3 DEF Alike
<1> QED
  BY <1>2, <1>3

(* And the rest of a preparation depends on where the candidates are only. *)
LEMMA PreparationsDifferInScores ==
  ASSUME NEW documents, AreDocuments(documents), NEW held, NEW req \in Requests, NEW arcs, NEW roots, NEW reply
  PROVE  DifferInScores(PreparedFrom(held, req, documents, arcs, roots, reply), PreparedFrom(held, req, documents, arcs, roots, <<>>))
<1> DEFINE found == Retrieve(req.task, req.scope, documents, arcs).candidates
           ranked == Candidates(req.scope, documents, arcs, roots, found, reply)
           unranked == Candidates(req.scope, documents, arcs, roots, found, <<>>)
           p == Prepared(held, req, documents, arcs, roots, ranked)
           plain == Prepared(held, req, documents, arcs, roots, unranked)
<1>1. /\ Alike(ranked.candidates, unranked.candidates)
      /\ roots = <<>> /\ unranked.candidates # <<>> => 1 \in DOMAIN unranked.candidates
  <2>1. AreCandidates(found, documents) /\ AreUnscored(found)
    BY RequestsAssumption, RetrievedAreCandidates
  <2> HIDE DEF found
  <2> QED
    BY <2>1, CandidatesMoveNone
<1>2. p = PreparedFrom(held, req, documents, arcs, roots, reply) /\ plain = PreparedFrom(held, req, documents, arcs, roots, <<>>)
  BY DEF PreparedFrom
<1> HIDE DEF ranked, unranked, found
<1>3. {c.id : c \in ToSet(ranked.candidates)} = {c.id : c \in ToSet(unranked.candidates)}
  BY <1>1 DEF Alike, ToSet
<1>4. /\ p.records = plain.records
      /\ p.obligations = plain.obligations
      /\ p.uncertainties = plain.uncertainties
      /\ p.anchors = plain.anchors
      /\ p.disconnected = plain.disconnected
  <2>1. p.records = plain.records
    BY <1>3 DEF Prepared
  <2>2. p.uncertainties = plain.uncertainties
    <3>1. Uncertainties(held.coverage, req.scope, ranked.candidates)
            = Uncertainties(held.coverage, req.scope, unranked.candidates)
      BY <1>1 DEF Uncertainties, Alike
    <3> QED
      BY <3>1 DEF Prepared
  <2>3. p.anchors = plain.anchors
    BY <1>1 DEF Prepared, Alike
  <2> QED
    BY <2>1, <2>2, <2>3 DEF Prepared
<1>5. p.candidates = ranked.candidates /\ plain.candidates = unranked.candidates
  BY DEF Prepared
<1> HIDE DEF p, plain
<1> QED
  BY <1>1, <1>2, <1>4, <1>5 DEF DifferInScores, Alike

(* What a sidecar may reply: ids with relevances.                          *)
Scorings == Seq([id : Nat, relevance : Nat])

(* What is prepared was prepared of the request and the graph there is.    *)
PreparedIsOfRequest ==
  /\ stored \in Graphs
  /\ prepared # Absent => request \in Requests /\ \E reply \in Scorings : prepared = Preparation(stored, request, reply)

(* What the sidecar may reply names ids and relevances that are numbers.   *)
LEMMA RepliesAreScorings == stored \in Graphs => Replies \subseteq Scorings
<1> SUFFICES ASSUME stored \in Graphs, NEW reply \in Replies
             PROVE  reply \in Scorings
  OBVIOUS
<1> DEFINE A == [id : Nat, relevance : Nat]
           scores == [id : {d.id : d \in ToSet(stored.documents)}, relevance : Relevances]
<1>1. scores \subseteq A
  BY GraphsAssumption, RerankAssumption
<1>2. reply = <<>> \/ (\E a \in scores : reply = <<a>>) \/ \E a, b \in scores : reply = <<a, b>>
  BY DEF Replies
<1> HIDE DEF A, scores
<1>3. reply \in Seq(A)
  <2>1. <<>> \in Seq(A) /\ \A a, b \in A : <<a>> \in Seq(A) /\ <<a, b>> \in Seq(A)
    OBVIOUS
  <2> QED
    BY <1>1, <1>2, <2>1
<1> QED
  BY <1>3 DEF Scorings, A

(* What a session holds was prepared of this graph for its request.        *)
LEMMA PreparedStaysOfRequest == OrientSpec => []PreparedIsOfRequest
<1>1. OrientInit => PreparedIsOfRequest
  BY DEF OrientInit, PreparedIsOfRequest
<1>2. PreparedIsOfRequest /\ [OrientNext]_orientVars => PreparedIsOfRequest'
  <2> SUFFICES ASSUME PreparedIsOfRequest, [OrientNext]_orientVars
               PROVE  PreparedIsOfRequest'
    OBVIOUS
  <2>1. CASE UNCHANGED <<stored, prepared, request>>
    BY <2>1 DEF PreparedIsOfRequest
  <2>2. ASSUME Untouched, NEW req \in Requests, NEW reply \in Replies, Prepare(req, reply)
        PROVE  PreparedIsOfRequest'
    BY <2>2, RepliesAreScorings DEF Untouched, Prepare, PreparedIsOfRequest
  <2>3. CASE Untouched /\ DropPrepared
    BY <2>3 DEF Untouched, DropPrepared, PreparedIsOfRequest
  <2> QED
    BY <2>1, <2>2, <2>3 DEF OrientNext, SessionNext, Untouched, session, orientVars, AskOrient, AskExpand
<1> QED
  BY <1>1, <1>2, PTL DEF OrientSpec

MoreRelevant(reply, i, j) ==
  reply[i].relevance > reply[j].relevance \/ (reply[i].relevance = reply[j].relevance /\ reply[i].id < reply[j].id)

(* The margin that is scored is a number.                                  *)
LEMMA MarginIsNat ==
  ASSUME NEW reply \in Scorings, NEW sent, Complete(sent, reply), Cardinality(sent) >= 2
  PROVE  LET Better(i, j) == reply[i].relevance > reply[j].relevance
                               \/ (reply[i].relevance = reply[j].relevance /\ reply[i].id < reply[j].id)
             order == Ordered(DOMAIN reply, Better)
         IN  /\ reply[order[1]] \in [id : Nat, relevance : Nat]
             /\ reply[order[2]] \in [id : Nat, relevance : Nat]
<1> DEFINE Better(i, j) == reply[i].relevance > reply[j].relevance
                             \/ (reply[i].relevance = reply[j].relevance /\ reply[i].id < reply[j].id)
           S == DOMAIN reply
           order == Ordered(S, Better)
           below == [x \in S |-> {y \in S : Better(y, x)}]
           idOf == [i \in S |-> reply[i].id]
<1> HIDE DEF order
<1>1. /\ S = 1 .. Len(reply) /\ Len(reply) \in Nat /\ IsFiniteSet(S) /\ Cardinality(S) = Len(reply)
      /\ \A i \in S : reply[i] \in [id : Nat, relevance : Nat]
  <2> DEFINE A == [id : Nat, relevance : Nat]
  <2>1. S = 1 .. Len(reply) /\ Len(reply) \in Nat /\ \A i \in S : reply[i] \in A
    <3> HIDE DEF A
    <3>1. reply \in Seq(A)
      BY DEF Scorings, A
    <3> QED
      BY <3>1
  <2>2. \A n \in Nat : IsFiniteSet(1 .. n) /\ Cardinality(1 .. n) = n
    BY FS_Interval
  <2> QED
    BY <2>1, <2>2
<1>2. Len(reply) >= 2
  BY DEF Complete
<1>3. \A i, j \in S : reply[i].id = reply[j].id => i = j
  <2>1. sent = {idOf[i] : i \in S} /\ Cardinality(sent) = Cardinality(S)
    BY <1>1 DEF Complete
  <2>2. idOf \in Surjection(S, sent)
    <3> HIDE DEF S
    <3> QED
      BY <2>1 DEF Surjection
  <2>3. IsFiniteSet(sent)
    <3> HIDE DEF S, idOf
    <3> QED
      BY <1>1, <2>1, ImageIsFinite
  <2>4. idOf \in Injection(S, sent)
    <3> HIDE DEF S, idOf
    <3> QED
      BY <1>1, <2>1, <2>2, <2>3, FS_SurjSameCardinalityImpliesInj
  <2>5. \A i, j \in S : idOf[i] = idOf[j] => i = j
    <3> HIDE DEF S, idOf
    <3> QED
      BY <2>4 DEF Injection, IsInjective
  <2> QED
    BY <2>5
<1>4. IsOrder(below, S)
  <2> HIDE DEF S
  <2>1. below \in [S -> SUBSET S]
    OBVIOUS
  <2>2. \A x \in S : x \notin below[x]
    BY <1>1
  <2>3. \A x, y \in S : x # y => x \in below[y] \/ y \in below[x]
    BY <1>1, <1>3
  <2>4. \A x, y \in S : y \in below[x] => below[y] \subseteq below[x]
    BY <1>1
  <2> HIDE DEF below
  <2> QED
    BY <2>1, <2>2, <2>3, <2>4 DEF IsOrder
<1>5. ASSUME NEW n \in 1 .. Cardinality(S)
      PROVE  order[n] \in S
  <2>1. order[n] = CHOOSE x \in S : Cardinality({y \in S : MoreRelevant(reply, y, x)}) = n - 1
    BY DEF order, Ordered, MoreRelevant
  <2>2. \A x \in S : Cardinality(below[x]) = Cardinality({y \in S : MoreRelevant(reply, y, x)})
    BY DEF MoreRelevant
  <2> HIDE DEF below, S, Better
  <2>3. \E x \in S : Cardinality(below[x]) = n - 1
    BY <1>1, <1>4, PlacesAreTaken
  <2> QED
    BY <2>1, <2>2, <2>3
<1>6. order[1] \in S /\ order[2] \in S
  <2> HIDE DEF S
  <2> QED
    BY <1>1, <1>2, <1>5
<1> HIDE DEF S
<1>7. reply[order[1]] \in [id : Nat, relevance : Nat] /\ reply[order[2]] \in [id : Nat, relevance : Nat]
  BY <1>1, <1>6
<1> QED
  BY <1>7 DEF order, S

(* Scoring one candidate leaves candidates.                                *)
LEMMA RerankedAreCandidates ==
  ASSUME NEW documents, NEW list, AreCandidates(list, documents), NEW reply \in Scorings
  PROVE  AreCandidates(Rerank(list, reply).candidates, documents)
<1> DEFINE result == Rerank(list, reply).candidates
<1>1. result = list \/ \E id : \E v \in Nat : ScoredAt(result, list, id, v)
  <2> DEFINE sent == {list[i].id : i \in 1 .. Lesser(RerankLimit, Len(list))}
             Better(i, j) == reply[i].relevance > reply[j].relevance
                               \/ (reply[i].relevance = reply[j].relevance /\ reply[i].id < reply[j].id)
             order == Ordered(DOMAIN reply, Better)
             top == reply[order[1]]
             margin == top.relevance - reply[order[2]].relevance
  <2>1. \/ result = list
        \/ /\ ~(Cardinality(sent) < 2) /\ Complete(sent, reply) /\ ~(margin < MinMargin)
           /\ ScoredAt(result, list, top.id, margin * 10)
    BY DEF Rerank, ScoredAt
  <2>2. CASE result # list
    <3>1. Complete(sent, reply) /\ ~(Cardinality(sent) < 2) /\ ~(margin < MinMargin)
          /\ ScoredAt(result, list, top.id, margin * 10)
      BY <2>1, <2>2
    <3>2. Cardinality(sent) >= 2
      <4> HIDE DEF sent, order, result, top, margin
      <4>1. Cardinality(sent) = Len(reply) /\ Len(reply) \in Nat
        BY <3>1 DEF Complete, Scorings
      <4> QED
        BY <3>1, <4>1
    <3>3. top \in [id : Nat, relevance : Nat] /\ reply[order[2]] \in [id : Nat, relevance : Nat]
      <4> HIDE DEF sent
      <4> QED
        BY <3>1, <3>2, MarginIsNat
    <3>4. margin * 10 \in Nat
      <4>1. margin \in Int /\ MinMargin \in Nat /\ margin >= MinMargin
        <5>1. top.relevance \in Nat /\ reply[order[2]].relevance \in Nat
          <6> HIDE DEF order
          <6> QED
            BY <3>3
        <5> HIDE DEF top, order
        <5> QED
          BY <3>1, <5>1, RerankAssumption
      <4> HIDE DEF margin
      <4> QED
        BY <4>1
    <3> HIDE DEF margin, top, order, sent, result
    <3> QED
      BY <3>1, <3>4
  <2> HIDE DEF result
  <2> QED
    BY <2>2
<1> HIDE DEF result
<1>2. ASSUME NEW id, NEW v \in Nat, ScoredAt(result, list, id, v)
      PROVE  AreCandidates(result, documents)
  <2>1. /\ list \in Seq(ToSet(list)) /\ DOMAIN list = 1 .. Len(list) /\ Len(list) \in Nat
        /\ DOMAIN result = DOMAIN list
    BY <1>2 DEF AreCandidates, ScoredAt
  <2>2. result \in Seq(ToSet(result))
    <3>1. result = [i \in 1 .. Len(list) |-> result[i]]
      BY <1>2, <2>1 DEF ScoredAt
    <3>2. \A i \in 1 .. Len(list) : result[i] \in ToSet(result)
      BY <2>1 DEF ToSet
    <3>3. result \in [1 .. Len(list) -> ToSet(result)]
      BY <3>1, <3>2
    <3> QED
      BY <2>1, <3>3
  <2>3. ASSUME NEW i \in DOMAIN list
        PROVE  result[i].id = list[i].id /\ result[i] \in AllCandidates(documents)
    <3>1. list[i] \in AllCandidates(documents)
      BY DEF AreCandidates, ToSet
    <3>2. result[i] = IF list[i].id = id THEN [list[i] EXCEPT !.scores.semantic = v] ELSE list[i]
      BY <1>2 DEF ScoredAt
    <3>3. [list[i] EXCEPT !.scores.semantic = v] \in AllCandidates(documents)
      <4> DEFINE c == list[i]
      <4> HIDE DEF c
      <4>1. c \in AllCandidates(documents)
        BY <3>1 DEF c
      <4>2. [c EXCEPT !.scores.semantic = v] \in AllCandidates(documents)
        BY <4>1 DEF AllCandidates
      <4> QED
        BY <4>2 DEF c
    <3>4. [list[i] EXCEPT !.scores.semantic = v].id = list[i].id
      BY <3>1 DEF AllCandidates
    <3> QED
      BY <3>1, <3>2, <3>3, <3>4
  <2>4. \A i, j \in DOMAIN list : list[i].id = list[j].id => result[i] = result[j]
    <3>1. \A i, j \in DOMAIN list : list[i].id = list[j].id => list[i] = list[j]
      BY DEF AreCandidates, ToSet
    <3> QED
      BY <1>2, <3>1 DEF ScoredAt
  <2>5. ToSet(result) \subseteq AllCandidates(documents)
    BY <2>1, <2>3 DEF ToSet
  <2>6. \A c, e \in ToSet(result) : c.id = e.id => c = e
    BY <2>1, <2>3, <2>4 DEF ToSet
  <2> QED
    BY <2>2, <2>5, <2>6 DEF AreCandidates
<1>3. ASSUME result = list
      PROVE  AreCandidates(result, documents)
  BY <1>3
<1> QED
  BY <1>1, <1>2, <1>3 DEF result

-----------------------------------------------------------------------------
(* What is packed of candidates that differ in scores *)

(* What is left of an input is the same of two that differ in scores.      *)
SameButScores(p, q) ==
  /\ p.records = q.records /\ p.obligations = q.obligations /\ p.anchors = q.anchors /\ p.disconnected = q.disconnected
  /\ DOMAIN p.candidates = DOMAIN q.candidates
  /\ \A i \in DOMAIN p.candidates : p.candidates[i].id = q.candidates[i].id

(* An input that retrieval made: all records have the same obligations,    *)
(* and at most one is required.                                            *)
IsRetrieved(p, documents) ==
  /\ AreDocuments(documents)
  /\ AreCandidates(p.candidates, documents)
  /\ DOMAIN p.records = {c.id : c \in ToSet(p.candidates)}
  /\ \A id \in DOMAIN p.records : /\ p.records[id].obligations = p.obligations
                                  /\ p.records[id].penalty = 0
                                  /\ p.records[id].path \in Nat /\ p.records[id].span \in Nat
  /\ IsFiniteSet(p.obligations) /\ p.obligations # {}
  /\ \E a : p.anchors \subseteq {a}
  /\ \A id \in IdsOf(documents) : <<id>> # Missing
  /\ \A ids \in SUBSET IdsOf(documents) : Tokens(ids) \in Nat

Packing(S, R, E, o) == [selected |-> S, residual |-> R, excluded |-> E, over |-> o]
IsPacking(s) == s = Packing(s.selected, s.residual, s.excluded, s.over)
StepOf(input, limit, s) == IF s.over THEN s ELSE Round(input, limit, s)

IsGreedy(f, input, limit, first, n) ==
  f = [k \in 0 .. n |-> IF k = 0 THEN first ELSE StepOf(input, limit, f[k - 1])]

(* The loop over the candidates exists as the function it is said to be.   *)
LEMMA GreedyExists ==
  ASSUME NEW input, NEW limit, NEW first, NEW n \in Nat
  PROVE  \E f : IsGreedy(f, input, limit, first, n)
<1> DEFINE Is(f, m) == f = [k \in 0 .. m |-> IF k = 0 THEN first ELSE StepOf(input, limit, f[k - 1])]
           T == {m \in 0 .. n : \E f : Is(f, m)}
<1>1. 0 \in T
  <2> DEFINE f == [k \in 0 .. 0 |-> first]
  <2>1. Is(f, 0)
    OBVIOUS
  <2> HIDE DEF f, Is
  <2> QED
    BY <2>1
<1>2. ASSUME NEW m \in 1 .. n, m - 1 \in T
      PROVE  m \in T
  <2>1. PICK f : Is(f, m - 1)
    BY <1>2
  <2> DEFINE next == StepOf(input, limit, f[m - 1])
             g == [k \in 0 .. m |-> IF k = m THEN next ELSE f[k]]
  <2>2. ASSUME NEW k \in 0 .. m
        PROVE  g[k] = IF k = 0 THEN first ELSE StepOf(input, limit, g[k - 1])
    <3>1. CASE k = m
      <4>1. k # 0 /\ k - 1 \in 0 .. m /\ k - 1 # m /\ g[k - 1] = f[m - 1] /\ g[k] = next
        BY <3>1
      <4> HIDE DEF g
      <4> QED
        BY <3>1, <4>1
    <3>2. CASE k # m
      <4>1. k \in 0 .. m - 1 /\ g[k] = f[k] /\ (k # 0 => g[k - 1] = f[k - 1])
        BY <3>2
      <4>2. f[k] = IF k = 0 THEN first ELSE StepOf(input, limit, f[k - 1])
        BY <2>1, <4>1
      <4> HIDE DEF g
      <4> QED
        BY <4>1, <4>2
    <3> QED
      BY <3>1, <3>2
  <2>3. Is(g, m)
    <3>1. g = [k \in 0 .. m |-> g[k]]
      OBVIOUS
    <3> HIDE DEF g
    <3> QED
      BY <2>2, <3>1
  <2> HIDE DEF g, Is
  <2> QED
    BY <2>3
<1>3. 0 .. n \subseteq T
  <2> HIDE DEF T
  <2> QED
    BY ONLY n \in Nat, <1>1, <1>2, UpTo
<1> QED
  BY <1>3 DEF IsGreedy

(* The best choice exists: gain per token, then the order of ties.         *)
LEMMA RatiosCompare ==
  ASSUME NEW g1 \in Nat, NEW g2 \in Nat, NEW g3 \in Nat,
         NEW c1 \in Nat \ {0}, NEW c2 \in Nat \ {0}, NEW c3 \in Nat \ {0},
         g1 * c2 >= g2 * c1, g2 * c3 >= g3 * c2
  PROVE  /\ g1 * c3 >= g3 * c1
         /\ g1 * c2 > g2 * c1 \/ g2 * c3 > g3 * c2 => g1 * c3 > g3 * c1
<1>1. /\ (g1 * c2) * c3 = c2 * (g1 * c3) /\ (g2 * c1) * c3 = (g2 * c3) * c1 /\ (g3 * c2) * c1 = c2 * (g3 * c1)
  OBVIOUS
<1>2. /\ (g1 * c2) * c3 >= (g2 * c1) * c3
      /\ g1 * c2 > g2 * c1 => (g1 * c2) * c3 > (g2 * c1) * c3
  <2>1. g1 * c2 \in Nat /\ g2 * c1 \in Nat
    BY ProductIsNat
  <2> QED
    BY <2>1
<1>3. /\ (g2 * c3) * c1 >= (g3 * c2) * c1
      /\ g2 * c3 > g3 * c2 => (g2 * c3) * c1 > (g3 * c2) * c1
  <2>1. g2 * c3 \in Nat /\ g3 * c2 \in Nat
    BY ProductIsNat
  <2> QED
    BY <2>1
<1> DEFINE x == g1 * c3
           y == g3 * c1
<1>4. x \in Nat /\ y \in Nat
  BY ProductIsNat
<1>5. /\ c2 * x >= c2 * y
      /\ g1 * c2 > g2 * c1 \/ g2 * c3 > g3 * c2 => c2 * x > c2 * y
  BY <1>1, <1>2, <1>3
<1> HIDE DEF x, y
<1>6. /\ c2 * x >= c2 * y => x >= y
      /\ c2 * x > c2 * y => x > y
  BY <1>4
<1> QED
  BY <1>5, <1>6 DEF x, y

(* A round with useful choices takes one of them.                          *)
LEMMA BestIsTaken ==
  ASSUME NEW records, NEW s, NEW useful, IsFiniteSet(useful), useful # {},
         \A a \in useful : /\ a.gain \in Nat /\ a.cost \in Nat \ {0}
                           /\ a.id \in Nat /\ records[a.id].path \in Nat /\ records[a.id].span \in Nat,
         \A a, b \in useful : a.id = b.id => a = b
  PROVE  \E a \in useful : TakeBest(records, s, useful) = Admit(s, a.path)
<1> DEFINE Better(a, b) == \/ a.gain * b.cost > b.gain * a.cost
                           \/ a.gain * b.cost = b.gain * a.cost /\ Tie(records, a.id, b.id)
           below == [x \in useful |-> {y \in useful : Better(y, x)}]
<1>1. ASSUME NEW x \in useful, NEW y \in useful
      PROVE  /\ ~Better(x, x)
             /\ x # y => Better(x, y) \/ Better(y, x)
  <2>1. x.gain * y.cost \in Nat /\ y.gain * x.cost \in Nat /\ x.gain * x.cost \in Nat
    BY ProductIsNat
  <2>2. ~Tie(records, x.id, x.id)
    BY DEF Tie
  <2>3. x # y => Tie(records, x.id, y.id) \/ Tie(records, y.id, x.id)
    BY DEF Tie
  <2> QED
    BY <2>1, <2>2, <2>3
<1>2. ASSUME NEW x \in useful, NEW y \in useful, NEW z \in useful, Better(x, y), Better(y, z)
      PROVE  Better(x, z)
  <2>1. /\ x.gain * y.cost \in Nat /\ y.gain * x.cost \in Nat
        /\ y.gain * z.cost \in Nat /\ z.gain * y.cost \in Nat
        /\ x.gain * z.cost \in Nat /\ z.gain * x.cost \in Nat
    BY ProductIsNat
  <2>2. x.gain * y.cost >= y.gain * x.cost /\ y.gain * z.cost >= z.gain * y.cost
    BY <1>2, <2>1
  <2>3. /\ x.gain * z.cost >= z.gain * x.cost
        /\ x.gain * y.cost > y.gain * x.cost \/ y.gain * z.cost > z.gain * y.cost
             => x.gain * z.cost > z.gain * x.cost
    <3>1. /\ x.gain \in Nat /\ y.gain \in Nat /\ z.gain \in Nat
          /\ x.cost \in Nat \ {0} /\ y.cost \in Nat \ {0} /\ z.cost \in Nat \ {0}
      OBVIOUS
    <3> QED
      BY ONLY <2>2, <3>1, RatiosCompare
  <2>4. Tie(records, x.id, y.id) /\ Tie(records, y.id, z.id) => Tie(records, x.id, z.id)
    BY DEF Tie
  <2> QED
    BY <1>2, <2>1, <2>2, <2>3, <2>4
<1>3. IsOrder(below, useful)
  <2> HIDE DEF Better
  <2>1. \A x \in useful : x \notin below[x]
    BY <1>1
  <2>2. \A x, y \in useful : x # y => x \in below[y] \/ y \in below[x]
    BY <1>1
  <2>3. \A x, y \in useful : y \in below[x] => below[y] \subseteq below[x]
    BY <1>2
  <2>4. below \in [useful -> SUBSET useful]
    OBVIOUS
  <2> HIDE DEF below
  <2> QED
    BY <2>1, <2>2, <2>3, <2>4 DEF IsOrder
<1>4. \E a \in useful : below[a] = {}
  <2>1. Cardinality(useful) \in Nat /\ Cardinality(useful) # 0
    BY FS_CardinalityType, FS_EmptySet
  <2>2. 1 \in 1 .. Cardinality(useful)
    BY <2>1
  <2>3. PICK a \in useful : Cardinality(below[a]) = 1 - 1
    <3> HIDE DEF below
    <3> QED
      BY <1>3, <2>2, PlacesAreTaken
  <2>4. below[a] \in SUBSET useful
    OBVIOUS
  <2> HIDE DEF below
  <2>5. IsFiniteSet(below[a])
    BY <2>4, FS_Subset
  <2> QED
    BY <2>3, <2>5, FS_EmptySet
<1>5. \E a \in useful : \A b \in useful \ {a} : Better(a, b)
  <2>1. PICK a \in useful : below[a] = {}
    BY <1>4
  <2>2. \A b \in useful : ~Better(b, a)
    <3> HIDE DEF Better
    <3> QED
      BY <2>1
  <2> HIDE DEF Better
  <2> QED
    BY <1>1, <2>2
<1> DEFINE best == CHOOSE a \in useful : \A b \in useful \ {a} : Better(a, b)
<1>6. best \in useful
  <2> HIDE DEF Better
  <2> QED
    BY <1>5
<1>7. TakeBest(records, s, useful) = Admit(s, best.path)
  BY DEF TakeBest
<1> HIDE DEF best
<1> QED
  BY <1>6, <1>7

(* A round changes only what is selected, excluded and whether it is the   *)
(* last.                                                                   *)
LEMMA RoundSelectsMore ==
  ASSUME NEW input, NEW limit, NEW s, IsPacking(s)
  PROVE  LET next == StepOf(input, limit, s) IN
         IsPacking(next) /\ next.residual = s.residual /\ s.selected \subseteq next.selected
<1> DEFINE next == StepOf(input, limit, s)
<1>1. CASE s.over
  BY <1>1 DEF StepOf
<1>2. CASE ~s.over
  <2>1. next = Round(input, limit, s)
    BY <1>2 DEF StepOf
  <2>2. PICK e, useful : Round(input, limit, s) = TakeBest(input.records, [s EXCEPT !.excluded = e], useful)
    BY DEF Round
  <2> DEFINE barred == [s EXCEPT !.excluded = e]
  <2>3. barred = Packing(s.selected, s.residual, e, s.over)
    BY DEF IsPacking, Packing
  <2>4. \/ next = [barred EXCEPT !.over = TRUE]
        \/ \E path : next = Admit(barred, path)
    BY <2>1, <2>2 DEF TakeBest
  <2> HIDE DEF next, barred
  <2>5. CASE next = [barred EXCEPT !.over = TRUE]
    <3>1. next = Packing(s.selected, s.residual, e, TRUE)
      BY <2>3, <2>5 DEF Packing
    <3> QED
      BY <3>1 DEF IsPacking, Packing, next
  <2>6. CASE \E path : next = Admit(barred, path)
    <3>1. PICK path : next = Admit(barred, path)
      BY <2>6
    <3>2. \E rest : next = Packing(s.selected \cup ToSet(path), s.residual, rest, s.over)
      BY <2>3, <3>1 DEF Admit, Packing
    <3> QED
      BY <3>2 DEF IsPacking, Packing, next
  <2> QED
    BY <2>4, <2>5, <2>6
<1> QED
  BY <1>1, <1>2

(* Finitely many anchors are listed.                                       *)
LEMMA AnchorsAreCounted ==
  ASSUME NEW records, NEW anchors, IsFiniteSet(anchors)
  PROVE  LET present == Cardinality(anchors \cap DOMAIN records)
             absent == Cardinality(anchors \ DOMAIN records)
         IN  present \in Nat /\ absent \in Nat /\ Len(Anchors(records, anchors)) = present + absent
<1> DEFINE D == DOMAIN records
           present == Ordered(anchors \cap D, LAMBDA x, y : Tie(records, x, y))
           absent == Ordered(anchors \ D, <)
<1> HIDE DEF present, absent
<1>1. Cardinality(anchors \cap D) \in Nat /\ Cardinality(anchors \ D) \in Nat
  <2>1. IsFiniteSet(anchors \cap D) /\ IsFiniteSet(anchors \ D)
    BY FS_Subset
  <2> QED
    BY <2>1, FS_CardinalityType
<1>2. present \in [1 .. Cardinality(anchors \cap D) -> {present[n] : n \in 1 .. Cardinality(anchors \cap D)}]
  <2> DEFINE S == anchors \cap D
  <2>1. present = [n \in 1 .. Cardinality(S) |-> CHOOSE x \in S : Cardinality({y \in S : Tie(records, y, x)}) = n - 1]
    BY DEF Ordered, present
  <2> HIDE DEF S
  <2>2. present \in [1 .. Cardinality(S) -> {present[n] : n \in 1 .. Cardinality(S)}]
    BY <2>1
  <2> QED
    BY <2>2 DEF S
<1>3. absent \in [1 .. Cardinality(anchors \ D) -> {absent[n] : n \in 1 .. Cardinality(anchors \ D)}]
  <2> DEFINE S == anchors \ D
  <2>1. absent = [n \in 1 .. Cardinality(S) |-> CHOOSE x \in S : Cardinality({y \in S : y < x}) = n - 1]
    BY DEF Ordered, absent
  <2> HIDE DEF S
  <2>2. absent \in [1 .. Cardinality(S) -> {absent[n] : n \in 1 .. Cardinality(S)}]
    BY <2>1
  <2> QED
    BY <2>2 DEF S
<1>4. Anchors(records, anchors) = present \o absent
  BY DEF Anchors, present, absent
<1>5. ASSUME NEW m \in Nat, NEW k \in Nat, NEW s, NEW t,
             s \in [1 .. m -> {s[n] : n \in 1 .. m}], t \in [1 .. k -> {t[n] : n \in 1 .. k}]
      PROVE  Len(s \o t) = m + k
  <2> DEFINE A == {s[n] : n \in 1 .. m} \cup {t[n] : n \in 1 .. k}
  <2>1. s \in [1 .. m -> A] /\ t \in [1 .. k -> A]
    BY <1>5
  <2> HIDE DEF A
  <2>2. s \in Seq(A) /\ Len(s) = m /\ t \in Seq(A) /\ Len(t) = k
    BY <2>1
  <2> QED
    BY <2>2
<1> DEFINE m == Cardinality(anchors \cap D)
           k == Cardinality(anchors \ D)
<1>6. /\ m \in Nat /\ k \in Nat
      /\ present \in [1 .. m -> {present[n] : n \in 1 .. m}]
      /\ absent \in [1 .. k -> {absent[n] : n \in 1 .. k}]
  BY <1>1, <1>2, <1>3
<1> HIDE DEF m, k
<1>7. Len(present \o absent) = m + k
  BY <1>5, <1>6
<1> QED
  BY <1>4, <1>6, <1>7 DEF m, k

(* An input has one anchor at most, and nothing is selected before it.     *)
LEMMA AnchorsAreFew ==
  ASSUME NEW records, NEW a, NEW anchors \in SUBSET {a}
  PROVE  Len(Anchors(records, anchors)) \in {0, 1}
<1> DEFINE D == DOMAIN records
<1>1. \A S \in SUBSET {a} : IsFiniteSet(S) /\ (Cardinality(S) = 0 \/ Cardinality(S) = 1)
  <2> SUFFICES ASSUME NEW S \in SUBSET {a}  PROVE IsFiniteSet(S) /\ (Cardinality(S) = 0 \/ Cardinality(S) = 1)
    OBVIOUS
  <2>1. S = {} \/ S = {a}
    OBVIOUS
  <2>2. IsFiniteSet({}) /\ Cardinality({}) = 0 /\ IsFiniteSet({a}) /\ Cardinality({a}) = 1
    BY FS_EmptySet, FS_Singleton
  <2> QED
    BY <2>1, <2>2
<1>2. Cardinality(anchors \cap D) + Cardinality(anchors \ D) \in {0, 1}
  <2>1. CASE a \in D
    <3>1. anchors \ D = {} /\ anchors \cap D = anchors
      BY <2>1
    <3> QED
      BY <1>1, <3>1, FS_EmptySet
  <2>2. CASE a \notin D
    <3>1. anchors \cap D = {} /\ anchors \ D = anchors
      BY <2>2
    <3> QED
      BY <1>1, <3>1, FS_EmptySet
  <2> QED
    BY <2>1, <2>2
<1>3. Len(Anchors(records, anchors)) = Cardinality(anchors \cap D) + Cardinality(anchors \ D)
  BY <1>1, AnchorsAreCounted
<1> QED
  BY <1>2, <1>3

(* What a required anchor comes to depends on the records only.            *)
LEMMA AnchorIsRequired ==
  ASSUME NEW p, NEW q, SameButScores(p, q), NEW limit, NEW anchor
  PROVE  LET s == RequireAnchor(p, limit, Start, anchor) IN
         /\ RequireAnchor(q, limit, Start, anchor) = s
         /\ IsPacking(s) /\ ~s.over
         /\ s.selected = {} \/ s.selected \cap DOMAIN p.records # {}
<1> DEFINE s == RequireAnchor(p, limit, Start, anchor)
<1>1. RequireAnchor(q, limit, Start, anchor) = s
  BY DEF RequireAnchor, SameButScores
<1>2. Start.selected = {}
  BY DEF Start
<1>3. \/ \E r : s = [Start EXCEPT !.residual = r]
      \/ \E e, r : s = [Start EXCEPT !.excluded = e, !.residual = r]
      \/ anchor \in DOMAIN p.records /\ s = Admit(Start, <<anchor>>)
  BY <1>2 DEF RequireAnchor
<1>4. IsPacking(s) /\ ~s.over /\ (s.selected = {} \/ s.selected \cap DOMAIN p.records # {})
  <2> DEFINE start == Start
  <2>1. IsPacking(start) /\ start.selected = {} /\ ~start.over
    BY DEF Start, IsPacking, Packing
  <2> HIDE DEF start, s
  <2>2. PICK A, b, c, d : start = Packing(A, b, c, d) /\ A = {} /\ ~d
    BY <2>1 DEF IsPacking, Packing
  <2>3. \/ \E r : s = [start EXCEPT !.residual = r]
        \/ \E e, r : s = [start EXCEPT !.excluded = e, !.residual = r]
        \/ anchor \in DOMAIN p.records /\ \E e : s = [start EXCEPT !.selected = {anchor}, !.excluded = e]
    <3>1. ToSet(<<anchor>>) = {anchor}
      BY DEF ToSet
    <3>2. \E e : Admit(start, <<anchor>>) = [start EXCEPT !.selected = {anchor}, !.excluded = e]
      BY <2>1, <3>1 DEF Admit
    <3>3. \/ \E r : s = [start EXCEPT !.residual = r]
          \/ \E e, r : s = [start EXCEPT !.excluded = e, !.residual = r]
          \/ anchor \in DOMAIN p.records /\ s = Admit(start, <<anchor>>)
      BY <1>3 DEF start
    <3> QED
      BY <3>2, <3>3
  <2>4. \/ \E r, e : s = Packing(A, r, e, d)
        \/ anchor \in DOMAIN p.records /\ \E r, e : s = Packing({anchor}, r, e, d)
    <3>1. ASSUME NEW r, s = [start EXCEPT !.residual = r]
          PROVE  s = Packing(A, r, c, d)
      BY <2>2, <3>1 DEF Packing
    <3>2. ASSUME NEW e, NEW r, s = [start EXCEPT !.excluded = e, !.residual = r]
          PROVE  s = Packing(A, r, e, d)
      BY <2>2, <3>2 DEF Packing
    <3>3. ASSUME NEW e, s = [start EXCEPT !.selected = {anchor}, !.excluded = e]
          PROVE  s = Packing({anchor}, b, e, d)
      BY <2>2, <3>3 DEF Packing
    <3> QED
      BY <2>3, <3>1, <3>2, <3>3
  <2> QED
    BY <2>2, <2>4 DEF IsPacking, Packing
<1> QED
  BY <1>1, <1>4 DEF s

(* So do all of them.                                                      *)
LEMMA RequiredAlike ==
  ASSUME NEW p, NEW q, SameButScores(p, q), NEW limit, NEW a, p.anchors \in SUBSET {a}
  PROVE  LET s == Required(p, limit) IN
         /\ Required(q, limit) = s
         /\ IsPacking(s) /\ ~s.over
         /\ s.selected = {} \/ s.selected \cap DOMAIN p.records # {}
<1> DEFINE anchors == Anchors(p.records, p.anchors)
           n == Len(anchors)
           one == RequireAnchor(p, limit, Start, anchors[1])
<1>1. n \in {0, 1}
  BY AnchorsAreFew
<1>2. Anchors(q.records, q.anchors) = anchors
  BY DEF SameButScores
<1> HIDE DEF anchors
<1>3. ASSUME NEW input, input \in {p, q}
      PROVE  Required(input, limit) = IF n = 0 THEN Start ELSE one
  <2> DEFINE Body(s) == [k \in 0 .. n |-> IF k = 0 THEN Start ELSE RequireAnchor(input, limit, s[k - 1], anchors[k])]
             first == RequireAnchor(input, limit, Start, anchors[1])
             f == [k \in 0 .. n |-> IF k = 0 THEN Start ELSE first]
             s == CHOOSE g : g = Body(g)
  <2>1. Anchors(input.records, input.anchors) = anchors
    BY <1>2, <1>3 DEF anchors
  <2>2. Required(input, limit) = s[n]
    BY <2>1 DEF Required
  <2>3. f = Body(f)
    <3> HIDE DEF n
    <3> QED
      BY <1>1
  <2>4. s = Body(s)
    <3> HIDE DEF Body, f
    <3> QED
      BY <2>3
  <2>5. first = one
    BY <1>3, AnchorIsRequired
  <2> HIDE DEF s, n, first, one
  <2>6. s[0] = Start /\ (n = 1 => s[1] = first)
    BY <1>1, <2>4 DEF first
  <2> QED
    BY <1>1, <2>2, <2>5, <2>6
<1>4. IsPacking(Start) /\ ~Start.over /\ Start.selected = {}
  BY DEF IsPacking, Packing, Start
<1> HIDE DEF n
<1>5. /\ IsPacking(one) /\ ~one.over
      /\ one.selected = {} \/ one.selected \cap DOMAIN p.records # {}
  BY AnchorIsRequired
<1> HIDE DEF one
<1> QED
  BY <1>3, <1>4, <1>5

(* The rounds keep what is residual, and select no less than the first.    *)
LEMMA CompletedSelectsMore ==
  ASSUME NEW A, NEW input, input.candidates \in Seq(A), NEW limit, NEW first, IsPacking(first)
  PROVE  LET one == StepOf(input, limit, first)
             last == Completed(input, limit, first)
         IN  /\ IsPacking(last) /\ last.residual = first.residual
             /\ first.selected \subseteq one.selected /\ one.selected \subseteq last.selected
             /\ one.over => last = one
<1> DEFINE one == StepOf(input, limit, first)
           n == Len(input.candidates) + 1
           Body(s) == [k \in 0 .. n |-> IF k = 0 THEN first ELSE StepOf(input, limit, s[k - 1])]
           f == CHOOSE s : s = Body(s)
           Holds(s) == /\ IsPacking(s) /\ s.residual = first.residual /\ one.selected \subseteq s.selected
                       /\ one.over => s = one
<1>1. n \in Nat /\ n # 0
  OBVIOUS
<1>2. Completed(input, limit, first) = f[n]
  BY DEF Completed, StepOf
<1> HIDE DEF n
<1>3. f = Body(f)
  <2>1. \E s : s = Body(s)
    <3>1. PICK s : IsGreedy(s, input, limit, first, n)
      BY <1>1, GreedyExists
    <3> QED
      BY <3>1 DEF IsGreedy
  <2> HIDE DEF Body
  <2> QED
    BY <2>1
<1> HIDE DEF f
<1>4. /\ f[0] = first
      /\ \A k \in 1 .. n : f[k] = StepOf(input, limit, f[k - 1])
  <2>1. \A k \in 1 .. n : k \in 0 .. n /\ k # 0
    BY <1>1
  <2>2. 0 \in 0 .. n
    BY <1>1
  <2>3. \A k \in 0 .. n : f[k] = IF k = 0 THEN first ELSE StepOf(input, limit, f[k - 1])
    BY <1>3
  <2> HIDE DEF Body
  <2> QED
    BY <2>1, <2>2, <2>3
<1>5. Holds(one) /\ first.selected \subseteq one.selected
  BY RoundSelectsMore
<1>6. ASSUME NEW s, Holds(s)
      PROVE  Holds(StepOf(input, limit, s))
  <2> DEFINE next == StepOf(input, limit, s)
  <2>1. IsPacking(next) /\ next.residual = s.residual /\ s.selected \subseteq next.selected
    BY <1>6, RoundSelectsMore
  <2>2. s.over => next = s
    BY DEF StepOf
  <2> HIDE DEF next, one
  <2>3. Holds(next)
    BY <1>6, <2>1, <2>2
  <2> QED
    BY <2>3 DEF next
<1> HIDE DEF Holds
<1> DEFINE T == {k \in 0 .. n : k # 0 => Holds(f[k])}
<1>7. 0 .. n \subseteq T
  <2>1. 0 \in T
    BY <1>1
  <2>2. ASSUME NEW k \in 1 .. n, k - 1 \in T
        PROVE  k \in T
    <3>1. k \in 0 .. n /\ f[k] = StepOf(input, limit, f[k - 1])
      BY <1>4
    <3>2. CASE k = 1
      BY <1>4, <1>5, <3>1, <3>2
    <3>3. CASE k # 1
      <4>1. Holds(f[k - 1])
        BY <2>2, <3>3
      <4> QED
        BY <1>6, <3>1, <4>1
    <3> QED
      BY <3>2, <3>3
  <2> HIDE DEF T
  <2> QED
    BY ONLY <1>1, <2>1, <2>2, UpTo
<1>8. Holds(f[n])
  <2>1. n \in T
    <3> HIDE DEF T
    <3> QED
      BY <1>1, <1>7
  <2> QED
    BY <1>1, <2>1
<1> QED
  BY <1>2, <1>5, <1>8 DEF Holds

(* A candidate gains as long as nothing is selected, for it covers what it *)
(* has to.                                                                 *)
LEMMA FirstGains ==
  ASSUME NEW documents, NEW p, IsRetrieved(p, documents), NEW c \in ToSet(p.candidates)
  PROVE  Utility(p, {}, c) \in Nat \ {0}
<1> DEFINE record == p.records[c.id]
<1>1. c.id \in DOMAIN p.records
  BY DEF IsRetrieved
<1>2. record.obligations = p.obligations /\ record.penalty = 0
  BY <1>1 DEF IsRetrieved
<1>3. Covered(p.records, {}) = {} /\ PathsOf(p.records, {}) = {}
  BY DEF Covered, PathsOf
<1>4. Cardinality(p.obligations) \in Nat \ {0}
  BY FS_CardinalityType, FS_EmptySet DEF IsRetrieved
<1>5. c.scores.graph \in Nat /\ c.scores.semantic \in Nat /\ c.scores.rrf \in Nat
  BY DEF IsRetrieved, AreCandidates, AllCandidates
<1> DEFINE gain == Cardinality(p.obligations) * 1000000 + 100000
                     + (IF c.provenance = "Syntax" THEN 20000 ELSE 10000)
                     + Lesser(c.scores.graph, 50000) + Lesser(c.scores.semantic, 9999) + Lesser(c.scores.rrf, 9999)
<1>6. gain \in Nat \ {0}
  <2>2. Lesser(c.scores.graph, 50000) \in Nat /\ Lesser(c.scores.semantic, 9999) \in Nat /\ Lesser(c.scores.rrf, 9999) \in Nat
    BY <1>5 DEF Lesser
  <2> QED
    BY <1>4, <2>2
<1>7. Utility(p, {}, c) = Minus(gain, 0 + Lesser(0, 9999))
  BY <1>2, <1>3 DEF Utility
<1>8. 0 + Lesser(0, 9999) = 0
  BY DEF Lesser
<1> HIDE DEF gain
<1> QED
  BY <1>6, <1>7, <1>8 DEF Minus

(* The first round, if nothing is selected before it, selects a candidate  *)
(* that fits alone; if there is none it is the last.                       *)
LEMMA FirstRoundSelects ==
  ASSUME NEW documents, NEW p, IsRetrieved(p, documents), NEW limit, NEW s, IsPacking(s), s.selected = {}
  PROVE  LET one == Round(p, limit, s) IN
         IF \E id \in DOMAIN p.records : FitsBudget({id}, limit)
         THEN one.selected \cap DOMAIN p.records # {}
         ELSE one.over /\ one.selected = {}
<1> DEFINE open == Open(p, s)
           affordable == Affordable(s, limit, open)
           barred == [s EXCEPT !.excluded = Excluded(s, open, affordable)]
           useful == {c \in {Choice(p, s, o) : o \in affordable} : c.gain > 0}
           Alone(c) == [candidate |-> c, path |-> <<c.id>>]
           C == ToSet(p.candidates)
<1>1. Round(p, limit, s) = TakeBest(p.records, barred, useful)
  BY DEF Round
<1>2. barred.selected = {} /\ IsPacking(barred)
  <2> DEFINE e == Excluded(s, open, affordable)
  <2>1. PICK a, b, c, d : s = Packing(a, b, c, d) /\ a = {}
    BY DEF IsPacking
  <2> HIDE DEF e
  <2>2. ASSUME NEW u, u = [s EXCEPT !.excluded = e]
        PROVE  u = Packing(a, b, e, d)
    BY <2>1, <2>2 DEF Packing
  <2> QED
    BY <2>1, <2>2 DEF IsPacking, Packing, e
<1>3. open = {Alone(c) : c \in C}
  BY DEF Open, IsRetrieved
<1>4. \A c \in C : c.id \in DOMAIN p.records /\ c.id \in IdsOf(documents)
  BY DEF IsRetrieved, AreCandidates, AllCandidates
<1>5. affordable = {Alone(c) : c \in {c \in C : FitsBudget({c.id}, limit)}}
  <2>1. \A c \in C : With(s, Alone(c)) = {c.id} /\ Alone(c).path # Missing
    <3>1. \A c \in C : ToSet(<<c.id>>) = {c.id}
      BY DEF ToSet
    <3>2. \A c \in C : <<c.id>> # Missing
      BY <1>4 DEF IsRetrieved
    <3> QED
      BY <3>1, <3>2 DEF With
  <2> HIDE DEF open, Alone, C
  <2> QED
    BY <1>3, <2>1 DEF Affordable
<1> HIDE DEF open, affordable, barred
<1>6. ASSUME NEW o \in affordable
      PROVE  With(s, o) = {o.candidate.id} /\ o = Alone(o.candidate) /\ o.path = <<o.candidate.id>> /\ o.candidate \in C
  <2>1. PICK c \in C : o = Alone(c)
    BY <1>5
  <2>2. o.candidate = c /\ o.path = <<c.id>>
    BY <2>1
  <2>3. ToSet(<<c.id>>) = {c.id}
    BY DEF ToSet
  <2> HIDE DEF C
  <2> QED
    BY <2>1, <2>2, <2>3 DEF With
<1>7. ASSUME NEW o \in affordable
      PROVE  /\ Choice(p, s, o).gain \in Nat \ {0} /\ Choice(p, s, o).cost \in Nat \ {0}
             /\ Choice(p, s, o).id = o.candidate.id /\ Choice(p, s, o).path = o.path
  <2>1. With(s, o) \subseteq IdsOf(documents) /\ {} \subseteq IdsOf(documents)
    <3> HIDE DEF C
    <3> QED
      BY <1>4, <1>6
  <2>2. Tokens(With(s, o)) \in Nat /\ Tokens(s.selected) \in Nat
    BY <2>1 DEF IsRetrieved
  <2>3. Utility(p, s.selected, o.candidate) \in Nat \ {0}
    BY <1>6, FirstGains
  <2> QED
    BY <2>2, <2>3 DEF Choice
<1>8. useful = {Choice(p, s, o) : o \in affordable}
  BY <1>7
<1>9. IsFiniteSet(useful)
  <2> DEFINE choice == [c \in C |-> Choice(p, s, Alone(c))]
  <2>1. IsFiniteSet(C)
    BY ElementsAreFinite DEF IsRetrieved, AreCandidates
  <2>2. useful \subseteq {choice[c] : c \in C}
    <3> HIDE DEF C, Alone, useful
    <3> QED
      BY <1>5, <1>8
  <2> HIDE DEF C, choice, useful
  <2>3. IsFiniteSet({choice[c] : c \in C})
    BY <2>1, ImageIsFinite
  <2> QED
    BY <2>2, <2>3, FS_Subset
<1>10. \A a \in useful : /\ a.gain \in Nat /\ a.cost \in Nat \ {0} /\ a.id \in DOMAIN p.records /\ a.path = <<a.id>>
  <2> HIDE DEF useful, C
  <2> QED
    BY <1>4, <1>6, <1>7, <1>8
<1>11. \A a, b \in useful : a.id = b.id => a = b
  <2>1. \A c, e \in C : c.id = e.id => c = e
    BY DEF IsRetrieved, AreCandidates
  <2>2. \A o, r \in affordable : o.candidate.id = r.candidate.id => o = r
    <3> HIDE DEF C, Alone
    <3> QED
      BY <1>6, <2>1
  <2> HIDE DEF useful, C
  <2> QED
    BY <1>7, <1>8, <2>2
<1>12. (\E id \in DOMAIN p.records : FitsBudget({id}, limit)) <=> useful # {}
  <2>1. DOMAIN p.records = {c.id : c \in C}
    BY DEF IsRetrieved
  <2>2. affordable # {} <=> \E c \in C : FitsBudget({c.id}, limit)
    <3> HIDE DEF C, Alone
    <3> QED
      BY <1>5
  <2> HIDE DEF useful, C
  <2> QED
    BY <1>8, <2>1, <2>2
<1> HIDE DEF useful
<1>13. CASE useful = {}
  <2>1. Round(p, limit, s) = [barred EXCEPT !.over = TRUE]
    BY <1>1, <1>13 DEF TakeBest
  <2>2. PICK a, b, c, d : barred = Packing(a, b, c, d) /\ a = {}
    BY <1>2 DEF IsPacking
  <2>3. ASSUME NEW u, u = [barred EXCEPT !.over = TRUE]
        PROVE  u.over /\ u.selected = {}
    BY <2>2, <2>3 DEF Packing
  <2> QED
    BY <1>12, <1>13, <2>1, <2>3
<1>14. CASE useful # {}
  <2>1. PICK a \in useful : TakeBest(p.records, barred, useful) = Admit(barred, a.path)
    <3>1. \A a \in useful : a.id \in Nat /\ p.records[a.id].path \in Nat /\ p.records[a.id].span \in Nat
      <4>1. \A id \in IdsOf(documents) : id \in Nat
        BY DEF IsRetrieved, AreDocuments, IdsOf
      <4>2. DOMAIN p.records \subseteq IdsOf(documents)
        BY DEF IsRetrieved, AreCandidates, AllCandidates
      <4> QED
        BY <1>10, <4>1, <4>2 DEF IsRetrieved
    <3> QED
      BY <1>9, <1>10, <1>11, <1>14, <3>1, BestIsTaken
  <2>2. ToSet(a.path) = {a.id} /\ a.id \in DOMAIN p.records
    <3>1. a.path = <<a.id>> /\ a.id \in DOMAIN p.records
      BY <1>10
    <3> QED
      BY <3>1 DEF ToSet
  <2>3. PICK A, b, c, d : barred = Packing(A, b, c, d) /\ A = {}
    BY <1>2 DEF IsPacking
  <2>4. ASSUME NEW e, NEW u, u = [barred EXCEPT !.selected = {a.id}, !.excluded = e]
        PROVE  u.selected = {a.id}
    BY <2>3, <2>4 DEF Packing
  <2>5. \E e : Admit(barred, a.path) = [barred EXCEPT !.selected = {a.id}, !.excluded = e]
    BY <1>2, <2>2 DEF Admit
  <2>6. Round(p, limit, s).selected = {a.id}
    BY <1>1, <2>1, <2>4, <2>5
  <2> QED
    BY <1>12, <1>14, <2>2, <2>6
<1> QED
  BY <1>13, <1>14

(* Whatever is selected of the records covers all or nothing.              *)
LEMMA CoveredIsAll ==
  ASSUME NEW documents, NEW p, IsRetrieved(p, documents), NEW ids
  PROVE  Covered(p.records, ids) = IF ids \cap DOMAIN p.records # {} THEN p.obligations ELSE {}
<1>1. \A id \in ids \cap DOMAIN p.records : p.records[id].obligations = p.obligations
  BY DEF IsRetrieved
<1> QED
  BY <1>1 DEF Covered

(* Packing completes to the same obligations whatever the scores.          *)
LEMMA CompletedCovers ==
  ASSUME NEW documents, NEW p, IsRetrieved(p, documents), NEW limit, NEW first, IsPacking(first), ~first.over,
         first.selected = {} \/ first.selected \cap DOMAIN p.records # {}
  PROVE  LET last == Completed(p, limit, first) IN
         /\ last.residual = first.residual
         /\ last.selected \cap DOMAIN p.records # {} <=>
              first.selected # {} \/ \E id \in DOMAIN p.records : FitsBudget({id}, limit)
<1> DEFINE one == StepOf(p, limit, first)
           last == Completed(p, limit, first)
<1>1. /\ last.residual = first.residual
      /\ first.selected \subseteq one.selected /\ one.selected \subseteq last.selected
      /\ one.over => last = one
  <2>1. p.candidates \in Seq(ToSet(p.candidates))
    BY DEF IsRetrieved, AreCandidates
  <2> QED
    BY <2>1, CompletedSelectsMore
<1>2. one = Round(p, limit, first)
  BY DEF StepOf
<1> HIDE DEF one, last
<1>3. first.selected # {} => last.selected \cap DOMAIN p.records # {}
  BY <1>1
<1>4. ASSUME first.selected = {}
      PROVE  last.selected \cap DOMAIN p.records # {} <=> \E id \in DOMAIN p.records : FitsBudget({id}, limit)
  <2>1. IF \E id \in DOMAIN p.records : FitsBudget({id}, limit)
        THEN one.selected \cap DOMAIN p.records # {}
        ELSE one.over /\ one.selected = {}
    BY <1>2, <1>4, FirstRoundSelects
  <2> QED
    BY <1>1, <1>4, <2>1
<1> QED
  BY <1>1, <1>3, <1>4 DEF last

(* So the obligations that are covered and those that are residual are the *)
(* same of two inputs that differ in scores.                               *)
LEMMA SameVerdicts ==
  ASSUME NEW documents, NEW p, NEW q, IsRetrieved(p, documents), IsRetrieved(q, documents), SameButScores(p, q),
         NEW limit
  PROVE  /\ Covered(p.records, Pack(p, limit).records) = Covered(q.records, Pack(q, limit).records)
         /\ Pack(p, limit).residual = Pack(q, limit).residual
<1> DEFINE first == Required(p, limit)
           Left == first.selected # {} \/ \E id \in DOMAIN p.records : FitsBudget({id}, limit)
           covered == IF Left THEN p.obligations ELSE {}
<1>1. /\ Required(q, limit) = first
      /\ IsPacking(first) /\ ~first.over
      /\ first.selected = {} \/ first.selected \cap DOMAIN p.records # {}
  <2>1. PICK a : p.anchors \in SUBSET {a}
    BY DEF IsRetrieved
  <2> QED
    BY <2>1, RequiredAlike
<1>2. p.records = q.records /\ p.obligations = q.obligations
  BY DEF SameButScores
<1> HIDE DEF first
<1>3. ASSUME NEW input, input \in {p, q}
      PROVE  /\ Covered(input.records, Pack(input, limit).records) = covered
             /\ Pack(input, limit).residual =
                  AddResidual({r \in first.residual : r.obligation \notin covered}, p.obligations \ covered, "NOT_PACKED")
  <2> DEFINE last == Completed(input, limit, first)
             theirs == Covered(input.records, last.selected)
  <2>1. Required(input, limit) = first
    BY <1>1, <1>3 DEF first
  <2>2. Pack(input, limit) = Packed(input, last, theirs)
    BY <2>1 DEF Pack
  <2>3. /\ IsRetrieved(input, documents) /\ input.records = p.records /\ input.obligations = p.obligations
    BY <1>2, <1>3
  <2>4. last.residual = first.residual /\ (last.selected \cap DOMAIN input.records # {} <=> Left)
    <3>1. first.selected = {} \/ first.selected \cap DOMAIN input.records # {}
      BY <1>1, <2>3
    <3>2. /\ last.residual = first.residual
          /\ last.selected \cap DOMAIN input.records # {} <=>
               first.selected # {} \/ \E id \in DOMAIN input.records : FitsBudget({id}, limit)
      <4> HIDE DEF theirs, Left, covered
      <4>1. IsRetrieved(input, documents) /\ IsPacking(first) /\ ~first.over
        BY <1>1, <2>3
      <4> QED
        BY <3>1, <4>1, CompletedCovers
    <3> QED
      BY <2>3, <3>2
  <2>5. theirs = covered
    BY <2>3, <2>4, CoveredIsAll
  <2>6. /\ Pack(input, limit).records = last.selected
        /\ Pack(input, limit).residual =
             AddResidual({r \in last.residual : r.obligation \notin theirs}, input.obligations \ theirs, "NOT_PACKED")
    BY <2>2 DEF Packed
  <2> HIDE DEF last, covered
  <2> QED
    BY <2>3, <2>4, <2>5, <2>6
<1> HIDE DEF covered
<1> QED
  BY <1>3

(* The obligations of a task are few.                                      *)
LEMMA ObligationsAreFew ==
  ASSUME NEW class
  PROVE  IsFiniteSet(Obligations(class)) /\ Obligations(class) # {}
<1> DEFINE K == Kinds(class)
           obligation == [k \in K |-> <<"O", k>>]
<1>1. K = {1, 5, 6} \/ K = 1 .. 6
  BY DEF Kinds
<1>2. K \subseteq 1 .. 6 /\ 1 \in K
  BY <1>1
<1>3. Obligations(class) = {obligation[k] : k \in K}
  BY DEF Obligations
<1> HIDE DEF K, obligation
<1>4. IsFiniteSet(1 .. 6)
  <2>1. \A n \in Nat : IsFiniteSet(1 .. n)
    BY FS_Interval
  <2> QED
    BY <2>1
<1>5. IsFiniteSet(K)
  BY <1>2, <1>4, FS_Subset
<1>6. IsFiniteSet({obligation[k] : k \in K})
  BY <1>5, ImageIsFinite
<1> QED
  BY <1>2, <1>3, <1>6

(* What is prepared without roots is as retrieval made it.                 *)
LEMMA PreparedIsRetrieved ==
  ASSUME NEW held \in Graphs, NEW req \in Requests, NEW documents, AreDocuments(documents),
         ToSet(documents) \subseteq ToSet(held.documents), NEW arcs, NEW reply \in Scorings
  PROVE  IsRetrieved(PreparedFrom(held, req, documents, arcs, <<>>, reply), documents)
<1> DEFINE found == Retrieve(req.task, req.scope, documents, arcs).candidates
           calls == Only(found, {c \in ToSet(found) : DocumentOf(documents, c.id).kind = "CALLS"})
           list == IF "Calls" \in req.scope.kinds /\ calls # <<>> THEN calls ELSE found
           ranked == Rerank(list, reply)
           p == Prepared(held, req, documents, arcs, <<>>, ranked)
<1>1. PreparedFrom(held, req, documents, arcs, <<>>, reply) = p
  <2>1. Candidates(req.scope, documents, arcs, <<>>, found, reply) = ranked
    BY DEF Candidates, Mapped
  <2> QED
    BY <2>1 DEF PreparedFrom
<1>2. AreCandidates(found, documents)
  BY RequestsAssumption, RetrievedAreCandidates
<1> HIDE DEF found
<1>3. AreCandidates(list, documents)
  <2>1. calls \in Seq(ToSet(found))
    BY <1>2, CountOfOnly DEF AreCandidates
  <2>2. AreCandidates(calls, documents)
    BY <1>2, <2>1, SomeAreCandidates
  <2> HIDE DEF calls
  <2> QED
    BY <1>2, <2>2
<1> HIDE DEF list
<1>4. AreCandidates(ranked.candidates, documents)
  BY <1>3, RerankedAreCandidates
<1> HIDE DEF ranked
<1>5. /\ p.candidates = ranked.candidates
      /\ p.obligations = Obligations(req.task.class)
      /\ DOMAIN p.records = {c.id : c \in ToSet(ranked.candidates)}
      /\ \A id \in DOMAIN p.records :
           /\ p.records[id].obligations = Obligations(req.task.class) /\ p.records[id].penalty = 0
           /\ p.records[id].path = DocumentOf(documents, id).path
           /\ p.records[id].span = DocumentOf(documents, id).span
  BY DEF Prepared
<1>6. \E a : p.anchors \subseteq {a}
  BY DEF Prepared
<1> HIDE DEF p
<1>7. \A id \in DOMAIN p.records : DocumentOf(documents, id).path \in Nat /\ DocumentOf(documents, id).span \in Nat
  <2>1. \A id \in DOMAIN p.records : id \in IdsOf(documents)
    BY <1>4, <1>5 DEF AreCandidates, AllCandidates
  <2>2. \A id \in IdsOf(documents) : DocumentOf(documents, id) \in ToSet(documents)
    BY DEF DocumentOf, IdsOf
  <2> QED
    BY <2>1, <2>2 DEF AreDocuments
<1>8. IsFiniteSet(Obligations(req.task.class)) /\ Obligations(req.task.class) # {}
  BY ObligationsAreFew
<1>9. /\ \A id \in IdsOf(documents) : <<id>> # Missing
      /\ \A ids \in SUBSET IdsOf(documents) : Tokens(ids) \in Nat
  <2>1. \A id \in Nat : <<id>> # Missing
    <3>1. \A id \in Nat : <<id>> \in Seq(Nat)
      OBVIOUS
    <3> QED
      BY <3>1, MissingAssumption
  <2>2. IdsOf(documents) \subseteq Nat
    BY DEF IdsOf, AreDocuments
  <2>3. IdsOf(documents) \subseteq {d.id : d \in ToSet(held.documents)}
    BY DEF IdsOf
  <2> QED
    BY <2>1, <2>2, <2>3, GraphsAssumption
<1> QED
  BY <1>1, <1>4, <1>5, <1>6, <1>7, <1>8, <1>9 DEF IsRetrieved

(* What is prepared without roots differs from what is prepared without a  *)
(* sidecar in scores only.                                                 *)
LEMMA PreparedAreSameButScores ==
  ASSUME NEW documents, NEW p, IsRetrieved(p, documents), NEW plain, IsRetrieved(plain, documents),
         DifferInScores(p, plain)
  PROVE  SameButScores(p, plain)
<1> DEFINE graphic == [i \in DOMAIN p.candidates |-> [p.candidates[i] EXCEPT !.scores.semantic = 0]]
<1>1. graphic = plain.candidates
  BY DEF DifferInScores
<1>2. /\ p.records = plain.records /\ p.obligations = plain.obligations
      /\ p.anchors = plain.anchors /\ p.disconnected = plain.disconnected
  BY DEF DifferInScores
<1>3. \A i \in DOMAIN p.candidates : graphic[i].id = p.candidates[i].id
  <2> SUFFICES ASSUME NEW i \in DOMAIN p.candidates
               PROVE  graphic[i].id = p.candidates[i].id
    OBVIOUS
  <2>1. p.candidates[i] \in AllCandidates(documents)
    BY DEF IsRetrieved, AreCandidates, ToSet
  <2> DEFINE c == p.candidates[i]
  <2>2. graphic[i] = [c EXCEPT !.scores.semantic = 0]
    OBVIOUS
  <2> HIDE DEF graphic, c
  <2>3. [c EXCEPT !.scores.semantic = 0].id = c.id
    BY <2>1 DEF AllCandidates, c
  <2> QED
    BY <2>2, <2>3 DEF c
<1>4. DOMAIN graphic = DOMAIN p.candidates
  OBVIOUS
<1> HIDE DEF graphic
<1> QED
  BY <1>1, <1>2, <1>3, <1>4 DEF SameButScores

(* A part of the documents of a graph are documents.                       *)
LEMMA SomeAreDocuments ==
  ASSUME NEW held \in Graphs, NEW S
  PROVE  /\ AreDocuments(Only(held.documents, S))
         /\ ToSet(Only(held.documents, S)) \subseteq ToSet(held.documents)
<1> DEFINE documents == Only(held.documents, S)
<1>1. held.documents \in Seq(ToSet(held.documents))
  BY GraphsAssumption
<1>2. documents \in Seq(ToSet(held.documents))
  BY <1>1, CountOfOnly
<1> HIDE DEF documents
<1>3. \A i \in DOMAIN documents : documents[i] \in ToSet(held.documents)
  <2> DEFINE A == ToSet(held.documents)
  <2> HIDE DEF A
  <2>1. documents \in Seq(A)
    BY <1>2 DEF A
  <2>2. \A i \in DOMAIN documents : documents[i] \in A
    BY <2>1
  <2> QED
    BY <2>2 DEF A
<1>4. documents \in Seq(ToSet(documents))
  <2>1. documents \in [1 .. Len(documents) -> ToSet(documents)] /\ Len(documents) \in Nat
    BY <1>2 DEF ToSet
  <2> QED
    BY <2>1
<1>5. ToSet(documents) \subseteq ToSet(held.documents)
  BY <1>3 DEF ToSet
<1>6. /\ \A d \in ToSet(held.documents) :
           d.id \in Nat /\ d.path \in Nat /\ d.span \in Nat /\ IsFiniteSet(WordsOf[d.name])
      /\ \A d, e \in ToSet(held.documents) : d.id = e.id => d = e
  BY GraphsAssumption
<1> QED
  BY <1>4, <1>5, <1>6 DEF AreDocuments, documents

(* Whatever the sidecar replies, or if it fails, the candidates and their  *)
(* order are those found without it, and under any budget the same         *)
(* obligations are covered and the same are residual: semantic_rerank.rs,  *)
(* packer.rs.                                                              *)
THEOREM RerankDecides == OrientSpec => []RerankDecidesNoObligation
<1>1. PreparedIsOfRequest => RerankDecidesNoObligation
  <2> SUFFICES ASSUME PreparedIsOfRequest, prepared # Absent,
                      NEW plain, plain = Preparation(stored, request, <<>>)
               PROVE  /\ DifferInScores(prepared, plain)
                      /\ \A b \in Budgets :
                           /\ Covered(prepared.records, Pack(prepared, b).records) = Covered(plain.records, Pack(plain, b).records)
                           /\ Pack(prepared, b).residual = Pack(plain, b).residual
    BY DEF RerankDecidesNoObligation
  <2>1. PICK reply \in Scorings : prepared = Preparation(stored, request, reply)
    BY DEF PreparedIsOfRequest
  <2>2. stored \in Graphs /\ request \in Requests
    BY DEF PreparedIsOfRequest
  <2> DEFINE documents == Only(stored.documents, {d \in ToSet(stored.documents) : PathInScope(d.path, request.scope)})
             live == {d.id : d \in {d \in ToSet(documents) : d.kind = "SYNTAX"}}
             arcs == {a \in stored.arcs : a.kind \in request.scope.kinds /\ {a.source, a.target} \subseteq live
                                            /\ PathInScope(a.path, request.scope)}
             roots == Roots(request.task, documents, arcs)
  <2>3. /\ prepared = PreparedFrom(stored, request, documents, arcs, roots, reply)
        /\ plain = PreparedFrom(stored, request, documents, arcs, roots, <<>>)
    BY <2>1 DEF Preparation, PreparedAmong
  <2>4. AreDocuments(documents) /\ ToSet(documents) \subseteq ToSet(stored.documents)
    BY <2>2, SomeAreDocuments
  <2> HIDE DEF documents, arcs, roots
  <2>5. DifferInScores(prepared, plain)
    BY <2>2, <2>3, <2>4, PreparationsDifferInScores
  <2>6. CASE roots # <<>>
    <3>1. Candidates(request.scope, documents, arcs, roots, Retrieve(request.task, request.scope, documents, arcs).candidates, reply)
            = Candidates(request.scope, documents, arcs, roots, Retrieve(request.task, request.scope, documents, arcs).candidates, <<>>)
      BY <2>6 DEF Candidates, Mapped
    <3>2. prepared = plain
      BY <2>3, <3>1 DEF PreparedFrom
    <3> QED
      BY <2>5, <3>2
  <2>7. CASE roots = <<>>
    <3>1. <<>> \in Scorings
      BY DEF Scorings
    <3>2. IsRetrieved(prepared, documents) /\ IsRetrieved(plain, documents)
      BY <2>2, <2>3, <2>4, <2>7, <3>1, PreparedIsRetrieved
    <3> QED
      BY <2>5, <3>2, PreparedAreSameButScores, SameVerdicts
  <2> QED
    BY <2>6, <2>7
<1> QED
  BY <1>1, PreparedStaysOfRequest, PTL

-----------------------------------------------------------------------------
(* The search for a path *)

(* Records of which the search can be asked.                               *)
AreRecords(records) ==
  /\ IsFiniteSet(DOMAIN records)
  /\ DOMAIN records \subseteq Nat
  /\ \A id \in DOMAIN records : records[id].path \in Nat /\ records[id].span \in Nat

LEMMA AdjacencyIsMutual ==
  ASSUME NEW records, NEW x \in DOMAIN records, NEW y
  PROVE  /\ Adjacent(records, x) \subseteq DOMAIN records
         /\ y \in Adjacent(records, x) <=> y \in DOMAIN records /\ x \in Adjacent(records, y)
  BY DEF Adjacent

(* A set that the records adjacent to its own are all in.                  *)
IsClosed(records, C) == \A x \in C : Adjacent(records, x) \subseteq C

(* What is near grows from the targets by what is adjacent.                *)
LEMMA NearGrows ==
  ASSUME NEW records, AreRecords(records), NEW targets \in SUBSET (DOMAIN records)
  PROVE  LET near == Near(records, targets)
             n == Cardinality(DOMAIN records)
         IN  /\ n \in Nat
             /\ near \in [0 .. n -> SUBSET (DOMAIN records)]
             /\ near[0] = targets
             /\ \A k \in 1 .. n : near[k] = near[k - 1] \cup UNION {Adjacent(records, x) : x \in near[k - 1]}
<1> DEFINE D == DOMAIN records
           n == Cardinality(D)
           More(S) == S \cup UNION {Adjacent(records, x) : x \in S}
           step == [p \in (SUBSET D) \X (1 .. n) |-> More(p[1])]
           Body(s) == [k \in 0 .. n |-> IF k = 0 THEN targets ELSE More(s[k - 1])]
           near == CHOOSE s : s = Body(s)
<1>1. n \in Nat
  BY FS_CardinalityType DEF AreRecords
<1>2. Near(records, targets) = near
  BY DEF Near
<1>3. \A S \in SUBSET D : More(S) \in SUBSET D
  BY DEF Adjacent
<1> HIDE DEF n, More
<1>4. step \in [(SUBSET D) \X (1 .. n) -> SUBSET D]
  BY <1>3
<1>5. PICK f : IsRun(f, SUBSET D, targets, n, step)
  <2> HIDE DEF step
  <2> QED
    BY <1>1, <1>4, RunExists
<1>6. /\ f \in [0 .. n -> SUBSET D]
      /\ \A k \in 0 .. n : f[k] = IF k = 0 THEN targets ELSE More(f[k - 1])
  <2>1. /\ f \in [0 .. n -> SUBSET D]
        /\ \A k \in 0 .. n : f[k] = IF k = 0 THEN targets ELSE step[<<f[k - 1], k>>]
    <3> HIDE DEF step
    <3> QED
      BY <1>5 DEF IsRun
  <2>2. ASSUME NEW k \in 0 .. n, k # 0
        PROVE  step[<<f[k - 1], k>>] = More(f[k - 1])
    <3>1. k - 1 \in 0 .. n /\ k \in 1 .. n
      BY <1>1, <2>2
    <3>2. <<f[k - 1], k>> \in (SUBSET D) \X (1 .. n)
      BY <2>1, <3>1
    <3> QED
      BY <3>2
  <2> HIDE DEF step
  <2> QED
    BY <2>1, <2>2
<1>7. f = Body(f)
  <2>1. f = [k \in 0 .. n |-> f[k]]
    BY <1>6
  <2> QED
    BY <1>6, <2>1
<1>8. near = Body(near)
  <2> HIDE DEF Body
  <2> QED
    BY <1>7
<1> HIDE DEF near
<1>9. \A k \in 0 .. n : near[k] = IF k = 0 THEN targets ELSE More(near[k - 1])
  BY <1>8
<1>10. DOMAIN near = 0 .. n /\ near = [k \in 0 .. n |-> near[k]]
  <2>1. near = [k \in 0 .. n |-> IF k = 0 THEN targets ELSE More(near[k - 1])]
    BY <1>8
  <2> QED
    BY <2>1, <1>9
<1>11. \A k \in 0 .. n : near[k] \in SUBSET D
  <2> DEFINE T == {k \in 0 .. n : near[k] \in SUBSET D}
  <2>1. 0 \in T
    BY <1>1, <1>9
  <2>2. \A k \in 1 .. n : k - 1 \in T => k \in T
    BY <1>1, <1>3, <1>9
  <2>3. 0 .. n \subseteq T
    <3> HIDE DEF T
    <3> QED
      BY <1>1, <2>1, <2>2, UpTo
  <2> QED
    BY <2>3
<1>12. near[0] = targets /\ \A k \in 1 .. n : near[k] = More(near[k - 1])
  BY <1>1, <1>9
<1> QED
  BY <1>1, <1>2, <1>10, <1>11, <1>12 DEF n, More

(* A set that holds the targets and is closed keeps what is near.          *)
LEMMA NearStaysWithin ==
  ASSUME NEW records, AreRecords(records), NEW targets \in SUBSET (DOMAIN records),
         NEW C, targets \subseteq C, IsClosed(records, C)
  PROVE  \A k \in 0 .. Cardinality(DOMAIN records) : Near(records, targets)[k] \subseteq C
<1> DEFINE n == Cardinality(DOMAIN records)
           near == Near(records, targets)
           T == {k \in 0 .. n : near[k] \subseteq C}
<1>1. /\ n \in Nat
      /\ near[0] = targets
      /\ \A k \in 1 .. n : near[k] = near[k - 1] \cup UNION {Adjacent(records, x) : x \in near[k - 1]}
  BY NearGrows
<1> HIDE DEF n, near
<1>2. 0 \in T
  BY <1>1
<1>3. ASSUME NEW k \in 1 .. n, k - 1 \in T  PROVE k \in T
  <2>1. k \in 0 .. n /\ near[k - 1] \subseteq C
    BY <1>3
  <2>2. UNION {Adjacent(records, x) : x \in near[k - 1]} \subseteq C
    BY <2>1 DEF IsClosed
  <2> QED
    BY <1>1, <2>1, <2>2
<1>4. 0 .. n \subseteq T
  <2> HIDE DEF T
  <2> QED
    BY <1>1, <1>2, <1>3, UpTo
<1> QED
  BY <1>4 DEF n, near

(* Some of what is near is closed: all of it after as many steps as there  *)
(* are records, for each step that is not the last one reaches another.    *)
LEMMA NearIsClosed ==
  ASSUME NEW records, AreRecords(records), NEW targets \in SUBSET (DOMAIN records)
  PROVE  \E k \in 0 .. Cardinality(DOMAIN records) : IsClosed(records, Near(records, targets)[k])
<1> DEFINE D == DOMAIN records
           n == Cardinality(D)
           near == Near(records, targets)
           T == {k \in 0 .. n : Cardinality(near[k]) >= k + 1}
<1>1. /\ n \in Nat
      /\ near \in [0 .. n -> SUBSET D]
      /\ near[0] = targets
      /\ \A k \in 1 .. n : near[k] = near[k - 1] \cup UNION {Adjacent(records, x) : x \in near[k - 1]}
  BY NearGrows
<1>2. ASSUME NEW k \in 0 .. n
      PROVE  near[k] \subseteq D /\ IsFiniteSet(near[k]) /\ Cardinality(near[k]) \in Nat /\ Cardinality(near[k]) <= n
  <2>1. near[k] \subseteq D
    BY <1>1
  <2> HIDE DEF near
  <2> QED
    BY <2>1, FS_Subset, FS_CardinalityType DEF AreRecords
<1> HIDE DEF near
<1> SUFFICES ASSUME \A k \in 0 .. n : ~IsClosed(records, near[k])
             PROVE  FALSE
  BY DEF near
<1> HIDE DEF n
<1>3. 0 \in T
  <2>1. targets # {}
    BY <1>1 DEF IsClosed
  <2>2. Cardinality(near[0]) # 0
    BY <1>1, <1>2, <2>1, FS_EmptySet
  <2> QED
    BY <1>1, <1>2, <2>2
<1>4. ASSUME NEW k \in 1 .. n, k - 1 \in T  PROVE k \in T
  <2>1. k \in 0 .. n /\ k - 1 \in 0 .. n /\ Cardinality(near[k - 1]) >= k
    BY <1>1, <1>4
  <2>2. near[k] = near[k - 1] \cup UNION {Adjacent(records, x) : x \in near[k - 1]}
    BY <1>1
  <2>3. near[k - 1] \subseteq near[k] /\ near[k - 1] # near[k]
    BY <2>1, <2>2 DEF IsClosed
  <2>4. Cardinality(near[k - 1]) < Cardinality(near[k])
    BY <1>2, <2>1, <2>3, FS_Subset
  <2> QED
    BY <1>2, <2>1, <2>4
<1>5. 0 .. n \subseteq T
  <2> HIDE DEF T
  <2> QED
    BY <1>1, <1>3, <1>4, UpTo
<1>6. n \in T
  BY <1>1, <1>5
<1> QED
  BY <1>1, <1>2, <1>6

(* Of a set of records the first in the order of ties is one of them.      *)
LEMMA ForemostIsMember ==
  ASSUME NEW records, AreRecords(records), NEW S \in SUBSET (DOMAIN records), S # {}
  PROVE  Foremost(records, S) \in S
<1> DEFINE below == [x \in S |-> {y \in S : Tie(records, y, x)}]
<1>1. IsFiniteSet(S)
  BY FS_Subset DEF AreRecords
<1>2. \A x \in S : x \in Nat /\ records[x].path \in Nat /\ records[x].span \in Nat
  BY DEF AreRecords
<1>3. IsOrder(below, S)
  <2>1. below \in [S -> SUBSET S]
    BY SMT
  <2>2. \A x \in S : x \notin below[x]
    BY <1>2, SMT DEF Tie
  <2>3. \A x, y \in S : x # y => x \in below[y] \/ y \in below[x]
    BY <1>2, SMT DEF Tie
  <2>4. ASSUME NEW x \in S, NEW y \in S, NEW z \in S, y \in below[x], z \in below[y]
        PROVE  z \in below[x]
    BY <1>2, <2>4, SMT DEF Tie
  <2>5. \A x, y \in S : y \in below[x] => below[y] \subseteq below[x]
    <3> HIDE DEF below
    <3> QED
      BY <2>1, <2>4
  <2> HIDE DEF below
  <2> QED
    BY <2>1, <2>2, <2>3, <2>5 DEF IsOrder
<1>4. Cardinality(S) \in Nat /\ Cardinality(S) # 0
  BY <1>1, FS_CardinalityType, FS_EmptySet
<1>5. PICK x \in S : Cardinality(below[x]) = 0
  <2>1. 1 \in 1 .. Cardinality(S)
    BY <1>4
  <2>2. \E x \in S : Cardinality(below[x]) = 1 - 1
    <3> HIDE DEF below
    <3> QED
      BY <1>1, <1>3, <2>1, PlacesAreTaken
  <2> QED
    BY <2>2
<1>6. below[x] = {}
  <2>1. IsFiniteSet(below[x])
    BY <1>1, FS_Subset
  <2> HIDE DEF below
  <2> QED
    BY <1>5, <2>1, FS_EmptySet
<1>7. \A y \in S \ {x} : Tie(records, x, y)
  <2> SUFFICES ASSUME NEW y \in S \ {x}  PROVE Tie(records, x, y)
    OBVIOUS
  <2>1. x \in below[y] \/ y \in below[x]
    <3> HIDE DEF below
    <3> QED
      BY <1>3 DEF IsOrder
  <2>2. x \in below[y]
    <3> HIDE DEF below
    <3> QED
      BY <1>6, <2>1
  <2> QED
    BY <2>2
<1> QED
  BY <1>7 DEF Foremost

(* Records of which each is adjacent to the one before it.                 *)
IsChain(records, p) ==
  /\ p \in Seq(DOMAIN records)
  /\ Len(p) >= 1
  /\ \A i \in 1 .. Len(p) - 1 : p[i + 1] \in Adjacent(records, p[i])

(* The steps down from a start that is near end at a target.               *)
LEMMA DescentIsChain ==
  ASSUME NEW records, AreRecords(records), NEW targets \in SUBSET (DOMAIN records), NEW start \in DOMAIN records,
         NEW length \in 0 .. Cardinality(DOMAIN records), start \in Near(records, targets)[length],
         \A l \in 0 .. Cardinality(DOMAIN records) : start \in Near(records, targets)[l] => length <= l
  PROVE  LET p == Descent(records, start, Near(records, targets), length) IN
         IsChain(records, p) /\ p[1] = start /\ p[Len(p)] \in targets
<1> DEFINE D == DOMAIN records
           n == Cardinality(D)
           near == Near(records, targets)
           A == D \cup {Foremost(records, S) : S \in SUBSET D}
           StepFrom(x, i) == Foremost(records, Adjacent(records, x) \cap near[length - i])
           run == [q \in A \X (1 .. length) |-> StepFrom(q[1], q[2])]
           Body(s) == [i \in 0 .. length |-> IF i = 0 THEN start ELSE StepFrom(s[i - 1], i)]
           step == CHOOSE s : s = Body(s)
           p == [i \in 1 .. length + 1 |-> step[i - 1]]
<1>1. /\ n \in Nat
      /\ near \in [0 .. n -> SUBSET D]
      /\ near[0] = targets
      /\ \A k \in 1 .. n : near[k] = near[k - 1] \cup UNION {Adjacent(records, x) : x \in near[k - 1]}
  BY NearGrows
<1>2. Descent(records, start, Near(records, targets), length) = p
  BY DEF Descent
<1> HIDE DEF near
<1>3. start \in near[length] /\ \A l \in 0 .. n : start \in near[l] => length <= l
  BY DEF near
<1>4. length \in 0 .. n /\ length \in Nat
  BY <1>1
<1> HIDE DEF n
<1>5. \A x \in A, i \in 1 .. length : StepFrom(x, i) \in A
  <2> SUFFICES ASSUME NEW x \in A, NEW i \in 1 .. length  PROVE StepFrom(x, i) \in A
    OBVIOUS
  <2>1. Adjacent(records, x) \cap near[length - i] \in SUBSET D
    BY DEF Adjacent
  <2> QED
    BY <2>1
<1> HIDE DEF StepFrom
<1>6. start \in A
  OBVIOUS
<1> HIDE DEF A
<1>7. run \in [A \X (1 .. length) -> A]
  BY <1>5
<1>8. PICK f : IsRun(f, A, start, length, run)
  <2> HIDE DEF run
  <2> QED
    BY <1>4, <1>6, <1>7, RunExists
<1>9. /\ f \in [0 .. length -> A]
      /\ \A k \in 0 .. length : f[k] = IF k = 0 THEN start ELSE StepFrom(f[k - 1], k)
  <2>1. /\ f \in [0 .. length -> A]
        /\ \A k \in 0 .. length : f[k] = IF k = 0 THEN start ELSE run[<<f[k - 1], k>>]
    <3> HIDE DEF run
    <3> QED
      BY <1>8 DEF IsRun
  <2>2. ASSUME NEW k \in 0 .. length, k # 0
        PROVE  run[<<f[k - 1], k>>] = StepFrom(f[k - 1], k)
    <3>1. k - 1 \in 0 .. length /\ k \in 1 .. length
      BY <1>4, <2>2
    <3>2. <<f[k - 1], k>> \in A \X (1 .. length)
      BY <2>1, <3>1
    <3> QED
      BY <3>2
  <2> HIDE DEF run
  <2> QED
    BY <2>1, <2>2
<1>10. step = Body(step)
  <2>1. f = [k \in 0 .. length |-> f[k]]
    BY <1>9
  <2>2. f = Body(f)
    BY <1>9, <2>1
  <2> HIDE DEF Body
  <2> QED
    BY <2>2
<1> HIDE DEF step
<1>11. \A k \in 0 .. length : step[k] = IF k = 0 THEN start ELSE StepFrom(step[k - 1], k)
  BY <1>10
<1> DEFINE Far(k) == k < length => step[k] \notin near[length - k - 1]
           T == {k \in 0 .. length : /\ step[k] \in near[length - k] /\ Far(k)
                                     /\ k # 0 => step[k] \in Adjacent(records, step[k - 1])}
<1>12. 0 \in T
  <2>1. step[0] = start
    BY <1>4, <1>11
  <2>2. 0 < length => length - 1 \in 0 .. n /\ ~(length <= length - 1)
    BY <1>1, <1>4
  <2> QED
    BY <1>3, <1>4, <2>1, <2>2
<1>13. ASSUME NEW k \in 1 .. length, k - 1 \in T  PROVE k \in T
  <2> DEFINE x == step[k - 1]
             S == Adjacent(records, x) \cap near[length - k]
  <2>1. /\ k \in 0 .. length /\ k # 0 /\ k - 1 \in 0 .. length
        /\ length - k \in 0 .. n /\ length - (k - 1) \in 1 .. n /\ length - (k - 1) - 1 = length - k
    BY <1>1, <1>4, <1>13
  <2>2. x \in near[length - (k - 1)] /\ x \notin near[length - k]
    <3>1. k - 1 < length
      BY <1>4, <1>13
    <3> QED
      BY <1>13, <2>1, <3>1
  <2>3. near[length - (k - 1)] = near[length - k] \cup UNION {Adjacent(records, y) : y \in near[length - k]}
    BY <1>1, <2>1
  <2>4. PICK y \in near[length - k] : x \in Adjacent(records, y)
    BY <2>2, <2>3
  <2>5. y \in D
    BY <1>1, <2>1, <2>4
  <2>6. y \in Adjacent(records, x) /\ x \in D
    BY <2>4, <2>5, AdjacencyIsMutual
  <2>7. S \in SUBSET D /\ S # {}
    BY <2>4, <2>6, AdjacencyIsMutual
  <2>8. step[k] = Foremost(records, S)
    BY <1>11, <2>1 DEF StepFrom
  <2> HIDE DEF x
  <2>9. step[k] \in S
    <3> HIDE DEF S
    <3> QED
      BY <2>7, <2>8, ForemostIsMember
  <2>10. step[k] \in near[length - k] /\ step[k] \in Adjacent(records, x)
    BY <2>9
  <2>11. Far(k)
    <3> SUFFICES ASSUME k < length, step[k] \in near[length - k - 1]
                 PROVE  FALSE
      OBVIOUS
    <3>1. length - k \in 1 .. n
      BY <1>1, <1>4, <2>1
    <3>2. near[length - k] = near[length - k - 1] \cup UNION {Adjacent(records, z) : z \in near[length - k - 1]}
      BY <1>1, <3>1
    <3>3. step[k] \in D
      BY <2>7, <2>9
    <3>4. x \in Adjacent(records, step[k])
      BY <2>6, <2>10, <3>3, AdjacencyIsMutual
    <3> QED
      BY <2>2, <3>2, <3>4
  <2> HIDE DEF Far
  <2> QED
    BY <2>1, <2>10, <2>11 DEF x
<1>14. 0 .. length \subseteq T
  <2> HIDE DEF T
  <2> QED
    BY <1>4, <1>12, <1>13, UpTo
<1>15. \A k \in 0 .. length : /\ step[k] \in near[length - k]
                              /\ k # 0 => step[k] \in Adjacent(records, step[k - 1])
  BY <1>14
<1> HIDE DEF T
<1>16. \A k \in 0 .. length : step[k] \in D
  <2>1. \A k \in 0 .. length : length - k \in 0 .. n
    BY <1>1, <1>4
  <2> QED
    BY <1>1, <1>15, <2>1
<1>17. p \in Seq(D) /\ Len(p) = length + 1
  <2>1. p \in [1 .. length + 1 -> D]
    BY <1>4, <1>16
  <2> HIDE DEF p
  <2> QED
    BY <1>4, <2>1
<1>18. \A i \in 1 .. length + 1 : p[i] = step[i - 1]
  OBVIOUS
<1>19. p[1] = start /\ p[Len(p)] \in targets
  <2>1. p[1] = step[0] /\ p[Len(p)] = step[length]
    BY <1>4, <1>17, <1>18
  <2>2. step[0] = start
    BY <1>4, <1>11
  <2>3. step[length] \in near[0]
    <3>1. length \in 0 .. length /\ length - length = 0
      BY <1>4
    <3> QED
      BY <1>15, <3>1
  <2> QED
    BY <1>1, <2>1, <2>2, <2>3
<1>20. ASSUME NEW i \in 1 .. Len(p) - 1
       PROVE  p[i + 1] \in Adjacent(records, p[i])
  <2>1. i \in 0 .. length /\ i # 0 /\ i \in 1 .. length + 1 /\ i + 1 \in 1 .. length + 1 /\ i + 1 - 1 = i
    BY <1>4, <1>17
  <2>2. p[i + 1] = step[i] /\ p[i] = step[i - 1]
    BY <1>18, <2>1
  <2> QED
    BY <1>15, <2>1, <2>2
<1> HIDE DEF p
<1> QED
  BY <1>2, <1>4, <1>17, <1>19, <1>20 DEF IsChain

(* The targets are near.                                                   *)
LEMMA TargetsAreNear ==
  ASSUME NEW records, AreRecords(records), NEW targets \in SUBSET (DOMAIN records)
  PROVE  \A k \in 0 .. Cardinality(DOMAIN records) : targets \subseteq Near(records, targets)[k]
<1> DEFINE n == Cardinality(DOMAIN records)
           near == Near(records, targets)
           T == {k \in 0 .. n : targets \subseteq near[k]}
<1>1. /\ n \in Nat
      /\ near[0] = targets
      /\ \A k \in 1 .. n : near[k] = near[k - 1] \cup UNION {Adjacent(records, x) : x \in near[k - 1]}
  BY NearGrows
<1> HIDE DEF n, near
<1>2. 0 \in T
  BY <1>1
<1>3. ASSUME NEW k \in 1 .. n, k - 1 \in T  PROVE k \in T
  <2>1. k \in 0 .. n
    BY <1>1
  <2> QED
    BY <1>1, <1>3, <2>1
<1>4. 0 .. n \subseteq T
  <2> HIDE DEF T
  <2> QED
    BY <1>1, <1>2, <1>3, UpTo
<1> QED
  BY <1>4 DEF n, near

(* Something separates the start from the targets.                         *)
AreApart(records, start, targets) ==
  \E C \in SUBSET (DOMAIN records) : targets \subseteq C /\ start \notin C /\ IsClosed(records, C)

(* The search finds a chain from the start to the targets unless something *)
(* separates them.                                                         *)
LEMMA SearchFinds ==
  ASSUME NEW records, AreRecords(records), NEW targets \in SUBSET (DOMAIN records), NEW start \in DOMAIN records
  PROVE  LET p == ShortestPath(records, start, targets) IN
         /\ start \in targets => p = <<>>
         /\ p = Missing <=> AreApart(records, start, targets)
         /\ p # Missing /\ start \notin targets => IsChain(records, p) /\ p[1] = start /\ p[Len(p)] \in targets
<1> DEFINE n == Cardinality(DOMAIN records)
           near == Near(records, targets)
           lengths == {k \in 0 .. n : start \in near[k]}
           least == CHOOSE k \in lengths : \A l \in lengths : k <= l
           p == ShortestPath(records, start, targets)
<1>1. p = IF start \in targets THEN <<>> ELSE IF lengths = {} THEN Missing ELSE Descent(records, start, near, least)
  BY DEF ShortestPath
<1>2. n \in Nat /\ near \in [0 .. n -> SUBSET (DOMAIN records)]
  BY NearGrows
<1>3. \A q : q \in Seq(DOMAIN records) => q # Missing
  <2>1. \A q : q \in Seq(DOMAIN records) => q \in Seq(Nat)
    BY DEF AreRecords
  <2> QED
    BY <2>1, MissingAssumption
<1>4. <<>> # Missing
  <2>1. <<>> \in Seq(DOMAIN records)
    OBVIOUS
  <2> QED
    BY <1>3, <2>1
<1> HIDE DEF p
<1>5. CASE start \in targets
  <2>1. ~AreApart(records, start, targets)
    BY <1>5 DEF AreApart
  <2> QED
    BY <1>1, <1>4, <1>5, <2>1 DEF p
<1>6. CASE start \notin targets /\ lengths = {}
  <2>1. PICK k \in 0 .. n : IsClosed(records, near[k])
    BY NearIsClosed
  <2>2. targets \subseteq near[k]
    BY TargetsAreNear
  <2> HIDE DEF near, n
  <2>3. near[k] \in SUBSET (DOMAIN records) /\ start \notin near[k]
    BY <1>2, <1>6, <2>1
  <2>4. AreApart(records, start, targets)
    BY <2>1, <2>2, <2>3 DEF AreApart
  <2> QED
    BY <1>1, <1>6, <2>4 DEF p
<1>7. CASE start \notin targets /\ lengths # {}
  <2>1. lengths \in SUBSET Nat
    <3> HIDE DEF n, near
    <3> QED
      BY <1>2
  <2>2. least \in lengths /\ \A l \in lengths : least <= l
    <3> HIDE DEF lengths
    <3> QED
      BY <1>7, <2>1, LeastExists
  <2> DEFINE q == Descent(records, start, near, least)
  <2>3. /\ least \in 0 .. n /\ start \in near[least]
        /\ \A l \in 0 .. n : start \in near[l] => least <= l
    <3> HIDE DEF n, near, least
    <3> QED
      BY <2>2
  <2> HIDE DEF least
  <2>4. IsChain(records, q) /\ q[1] = start /\ q[Len(q)] \in targets
    BY <2>3, DescentIsChain
  <2> HIDE DEF q
  <2>5. q # Missing
    BY <1>3, <2>4 DEF IsChain
  <2>6. ~AreApart(records, start, targets)
    <3> SUFFICES ASSUME NEW C \in SUBSET (DOMAIN records), targets \subseteq C, start \notin C, IsClosed(records, C)
                 PROVE  FALSE
      BY DEF AreApart
    <3>1. \A k \in 0 .. n : near[k] \subseteq C
      BY NearStaysWithin
    <3> HIDE DEF n, near
    <3> QED
      BY <2>3, <3>1
  <2> QED
    BY <1>1, <1>7, <2>4, <2>5, <2>6 DEF p, q
<1> QED
  BY <1>5, <1>6, <1>7 DEF p

(* A chain whose every step stays inside C or outside is on one side.      *)
LEMMA ChainStays ==
  ASSUME NEW records, NEW p, IsChain(records, p), NEW C,
         \A i \in 1 .. Len(p) - 1 : p[i] \in C <=> p[i + 1] \in C
  PROVE  p[Len(p)] \in C <=> \A i \in 1 .. Len(p) : p[i] \in C
<1> DEFINE n == Len(p) - 1
           T == {k \in 0 .. n : p[Len(p) - k] \in C}
<1>1. Len(p) \in Nat /\ Len(p) >= 1
  BY DEF IsChain
<1> SUFFICES ASSUME p[Len(p)] \in C  PROVE \A i \in 1 .. Len(p) : p[i] \in C
  BY <1>1
<1>2. n \in Nat /\ 0 \in T
  BY <1>1
<1>3. ASSUME NEW k \in 1 .. n, k - 1 \in T  PROVE k \in T
  <2>1. k \in 0 .. n /\ Len(p) - k \in 1 .. Len(p) - 1 /\ Len(p) - k + 1 = Len(p) - (k - 1)
    BY <1>1
  <2> QED
    BY <1>3, <2>1
<1>4. 0 .. n \subseteq T
  <2> HIDE DEF T, n
  <2> QED
    BY <1>2, <1>3, UpTo
<1>5. ASSUME NEW i \in 1 .. Len(p)  PROVE p[i] \in C
  <2>1. Len(p) - i \in 0 .. n /\ Len(p) - (Len(p) - i) = i
    BY <1>1
  <2>2. Len(p) - i \in T
    <3> HIDE DEF T, n
    <3> QED
      BY <1>4, <2>1
  <2> QED
    BY <2>1, <2>2
<1> QED
  BY <1>5

(* Records that hang together: none are apart from the others.             *)
Linked(records, S) ==
  \A C \in SUBSET S : C # {} /\ (\A x \in C : Adjacent(records, x) \cap S \subseteq C) => C = S

(* What is apart from some records is apart from a chain to them too.      *)
LEMMA ChainStaysApart ==
  ASSUME NEW records, AreRecords(records), NEW S \in SUBSET (DOMAIN records), NEW x, AreApart(records, x, S),
         NEW p, IsChain(records, p), p[Len(p)] \in S
  PROVE  AreApart(records, x, S \cup ToSet(p)) /\ x \notin ToSet(p)
<1>1. PICK C \in SUBSET (DOMAIN records) : S \subseteq C /\ x \notin C /\ IsClosed(records, C)
  BY DEF AreApart
<1>2. p \in Seq(DOMAIN records) /\ Len(p) \in Nat
  BY DEF IsChain
<1>3. ASSUME NEW i \in 1 .. Len(p) - 1
      PROVE  p[i] \in C <=> p[i + 1] \in C
  <2>1. i \in 1 .. Len(p) /\ i + 1 \in 1 .. Len(p)
    BY <1>2
  <2>2. p[i] \in DOMAIN records /\ p[i + 1] \in DOMAIN records
    BY <1>2, <2>1
  <2>3. p[i + 1] \in Adjacent(records, p[i])
    BY DEF IsChain
  <2>4. p[i] \in Adjacent(records, p[i + 1])
    BY <2>2, <2>3, AdjacencyIsMutual
  <2> QED
    BY <1>1, <2>3, <2>4 DEF IsClosed
<1>4. \A i \in 1 .. Len(p) : p[i] \in C
  BY <1>1, <1>3, ChainStays
<1>5. ToSet(p) \subseteq C
  BY <1>2, <1>4 DEF ToSet
<1> QED
  BY <1>1, <1>5 DEF AreApart

(* Records that hang together still do with a chain to them.               *)
LEMMA ChainLinks ==
  ASSUME NEW records, NEW S \in SUBSET (DOMAIN records), Linked(records, S),
         NEW p, IsChain(records, p), p[Len(p)] \in S
  PROVE  Linked(records, S \cup ToSet(p))
<1> DEFINE all == S \cup ToSet(p)
<1> SUFFICES ASSUME NEW C \in SUBSET all, C # {}, \A x \in C : Adjacent(records, x) \cap all \subseteq C
             PROVE  C = all
  BY DEF Linked
<1>1. p \in Seq(DOMAIN records) /\ Len(p) \in Nat /\ Len(p) >= 1
  BY DEF IsChain
<1>2. ToSet(p) = {p[i] : i \in 1 .. Len(p)}
  BY <1>1 DEF ToSet
<1>3. ASSUME NEW i \in 1 .. Len(p) - 1
      PROVE  p[i] \in C <=> p[i + 1] \in C
  <2>1. i \in 1 .. Len(p) /\ i + 1 \in 1 .. Len(p)
    BY <1>1
  <2>2. p[i] \in DOMAIN records /\ p[i + 1] \in DOMAIN records
    BY <1>1, <2>1
  <2>3. p[i + 1] \in Adjacent(records, p[i])
    BY DEF IsChain
  <2>4. p[i] \in Adjacent(records, p[i + 1])
    BY <2>2, <2>3, AdjacencyIsMutual
  <2>5. p[i] \in all /\ p[i + 1] \in all
    BY <1>2, <2>1
  <2> QED
    BY <2>3, <2>4, <2>5
<1>4. p[Len(p)] \in C <=> ToSet(p) \subseteq C
  <2>1. p[Len(p)] \in C <=> \A i \in 1 .. Len(p) : p[i] \in C
    BY <1>3, ChainStays
  <2> QED
    BY <1>2, <2>1
<1>5. CASE p[Len(p)] \in C
  <2>1. C \cap S \in SUBSET S /\ C \cap S # {} /\ \A x \in C \cap S : Adjacent(records, x) \cap S \subseteq C \cap S
    BY <1>5
  <2>2. C \cap S = S
    BY <2>1 DEF Linked
  <2> QED
    BY <1>4, <1>5, <2>2
<1>6. CASE p[Len(p)] \notin C
  <2>1. \A i \in 1 .. Len(p) : p[i] \notin C
    <3> DEFINE B == DOMAIN records \ C
    <3>1. \A i \in 1 .. Len(p) : p[i] \in DOMAIN records
      BY <1>1
    <3>2. \A i \in 1 .. Len(p) - 1 : p[i] \in B <=> p[i + 1] \in B
      <4>1. \A i \in 1 .. Len(p) - 1 : i \in 1 .. Len(p) /\ i + 1 \in 1 .. Len(p)
        BY <1>1
      <4> QED
        BY <1>3, <3>1, <4>1
    <3>3. p[Len(p)] \in B
      BY <1>1, <1>6, <3>1
    <3>4. \A i \in 1 .. Len(p) : p[i] \in B
      <4> HIDE DEF B
      <4> QED
        BY <3>2, <3>3, ChainStays
    <3> QED
      BY <3>4
  <2>2. C \in SUBSET S
    BY <1>2, <2>1
  <2>3. C = S
    BY <2>2 DEF Linked
  <2> QED
    BY <1>6, <2>3
<1> QED
  BY <1>5, <1>6

(* So a search among them finds its way from each to each.                 *)
LEMMA LinkedAreReached ==
  ASSUME NEW records, AreRecords(records), NEW S \in SUBSET (DOMAIN records), Linked(records, S),
         NEW m \in S, NEW k \in S
  PROVE  ShortestPath([id \in S |-> records[id]], m, {k}) # Missing
<1> DEFINE some == [id \in S |-> records[id]]
<1>1. DOMAIN some = S /\ \A id \in S : some[id] = records[id]
  OBVIOUS
<1> HIDE DEF some
<1>2. AreRecords(some)
  <2>1. IsFiniteSet(S)
    BY FS_Subset DEF AreRecords
  <2> QED
    BY <1>1, <2>1 DEF AreRecords
<1>3. \A x \in S : Adjacent(some, x) = Adjacent(records, x) \cap S
  BY <1>1 DEF Adjacent
<1>4. ~AreApart(some, m, {k})
  <2> SUFFICES ASSUME NEW C \in SUBSET S, {k} \subseteq C, m \notin C, IsClosed(some, C)
               PROVE  FALSE
    BY <1>1 DEF AreApart
  <2>1. C # {} /\ \A x \in C : Adjacent(records, x) \cap S \subseteq C
    BY <1>3 DEF IsClosed
  <2>2. C = S
    BY <2>1 DEF Linked
  <2> QED
    BY <2>2
<1>5. {k} \in SUBSET (DOMAIN some) /\ m \in DOMAIN some
  BY <1>1
<1>6. ShortestPath(some, m, {k}) # Missing
  BY <1>2, <1>4, <1>5, SearchFinds
<1> QED
  BY <1>6 DEF some

-----------------------------------------------------------------------------
(* What holds of a packing at every step *)

(* An input as preparation makes it, of roots or without.                  *)
IsInput(p) ==
  /\ p.candidates \in Seq(ToSet(p.candidates))
  /\ \A c, e \in ToSet(p.candidates) : c.id = e.id => c = e
  /\ \A c \in ToSet(p.candidates) : c.scores.graph \in Nat /\ c.scores.semantic \in Nat /\ c.scores.rrf \in Nat
  /\ DOMAIN p.records = {c.id : c \in ToSet(p.candidates)}
  /\ AreRecords(p.records)
  /\ \A id \in DOMAIN p.records : p.records[id].penalty \in Nat
  /\ IsFiniteSet(p.obligations) /\ IsFiniteSet(p.anchors)
  /\ \A ids \in SUBSET (DOMAIN p.records) : Tokens(ids) \in Nat

(* The reasons for an exclusion: out of reach, or over the budget.         *)
Unreached == {"disconnected", "disconnected_required_anchor"}
OverLimit == {"budget", "required_anchor_exceeds_budget"}

(* Each obligation is residual for one reason.                             *)
IsSingle(residual) == \A r, q \in residual : r.obligation = q.obligation => r = q

(* What holds of a packing at every step: what is selected fits and hangs  *)
(* together, and what is excluded is not selected and, if it was out of    *)
(* reach, still is.                                                        *)
Sound(p, limit, s) ==
  /\ IsPacking(s)
  /\ s.selected \subseteq DOMAIN p.records
  /\ s.selected # {} => FitsBudget(s.selected, limit)
  /\ ~p.disconnected => Linked(p.records, s.selected)
  /\ \A e \in s.excluded : e.id \in DOMAIN p.records \ s.selected /\ e.reason \in Unreached \cup OverLimit
  /\ \A e \in s.excluded : e.reason \in Unreached => s.selected # {} /\ AreApart(p.records, e.id, s.selected)
  /\ IsSingle(s.residual)

(* A path that may be admitted.                                            *)
Joins(p, s, path) ==
  LET all == s.selected \cup ToSet(path) IN
  /\ all \subseteq DOMAIN p.records
  /\ ~p.disconnected => Linked(p.records, all)
  /\ \A e \in s.excluded : e.reason \in Unreached => AreApart(p.records, e.id, all)

(* What is added to the residual obligations keeps each single.            *)
LEMMA ResidualIsSingle ==
  ASSUME NEW residual, IsSingle(residual), NEW obligations, NEW kind
  PROVE  LET more == AddResidual(residual, obligations, kind) IN
         /\ IsSingle(more)
         /\ {r.obligation : r \in more} = {r.obligation : r \in residual} \cup obligations
<1> DEFINE known == {r.obligation : r \in residual}
           fresh == {[obligation |-> o, kind |-> kind] : o \in obligations \ known}
<1>1. AddResidual(residual, obligations, kind) = residual \cup fresh
  BY DEF AddResidual
<1>2. \A r \in fresh : r.obligation \in obligations \ known /\ r = [obligation |-> r.obligation, kind |-> kind]
  OBVIOUS
<1>3. ASSUME NEW o \in obligations \ known  PROVE \E r \in fresh : r.obligation = o
  <2> DEFINE r == [obligation |-> o, kind |-> kind]
  <2>1. r \in fresh /\ r.obligation = o
    <3> HIDE DEF known
    <3> QED
      OBVIOUS
  <2> QED
    BY <2>1
<1> HIDE DEF fresh
<1>4. IsSingle(residual \cup fresh)
  BY <1>2 DEF IsSingle
<1>5. {r.obligation : r \in residual \cup fresh} = known \cup obligations
  BY <1>2, <1>3
<1> QED
  BY <1>1, <1>4, <1>5

(* Admitting a path that joins and fits is sound.                          *)
LEMMA AdmitIsSound ==
  ASSUME NEW p, NEW limit, NEW s, Sound(p, limit, s), NEW path, Joins(p, s, path),
         FitsBudget(s.selected \cup ToSet(path), limit)
  PROVE  LET next == Admit(s, path) IN
         /\ Sound(p, limit, next)
         /\ next.selected = s.selected \cup ToSet(path) /\ next.over = s.over /\ next.residual = s.residual
         /\ next.excluded \subseteq s.excluded
<1> DEFINE all == s.selected \cup ToSet(path)
           rest == {e \in s.excluded : e.id \notin ToSet(path)}
<1>1. PICK a, b, c, d : s = Packing(a, b, c, d)
  BY DEF Sound, IsPacking
<1>2. ASSUME NEW u, u = [s EXCEPT !.selected = all, !.excluded = rest]
      PROVE  u = Packing(all, b, rest, d)
  <2> HIDE DEF all, rest
  <2> QED
    BY <1>1, <1>2 DEF Packing
<1>3. Admit(s, path) = Packing(all, b, rest, d)
  <2>1. Admit(s, path) = [s EXCEPT !.selected = all, !.excluded = rest]
    BY DEF Admit
  <2> HIDE DEF all, rest
  <2> QED
    BY <1>2, <2>1
<1>4. s.selected = a /\ s.residual = b /\ s.excluded = c /\ s.over = d
  BY <1>1 DEF Packing
<1> DEFINE next == Packing(all, b, rest, d)
<1>5. next.selected = all /\ next.residual = b /\ next.excluded = rest /\ next.over = d /\ IsPacking(next)
  BY DEF Packing, IsPacking
<1> HIDE DEF next
<1>6. /\ all \subseteq DOMAIN p.records
      /\ ~p.disconnected => Linked(p.records, all)
  BY DEF Joins
<1>7. \A e \in rest : /\ e.id \in DOMAIN p.records \ all /\ e.reason \in Unreached \cup OverLimit
                      /\ e.reason \in Unreached => all # {} /\ AreApart(p.records, e.id, all)
  BY DEF Joins, Sound
<1>8. IsSingle(b)
  BY <1>4 DEF Sound
<1>9. FitsBudget(all, limit)
  OBVIOUS
<1>10. Sound(p, limit, next)
  <2> HIDE DEF all, rest
  <2> QED
    BY <1>5, <1>6, <1>7, <1>8, <1>9 DEF Sound
<1> QED
  BY <1>3, <1>4, <1>5, <1>10 DEF next

(* The path that the search finds joins.                                   *)
LEMMA FoundPathJoins ==
  ASSUME NEW p, IsInput(p), NEW limit, NEW s, Sound(p, limit, s), s.selected # {}, NEW x \in DOMAIN p.records,
         ShortestPath(p.records, x, s.selected) # Missing
  PROVE  LET path == ShortestPath(p.records, x, s.selected) IN
         Joins(p, s, path) /\ x \in s.selected \cup ToSet(path)
<1> DEFINE path == ShortestPath(p.records, x, s.selected)
<1>1. AreRecords(p.records) /\ s.selected \in SUBSET (DOMAIN p.records)
  BY DEF IsInput, Sound
<1>2. /\ x \in s.selected => path = <<>>
      /\ x \notin s.selected => IsChain(p.records, path) /\ path[1] = x /\ path[Len(path)] \in s.selected
  BY <1>1, SearchFinds
<1> HIDE DEF path
<1>3. CASE x \in s.selected
  <2>1. ToSet(path) = {}
    BY <1>2, <1>3 DEF ToSet
  <2> QED
    BY <1>1, <1>3, <2>1 DEF Joins, Sound, path
<1>4. CASE x \notin s.selected
  <2>1. IsChain(p.records, path) /\ path[1] = x /\ path[Len(path)] \in s.selected
    BY <1>2, <1>4
  <2>2. path \in Seq(DOMAIN p.records) /\ 1 \in DOMAIN path
    BY <2>1 DEF IsChain
  <2>3. x \in ToSet(path)
    BY <2>1, <2>2 DEF ToSet
  <2>4. ToSet(path) \subseteq DOMAIN p.records
    BY <2>2 DEF ToSet
  <2>5. ~p.disconnected => Linked(p.records, s.selected \cup ToSet(path))
    BY <1>1, <2>1, ChainLinks DEF Sound
  <2>6. \A e \in s.excluded : e.reason \in Unreached => AreApart(p.records, e.id, s.selected \cup ToSet(path))
    BY <1>1, <2>1, ChainStaysApart DEF Sound
  <2> QED
    BY <1>1, <2>3, <2>4, <2>5, <2>6 DEF Joins, path
<1> QED
  BY <1>3, <1>4 DEF path

(* And a record alone does where nothing is selected, or where anchors may *)
(* stand alone and none was out of reach.                                  *)
LEMMA AloneJoins ==
  ASSUME NEW p, NEW limit, NEW s, Sound(p, limit, s), NEW x \in DOMAIN p.records,
         s.selected = {} \/ (p.disconnected /\ \A e \in s.excluded : e.reason \notin Unreached)
  PROVE  Joins(p, s, <<x>>) /\ ToSet(<<x>>) = {x}
<1>1. ToSet(<<x>>) = {x}
  BY DEF ToSet
<1>2. Linked(p.records, {x})
  BY DEF Linked
<1>3. \A e \in s.excluded : e.reason \notin Unreached
  BY DEF Sound
<1> QED
  BY <1>1, <1>2, <1>3 DEF Joins, Sound

(* No record alone and no path is Missing.                                 *)
LEMMA AloneIsNotMissing ==
  ASSUME NEW p, IsInput(p), NEW x \in DOMAIN p.records
  PROVE  <<x>> # Missing
<1>1. x \in Nat
  BY DEF IsInput, AreRecords
<1>2. <<x>> \in Seq(Nat)
  BY <1>1
<1> QED
  BY <1>2, MissingAssumption

(* Before the rounds begin anchors that may stand alone leave none out of  *)
(* reach.                                                                  *)
IsRequiring(p, limit, s) ==
  /\ Sound(p, limit, s) /\ ~s.over
  /\ p.disconnected => \A e \in s.excluded : e.reason \notin Unreached

(* Refusing an anchor that is not selected is sound.                       *)
LEMMA RefusalIsSound ==
  ASSUME NEW p, NEW limit, NEW s, IsRequiring(p, limit, s), NEW anchor \in DOMAIN p.records \ s.selected,
         NEW reason \in Unreached \cup OverLimit, NEW kind,
         reason \in Unreached => /\ ~p.disconnected /\ s.selected # {}
                                 /\ AreApart(p.records, anchor, s.selected),
         NEW next,
         next = [s EXCEPT !.excluded = {e \in @ : e.id # anchor} \cup {[id |-> anchor, reason |-> reason]},
                          !.residual = AddResidual(@, p.records[anchor].obligations, kind)]
  PROVE  IsRequiring(p, limit, next)
<1> DEFINE refused == [id |-> anchor, reason |-> reason]
           excluded == {e \in s.excluded : e.id # anchor} \cup {refused}
           residual == AddResidual(s.residual, p.records[anchor].obligations, kind)
<1>1. PICK a, b, c, d : s = Packing(a, b, c, d)
  BY DEF IsRequiring, Sound, IsPacking
<1>2. s.selected = a /\ s.residual = b /\ s.excluded = c /\ s.over = d
  BY <1>1 DEF Packing
<1>3. next = Packing(a, residual, excluded, d)
  <2>1. next = [s EXCEPT !.excluded = excluded, !.residual = residual]
    OBVIOUS
  <2> HIDE DEF excluded, residual
  <2> QED
    BY <1>1, <2>1 DEF Packing
<1>4. next.selected = a /\ next.residual = residual /\ next.excluded = excluded /\ next.over = d /\ IsPacking(next)
  <2> HIDE DEF excluded, residual
  <2>1. ASSUME NEW u, u = Packing(a, residual, excluded, d)
        PROVE  u.selected = a /\ u.residual = residual /\ u.excluded = excluded /\ u.over = d /\ IsPacking(u)
    BY ONLY <2>1 DEF Packing, IsPacking
  <2> QED
    BY <1>3, <2>1
<1>5. IsSingle(residual)
  BY ResidualIsSingle DEF IsRequiring, Sound
<1>6. refused.id = anchor /\ refused.reason = reason
  OBVIOUS
<1>7. \A e \in excluded : e \in s.excluded \/ e = refused
  OBVIOUS
<1> HIDE DEF refused, residual, excluded
<1>8. \A e \in excluded : /\ e.id \in DOMAIN p.records \ a /\ e.reason \in Unreached \cup OverLimit
                          /\ e.reason \in Unreached => a # {} /\ AreApart(p.records, e.id, a)
  BY <1>2, <1>6, <1>7 DEF IsRequiring, Sound
<1>9. p.disconnected => \A e \in excluded : e.reason \notin Unreached
  BY <1>6, <1>7 DEF IsRequiring
<1> QED
  BY <1>2, <1>4, <1>5, <1>8, <1>9 DEF IsRequiring, Sound

(* What a required anchor comes to is sound: it is missing, out of reach,  *)
(* over the budget, or admitted.                                           *)
LEMMA AnchorIsSound ==
  ASSUME NEW p, IsInput(p), NEW limit, NEW s, IsRequiring(p, limit, s), NEW anchor
  PROVE  IsRequiring(p, limit, RequireAnchor(p, limit, s, anchor))
<1> DEFINE records == p.records
           alone == s.selected = {} \/ p.disconnected
           path == IF alone THEN <<anchor>> ELSE ShortestPath(records, anchor, s.selected)
           next == RequireAnchor(p, limit, s, anchor)
           Refused(reason, kind) ==
             [s EXCEPT !.excluded = {e \in @ : e.id # anchor} \cup {[id |-> anchor, reason |-> reason]},
                       !.residual = AddResidual(@, records[anchor].obligations, kind)]
<1>1. next = IF anchor \notin DOMAIN records
             THEN [s EXCEPT !.residual = AddResidual(@, {<<"ANCHOR", anchor>>}, "MISSING_ANCHOR")]
             ELSE IF path = Missing THEN Refused("disconnected_required_anchor", "CONNECTOR_MISSING")
             ELSE IF FitsBudget(s.selected \cup ToSet(path), limit) THEN Admit(s, path)
             ELSE Refused("required_anchor_exceeds_budget", "BUDGET_EXHAUSTED")
  BY DEF RequireAnchor
<1>2. Sound(p, limit, s)
  BY DEF IsRequiring
<1> HIDE DEF next
<1>3. CASE anchor \notin DOMAIN records
  <2> DEFINE residual == AddResidual(s.residual, {<<"ANCHOR", anchor>>}, "MISSING_ANCHOR")
  <2>1. PICK a, b, c, d : s = Packing(a, b, c, d)
    BY <1>2 DEF Sound, IsPacking
  <2>2. s.selected = a /\ s.residual = b /\ s.excluded = c /\ s.over = d
    BY <2>1 DEF Packing
  <2>3. IsSingle(residual)
    BY <1>2, ResidualIsSingle DEF Sound
  <2>4. next = [s EXCEPT !.residual = residual]
    BY <1>1, <1>3
  <2> HIDE DEF residual
  <2>5. next = Packing(a, residual, c, d)
    BY <2>1, <2>4 DEF Packing
  <2>6. next.selected = a /\ next.residual = residual /\ next.excluded = c /\ next.over = d /\ IsPacking(next)
    BY <2>5 DEF Packing, IsPacking
  <2>7. IsRequiring(p, limit, next)
    BY <2>2, <2>3, <2>6 DEF IsRequiring, Sound
  <2> QED
    BY <2>7 DEF next
<1>4. CASE anchor \in DOMAIN records /\ path = Missing
  <2>1. ~alone /\ ShortestPath(records, anchor, s.selected) = Missing
    BY <1>4, AloneIsNotMissing
  <2>2. AreRecords(records) /\ s.selected \in SUBSET (DOMAIN records)
    BY <1>2 DEF IsInput, Sound
  <2>3. AreApart(records, anchor, s.selected)
    BY <1>4, <2>1, <2>2, SearchFinds
  <2>4. anchor \notin s.selected
    BY <2>3 DEF AreApart
  <2>5. next = Refused("disconnected_required_anchor", "CONNECTOR_MISSING")
    BY <1>1, <1>4
  <2>6. IsRequiring(p, limit, next)
    BY <1>4, <2>1, <2>3, <2>4, <2>5, RefusalIsSound DEF Unreached
  <2> QED
    BY <2>6 DEF next
<1>5. ASSUME anchor \in DOMAIN records, path # Missing
      PROVE  Joins(p, s, path) /\ anchor \in s.selected \cup ToSet(path)
  <2>1. CASE alone
    <3>1. s.selected = {} \/ (p.disconnected /\ \A e \in s.excluded : e.reason \notin Unreached)
      BY <2>1 DEF IsRequiring
    <3> QED
      BY <1>2, <1>5, <2>1, <3>1, AloneJoins
  <2>2. CASE ~alone
    BY <1>2, <1>5, <2>2, FoundPathJoins
  <2> QED
    BY <2>1, <2>2
<1>6. CASE anchor \in DOMAIN records /\ path # Missing /\ FitsBudget(s.selected \cup ToSet(path), limit)
  <2>1. next = Admit(s, path)
    BY <1>1, <1>6
  <2>2. Sound(p, limit, next) /\ next.over = s.over /\ next.excluded \subseteq s.excluded
    <3> HIDE DEF path
    <3> QED
      BY <1>2, <1>5, <1>6, <2>1, AdmitIsSound
  <2>3. IsRequiring(p, limit, next)
    BY <2>2 DEF IsRequiring
  <2> QED
    BY <2>3 DEF next
<1>7. CASE anchor \in DOMAIN records /\ path # Missing /\ ~FitsBudget(s.selected \cup ToSet(path), limit)
  <2>1. next = Refused("required_anchor_exceeds_budget", "BUDGET_EXHAUSTED")
    BY <1>1, <1>7
  <2>2. anchor \notin s.selected
    <3> SUFFICES ASSUME anchor \in s.selected  PROVE FALSE
      OBVIOUS
    <3>1. s.selected \cup ToSet(path) = s.selected
      <4>1. CASE alone
        <5>1. ToSet(path) = {anchor}
          BY <4>1 DEF ToSet
        <5> QED
          BY <5>1
      <4>2. CASE ~alone
        <5>1. AreRecords(records) /\ s.selected \in SUBSET (DOMAIN records)
          BY <1>2 DEF IsInput, Sound
        <5>2. path = <<>>
          BY <1>7, <4>2, <5>1, SearchFinds
        <5>3. ToSet(path) = {}
          BY <5>2 DEF ToSet
        <5> QED
          BY <5>3
      <4> QED
        BY <4>1, <4>2
    <3> QED
      BY <1>2, <1>7, <3>1 DEF Sound
  <2>3. IsRequiring(p, limit, next)
    BY <1>7, <2>1, <2>2, RefusalIsSound DEF Unreached, OverLimit
  <2> QED
    BY <2>3 DEF next
<1> QED
  BY <1>3, <1>4, <1>6, <1>7

(* Packing starts soundly.                                                 *)
LEMMA StartIsSound ==
  ASSUME NEW p, NEW limit
  PROVE  IsRequiring(p, limit, Start)
<1>1. Start = Packing({}, {}, {}, FALSE)
  BY DEF Start, Packing
<1>2. Start.selected = {} /\ Start.residual = {} /\ Start.excluded = {} /\ ~Start.over
  BY DEF Start
<1>3. IsPacking(Start)
  BY DEF IsPacking, Packing, Start
<1>4. Linked(p.records, {}) /\ IsSingle({})
  BY DEF Linked, IsSingle
<1> QED
  BY <1>2, <1>3, <1>4 DEF IsRequiring, Sound

(* The path by which a candidate would be had.                             *)
PathTo(p, s, x) == IF s.selected = {} THEN <<x>> ELSE ShortestPath(p.records, x, s.selected)

(* No candidate is to be had any more: each is out of reach, worth nothing *)
(* or, over the budget, excluded.                                          *)
Settled(p, limit, s) ==
  \A c \in ToSet(p.candidates) : c.id \notin s.selected =>
    \/ s.selected # {} /\ ShortestPath(p.records, c.id, s.selected) = Missing
    \/ Utility(p, s.selected, c) = 0
    \/ /\ PathTo(p, s, c.id) # Missing
       /\ ~FitsBudget(s.selected \cup ToSet(PathTo(p, s, c.id)), limit)
       /\ \E e \in s.excluded : e.id = c.id

(* What a candidate gains is a number.                                     *)
LEMMA UtilityIsNat ==
  ASSUME NEW p, IsInput(p), NEW S, NEW c \in ToSet(p.candidates)
  PROVE  Utility(p, S, c) \in Nat
<1> DEFINE record == p.records[c.id]
           gain == (record.obligations \cap p.obligations) \ Covered(p.records, S)
           again == record.path \in PathsOf(p.records, S)
           much == Cardinality(gain) * 1000000 + (IF again THEN 0 ELSE 100000)
                     + (IF c.provenance = "Syntax" THEN 20000 ELSE 10000)
                     + Lesser(c.scores.graph, 50000) + Lesser(c.scores.semantic, 9999) + Lesser(c.scores.rrf, 9999)
           less == (IF again THEN 50000 ELSE 0) + Lesser(record.penalty, 9999)
<1>1. Cardinality(gain) \in Nat
  <2>1. gain \subseteq p.obligations /\ IsFiniteSet(p.obligations)
    BY DEF IsInput
  <2> HIDE DEF gain
  <2> QED
    BY <2>1, FS_Subset, FS_CardinalityType
<1>2. /\ Lesser(c.scores.graph, 50000) \in Nat /\ Lesser(c.scores.semantic, 9999) \in Nat
      /\ Lesser(c.scores.rrf, 9999) \in Nat
  BY DEF IsInput, Lesser
<1>3. Lesser(record.penalty, 9999) \in Nat
  <2>1. record.penalty \in Nat
    BY DEF IsInput
  <2> HIDE DEF record
  <2> QED
    BY <2>1 DEF Lesser
<1>4. Utility(p, S, c) = Minus(much, less)
  BY DEF Utility
<1>5. much \in Nat
  <2> HIDE DEF gain, again
  <2> QED
    BY <1>1, <1>2, SMT
<1>6. less \in Nat
  <2> HIDE DEF record, again
  <2> QED
    BY <1>3, SMT
<1> HIDE DEF much, less
<1> QED
  BY <1>4, <1>5, <1>6 DEF Minus

(* What is open: each candidate that is not selected, with its path.       *)
LEMMA OpenAreToBeHad ==
  ASSUME NEW p, IsInput(p), NEW s
  PROVE  LET open == Open(p, s) IN
         /\ \A o \in open : /\ o.candidate \in ToSet(p.candidates) /\ o.candidate.id \in DOMAIN p.records \ s.selected
                            /\ o = [candidate |-> o.candidate, path |-> PathTo(p, s, o.candidate.id)]
                            /\ o.path = PathTo(p, s, o.candidate.id)
         /\ \A c \in ToSet(p.candidates) : c.id \notin s.selected => \E o \in open : o.candidate = c
<1> DEFINE open == Open(p, s)
           C == {c \in ToSet(p.candidates) : c.id \in DOMAIN p.records \ s.selected}
           One(c) == [candidate |-> c, path |-> PathTo(p, s, c.id)]
<1>1. open = {One(c) : c \in C}
  BY DEF Open, PathTo
<1>2. \A c \in C : One(c).candidate = c /\ One(c).path = PathTo(p, s, c.id)
  OBVIOUS
<1> HIDE DEF open
<1>3. ASSUME NEW o \in open
      PROVE  /\ o.candidate \in C /\ o = One(o.candidate) /\ o.path = PathTo(p, s, o.candidate.id)
  <2>1. PICK c \in C : o = One(c)
    BY <1>1
  <2> HIDE DEF C, One
  <2> QED
    BY <1>2, <2>1
<1>4. ASSUME NEW c \in ToSet(p.candidates), c.id \notin s.selected
      PROVE  \E o \in open : o.candidate = c
  <2>1. c \in C
    BY <1>4 DEF IsInput
  <2> HIDE DEF C, One
  <2>2. One(c) \in open /\ One(c).candidate = c
    BY <1>1, <1>2, <2>1
  <2> QED
    BY <2>2
<1> QED
  BY <1>3, <1>4 DEF open

(* What a round excludes was open, and all that is over the budget is.     *)
LEMMA ExcludedAreOpen ==
  ASSUME NEW s, NEW open, NEW affordable
  PROVE  LET excluded == Excluded(s, open, affordable) IN
         /\ s.excluded \subseteq excluded
         /\ \A e \in excluded : \/ e \in s.excluded
                                \/ \E o \in open : /\ e.id = o.candidate.id
                                                   /\ (e.reason = "disconnected" /\ o.path = Missing) \/ e.reason = "budget"
         /\ \A o \in open \ affordable : o.path # Missing => \E e \in excluded : e.id = o.candidate.id
<1> DEFINE known == {e.id : e \in s.excluded}
           Barred(set, reason) ==
             {[id |-> o.candidate.id, reason |-> reason] : o \in {o \in set : o.candidate.id \notin known}}
           far == Barred({o \in open : o.path = Missing}, "disconnected")
           dear == Barred({o \in open \ affordable : o.path # Missing}, "budget")
<1>1. Excluded(s, open, affordable) = s.excluded \cup far \cup dear
  BY DEF Excluded
<1>2. \A e \in far : \E o \in open : e.id = o.candidate.id /\ e.reason = "disconnected" /\ o.path = Missing
  OBVIOUS
<1>3. \A e \in dear : \E o \in open : e.id = o.candidate.id /\ e.reason = "budget"
  OBVIOUS
<1>4. ASSUME NEW o \in open \ affordable, o.path # Missing
      PROVE  \E e \in s.excluded \cup dear : e.id = o.candidate.id
  <2>1. CASE o.candidate.id \in known
    BY <2>1
  <2>2. CASE o.candidate.id \notin known
    <3> DEFINE e == [id |-> o.candidate.id, reason |-> "budget"]
    <3>1. e \in dear /\ e.id = o.candidate.id
      <4> HIDE DEF known
      <4> QED
        BY <1>4, <2>2
    <3> QED
      BY <3>1
  <2> QED
    BY <2>1, <2>2
<1> HIDE DEF far, dear
<1> QED
  BY <1>1, <1>2, <1>3, <1>4

(* Excluding what a round excludes is sound.                               *)
LEMMA ExclusionIsSound ==
  ASSUME NEW p, IsInput(p), NEW limit, NEW s, Sound(p, limit, s), NEW affordable,
         NEW barred, barred = [s EXCEPT !.excluded = Excluded(s, Open(p, s), affordable)]
  PROVE  /\ Sound(p, limit, barred)
         /\ barred.selected = s.selected /\ barred.over = s.over
         /\ barred.excluded = Excluded(s, Open(p, s), affordable)
<1> DEFINE open == Open(p, s)
           excluded == Excluded(s, open, affordable)
<1>1. PICK a, b, c, d : s = Packing(a, b, c, d)
  BY DEF Sound, IsPacking
<1>2. s.selected = a /\ s.residual = b /\ s.excluded = c /\ s.over = d
  BY <1>1 DEF Packing
<1>3. \A e \in excluded : \/ e \in s.excluded
                          \/ \E o \in open : /\ e.id = o.candidate.id
                                             /\ (e.reason = "disconnected" /\ o.path = Missing) \/ e.reason = "budget"
  BY ExcludedAreOpen
<1>4. \A o \in open : /\ o.candidate.id \in DOMAIN p.records \ s.selected
                      /\ o.path = PathTo(p, s, o.candidate.id)
  BY OpenAreToBeHad
<1>5. barred = [s EXCEPT !.excluded = excluded]
  OBVIOUS
<1> HIDE DEF excluded, open
<1>6. barred = Packing(a, b, excluded, d)
  BY <1>1, <1>5 DEF Packing
<1>7. barred.selected = a /\ barred.residual = b /\ barred.excluded = excluded /\ barred.over = d /\ IsPacking(barred)
  <2>1. ASSUME NEW u, u = Packing(a, b, excluded, d)
        PROVE  u.selected = a /\ u.residual = b /\ u.excluded = excluded /\ u.over = d /\ IsPacking(u)
    BY ONLY <2>1 DEF Packing, IsPacking
  <2> QED
    BY <1>6, <2>1
<1>8. ASSUME NEW o \in open, o.path = Missing
      PROVE  s.selected # {} /\ AreApart(p.records, o.candidate.id, s.selected)
  <2>1. o.candidate.id \in DOMAIN p.records /\ PathTo(p, s, o.candidate.id) = Missing
    BY <1>4, <1>8
  <2>2. s.selected # {}
    BY <2>1, AloneIsNotMissing DEF PathTo
  <2>3. ShortestPath(p.records, o.candidate.id, s.selected) = Missing
    BY <2>1, <2>2 DEF PathTo
  <2>4. AreRecords(p.records) /\ s.selected \in SUBSET (DOMAIN p.records)
    BY DEF IsInput, Sound
  <2> QED
    BY <2>1, <2>2, <2>3, <2>4, SearchFinds
<1>9. ASSUME NEW e \in excluded
      PROVE  /\ e.id \in DOMAIN p.records \ a /\ e.reason \in Unreached \cup OverLimit
             /\ e.reason \in Unreached => a # {} /\ AreApart(p.records, e.id, a)
  <2>1. CASE e \in s.excluded
    BY <1>2, <2>1 DEF Sound
  <2>2. CASE e \notin s.excluded
    <3>1. PICK o \in open : /\ e.id = o.candidate.id
                            /\ (e.reason = "disconnected" /\ o.path = Missing) \/ e.reason = "budget"
      BY <1>3, <2>2
    <3> QED
      BY <1>2, <1>4, <1>8, <3>1 DEF Unreached, OverLimit
  <2> QED
    BY <2>1, <2>2
<1>10. Sound(p, limit, barred)
  BY <1>2, <1>7, <1>9 DEF Sound
<1> QED
  BY <1>2, <1>7, <1>10 DEF excluded, open

(* A round of a sound packing is sound; it is the last and leaves nothing  *)
(* to be had, or it selects another candidate.                             *)
LEMMA RoundIsSound ==
  ASSUME NEW p, IsInput(p), NEW limit, NEW s, Sound(p, limit, s), ~s.over
  PROVE  LET next == Round(p, limit, s) IN
         /\ Sound(p, limit, next) /\ s.selected \subseteq next.selected
         /\ \/ next.over /\ Settled(p, limit, next)
            \/ ~next.over /\ \E x \in DOMAIN p.records : x \in next.selected \ s.selected
<1> DEFINE open == Open(p, s)
           affordable == Affordable(s, limit, open)
           barred == [s EXCEPT !.excluded = Excluded(s, open, affordable)]
           useful == {c \in {Choice(p, s, o) : o \in affordable} : c.gain > 0}
           next == Round(p, limit, s)
           C == ToSet(p.candidates)
<1>1. next = TakeBest(p.records, barred, useful)
  BY DEF Round
<1>2. /\ Sound(p, limit, barred) /\ barred.selected = s.selected /\ barred.over = s.over
      /\ barred.excluded = Excluded(s, open, affordable)
  <2> HIDE DEF affordable
  <2> QED
    BY ExclusionIsSound
<1>3. /\ \A o \in open : /\ o.candidate \in C /\ o.candidate.id \in DOMAIN p.records \ s.selected
                         /\ o = [candidate |-> o.candidate, path |-> PathTo(p, s, o.candidate.id)]
                         /\ o.path = PathTo(p, s, o.candidate.id)
      /\ \A c \in C : c.id \notin s.selected => \E o \in open : o.candidate = c
  BY OpenAreToBeHad
<1>4. \A o \in open \ affordable : o.path # Missing => \E e \in barred.excluded : e.id = o.candidate.id
  <2> HIDE DEF affordable, barred, open
  <2> QED
    BY <1>2, ExcludedAreOpen
<1>5. \A o \in open : o \in affordable <=> o.path # Missing /\ FitsBudget(s.selected \cup ToSet(o.path), limit)
  BY DEF Affordable, With
<1>6. affordable \subseteq open
  BY DEF Affordable
<1> HIDE DEF barred, next, C
<1>7. ASSUME NEW o \in affordable
      PROVE  Joins(p, barred, o.path) /\ o.candidate.id \in s.selected \cup ToSet(o.path)
  <2> DEFINE x == o.candidate.id
  <2>1. o \in open /\ o.path = PathTo(p, s, x) /\ x \in DOMAIN p.records /\ o.path # Missing
    <3> HIDE DEF affordable, open
    <3> QED
      BY <1>3, <1>5, <1>6
  <2> HIDE DEF x
  <2>2. CASE s.selected = {}
    <3>1. o.path = <<x>>
      BY <2>1, <2>2 DEF PathTo
    <3> QED
      BY <1>2, <2>1, <2>2, <3>1, AloneJoins DEF x
  <2>3. CASE s.selected # {}
    <3>1. o.path = ShortestPath(p.records, x, barred.selected)
      BY <1>2, <2>1, <2>3 DEF PathTo
    <3>2. Joins(p, barred, o.path) /\ x \in barred.selected \cup ToSet(o.path)
      BY <1>2, <2>1, <2>3, <3>1, FoundPathJoins
    <3> QED
      BY <1>2, <3>2 DEF x
  <2> QED
    BY <2>2, <2>3
<1>8. ASSUME NEW o \in affordable
      PROVE  /\ Choice(p, s, o).gain = Utility(p, s.selected, o.candidate)
             /\ Choice(p, s, o).gain \in Nat /\ Choice(p, s, o).cost \in Nat \ {0}
             /\ Choice(p, s, o).id = o.candidate.id /\ Choice(p, s, o).path = o.path
  <2>1. o.candidate \in C
    <3> HIDE DEF affordable, open
    <3> QED
      BY <1>3, <1>6
  <2>2. With(s, o) \in SUBSET (DOMAIN p.records) /\ s.selected \in SUBSET (DOMAIN p.records)
    BY <1>2, <1>7 DEF Joins, With, Sound
  <2>3. Tokens(With(s, o)) \in Nat /\ Tokens(s.selected) \in Nat
    BY <2>2 DEF IsInput
  <2>4. Utility(p, s.selected, o.candidate) \in Nat
    BY <2>1, UtilityIsNat DEF C
  <2> QED
    BY <2>3, <2>4 DEF Choice
<1>9. \A o, r \in open : o.candidate.id = r.candidate.id => o = r
  <2>1. \A c, e \in C : c.id = e.id => c = e
    BY DEF IsInput, C
  <2> HIDE DEF open
  <2> QED
    BY <1>3, <2>1
<1>10. IsFiniteSet(useful)
  <2> DEFINE One(c) == [candidate |-> c, path |-> PathTo(p, s, c.id)]
             choice == [c \in C |-> Choice(p, s, One(c))]
  <2>1. IsFiniteSet(C)
    BY ElementsAreFinite DEF IsInput, C
  <2>2. useful \subseteq {choice[c] : c \in C}
    <3> SUFFICES ASSUME NEW o \in affordable  PROVE \E c \in C : Choice(p, s, o) = choice[c]
      OBVIOUS
    <3> HIDE DEF affordable, open
    <3>1. o.candidate \in C /\ o = One(o.candidate)
      BY <1>3, <1>6
    <3> HIDE DEF One
    <3> QED
      BY <3>1
  <2> HIDE DEF choice, useful
  <2>3. IsFiniteSet({choice[c] : c \in C})
    BY <2>1, ImageIsFinite
  <2> QED
    BY <2>2, <2>3, FS_Subset
<1>11. ASSUME NEW a \in useful
       PROVE  \E o \in affordable : a = Choice(p, s, o)
  OBVIOUS
<1>12. ASSUME NEW o \in affordable, Choice(p, s, o) \notin useful
       PROVE  Choice(p, s, o).gain = 0
  <2>1. ~(Choice(p, s, o).gain > 0) /\ Choice(p, s, o).gain \in Nat
    BY <1>8, <1>12
  <2> QED
    BY <2>1
<1> HIDE DEF useful
<1>13. CASE useful = {}
  <2>1. next = [barred EXCEPT !.over = TRUE]
    BY <1>1, <1>13 DEF TakeBest
  <2>2. PICK a, b, c, d : barred = Packing(a, b, c, d)
    BY <1>2 DEF Sound, IsPacking
  <2>3. ASSUME NEW u, u = [barred EXCEPT !.over = TRUE]
        PROVE  u = Packing(a, b, c, TRUE)
    BY ONLY <2>2, <2>3 DEF Packing
  <2>4. ASSUME NEW u, u = Packing(a, b, c, TRUE)
        PROVE  /\ u.selected = barred.selected /\ u.residual = barred.residual /\ u.excluded = barred.excluded
               /\ u.over /\ IsPacking(u)
    BY ONLY <2>2, <2>4 DEF Packing, IsPacking
  <2>5. /\ next.selected = barred.selected /\ next.residual = barred.residual /\ next.excluded = barred.excluded
        /\ next.over /\ IsPacking(next)
    BY <2>1, <2>3, <2>4
  <2>6. Sound(p, limit, next)
    BY <1>2, <2>5 DEF Sound
  <2>7. \A x : PathTo(p, next, x) = PathTo(p, s, x)
    BY <1>2, <2>5 DEF PathTo
  <2>8. ASSUME NEW c2 \in C, c2.id \notin s.selected
        PROVE  \/ s.selected # {} /\ ShortestPath(p.records, c2.id, s.selected) = Missing
               \/ Utility(p, s.selected, c2) = 0
               \/ /\ PathTo(p, s, c2.id) # Missing
                  /\ ~FitsBudget(s.selected \cup ToSet(PathTo(p, s, c2.id)), limit)
                  /\ \E e \in barred.excluded : e.id = c2.id
    <3> HIDE DEF affordable, open
    <3>1. PICK o \in open : o.candidate = c2
      BY <1>3, <2>8
    <3>2. o.path = PathTo(p, s, c2.id) /\ c2.id \in DOMAIN p.records
      BY <1>3, <3>1
    <3>3. CASE o.path = Missing
      <4>1. s.selected # {}
        BY <3>2, <3>3, AloneIsNotMissing DEF PathTo
      <4> QED
        BY <3>2, <3>3, <4>1 DEF PathTo
    <3>4. CASE o \in affordable
      <4>1. Choice(p, s, o).gain = 0
        BY <1>12, <1>13, <3>4
      <4> QED
        BY <1>8, <3>1, <3>4, <4>1
    <3>5. CASE o.path # Missing /\ o \notin affordable
      <4>1. ~FitsBudget(s.selected \cup ToSet(o.path), limit)
        BY <1>5, <3>5
      <4>2. \E e \in barred.excluded : e.id = o.candidate.id
        BY <1>4, <3>5
      <4> QED
        BY <3>1, <3>2, <3>5, <4>1, <4>2
    <3> QED
      BY <3>3, <3>4, <3>5
  <2>9. Settled(p, limit, next)
    BY <1>2, <2>5, <2>7, <2>8 DEF Settled, C
  <2> QED
    BY <1>2, <2>5, <2>6, <2>9 DEF next
<1>14. CASE useful # {}
  <2>1. \A a \in useful : /\ a.gain \in Nat /\ a.cost \in Nat \ {0} /\ a.id \in DOMAIN p.records \ s.selected
                          /\ \E o \in affordable : a.path = o.path /\ a.id = o.candidate.id
    <3> HIDE DEF affordable, open
    <3> QED
      BY <1>3, <1>6, <1>8, <1>11
  <2>2. \A a \in useful : a.id \in Nat /\ p.records[a.id].path \in Nat /\ p.records[a.id].span \in Nat
    BY <2>1 DEF IsInput, AreRecords
  <2>3. \A a, b \in useful : a.id = b.id => a = b
    <3> HIDE DEF affordable, open
    <3> QED
      BY <1>6, <1>8, <1>9, <1>11
  <2>4. PICK a \in useful : TakeBest(p.records, barred, useful) = Admit(barred, a.path)
    BY <1>10, <1>14, <2>1, <2>2, <2>3, BestIsTaken
  <2>5. PICK o \in affordable : a.path = o.path /\ a.id = o.candidate.id
    BY <2>1
  <2>6. Joins(p, barred, a.path) /\ a.id \in s.selected \cup ToSet(a.path)
    <3> HIDE DEF affordable
    <3> QED
      BY <1>7, <2>5
  <2>7. FitsBudget(s.selected \cup ToSet(a.path), limit)
    <3> HIDE DEF affordable, open
    <3> QED
      BY <1>5, <1>6, <2>5
  <2>8. /\ Sound(p, limit, next) /\ next.selected = s.selected \cup ToSet(a.path) /\ next.over = barred.over
    BY <1>1, <1>2, <2>4, <2>6, <2>7, AdmitIsSound
  <2>9. a.id \in DOMAIN p.records \ s.selected
    BY <2>1
  <2> QED
    BY <1>2, <2>6, <2>8, <2>9 DEF next
<1> QED
  BY <1>13, <1>14

-----------------------------------------------------------------------------
(* What the steps come to *)

(* What the loop over the anchors computes, one anchor after the other.    *)
IsRequired(f, input, limit, anchors, n) ==
  f = [k \in 0 .. n |-> IF k = 0 THEN Start ELSE RequireAnchor(input, limit, f[k - 1], anchors[k])]

(* The loop over the anchors exists as the function it is said to be.      *)
LEMMA RequiringExists ==
  ASSUME NEW input, NEW limit, NEW anchors, NEW n \in Nat
  PROVE  \E f : IsRequired(f, input, limit, anchors, n)
<1> DEFINE T == {m \in 0 .. n : \E f : IsRequired(f, input, limit, anchors, m)}
<1>1. 0 \in T
  <2> DEFINE f == [k \in 0 .. 0 |-> Start]
  <2>1. IsRequired(f, input, limit, anchors, 0)
    BY DEF IsRequired
  <2> HIDE DEF f
  <2> QED
    BY <2>1
<1>2. ASSUME NEW m \in 1 .. n, m - 1 \in T
      PROVE  m \in T
  <2>1. PICK f : IsRequired(f, input, limit, anchors, m - 1)
    BY <1>2
  <2> DEFINE next == RequireAnchor(input, limit, f[m - 1], anchors[m])
             g == [k \in 0 .. m |-> IF k = m THEN next ELSE f[k]]
  <2>2. ASSUME NEW k \in 0 .. m
        PROVE  g[k] = IF k = 0 THEN Start ELSE RequireAnchor(input, limit, g[k - 1], anchors[k])
    <3>1. CASE k = m
      <4>1. k # 0 /\ k - 1 \in 0 .. m /\ k - 1 # m /\ g[k - 1] = f[m - 1] /\ g[k] = next
        BY <3>1
      <4> HIDE DEF g
      <4> QED
        BY <3>1, <4>1
    <3>2. CASE k # m
      <4>1. k \in 0 .. m - 1 /\ g[k] = f[k] /\ (k # 0 => g[k - 1] = f[k - 1])
        BY <3>2
      <4>2. f[k] = IF k = 0 THEN Start ELSE RequireAnchor(input, limit, f[k - 1], anchors[k])
        BY <2>1, <4>1 DEF IsRequired
      <4> HIDE DEF g
      <4> QED
        BY <4>1, <4>2
    <3> QED
      BY <3>1, <3>2
  <2>3. IsRequired(g, input, limit, anchors, m)
    <3>1. g = [k \in 0 .. m |-> g[k]]
      OBVIOUS
    <3> HIDE DEF g
    <3> QED
      BY <2>2, <3>1 DEF IsRequired
  <2> HIDE DEF g
  <2> QED
    BY <2>3
<1>3. 0 .. n \subseteq T
  <2> HIDE DEF T
  <2> QED
    BY ONLY n \in Nat, <1>1, <1>2, UpTo
<1> QED
  BY <1>3

(* So what is required of them is sound.                                   *)
LEMMA RequiredIsSound ==
  ASSUME NEW p, IsInput(p), NEW limit
  PROVE  IsRequiring(p, limit, Required(p, limit))
<1> DEFINE anchors == Anchors(p.records, p.anchors)
           n == Len(anchors)
           Body(s) == [k \in 0 .. n |-> IF k = 0 THEN Start ELSE RequireAnchor(p, limit, s[k - 1], anchors[k])]
           f == CHOOSE s : s = Body(s)
           T == {k \in 0 .. n : IsRequiring(p, limit, f[k])}
<1>1. n \in Nat
  <2> DEFINE m == Cardinality(p.anchors \cap DOMAIN p.records)
             k == Cardinality(p.anchors \ DOMAIN p.records)
  <2>1. m \in Nat /\ k \in Nat /\ n = m + k
    BY AnchorsAreCounted DEF IsInput
  <2> HIDE DEF m, k, n
  <2> QED
    BY <2>1
<1>2. Required(p, limit) = f[n]
  BY DEF Required
<1> HIDE DEF n, anchors
<1>3. f = Body(f)
  <2>1. \E s : s = Body(s)
    <3>1. PICK s : IsRequired(s, p, limit, anchors, n)
      BY <1>1, RequiringExists
    <3> QED
      BY <3>1 DEF IsRequired
  <2> HIDE DEF Body
  <2> QED
    BY <2>1
<1> HIDE DEF f
<1>4. f[0] = Start /\ \A k \in 1 .. n : f[k] = RequireAnchor(p, limit, f[k - 1], anchors[k])
  <2>1. \A k \in 1 .. n : k \in 0 .. n /\ k # 0
    BY <1>1
  <2>2. 0 \in 0 .. n
    BY <1>1
  <2>3. \A k \in 0 .. n : f[k] = IF k = 0 THEN Start ELSE RequireAnchor(p, limit, f[k - 1], anchors[k])
    BY <1>3
  <2> HIDE DEF Body
  <2> QED
    BY <2>1, <2>2, <2>3
<1>5. 0 \in T
  BY <1>1, <1>4, StartIsSound
<1>6. ASSUME NEW k \in 1 .. n, k - 1 \in T  PROVE k \in T
  <2>1. k \in 0 .. n /\ f[k] = RequireAnchor(p, limit, f[k - 1], anchors[k]) /\ IsRequiring(p, limit, f[k - 1])
    BY <1>1, <1>4, <1>6
  <2>2. IsRequiring(p, limit, f[k])
    BY <2>1, AnchorIsSound
  <2> QED
    BY <2>1, <2>2
<1>7. 0 .. n \subseteq T
  <2> HIDE DEF T
  <2> QED
    BY ONLY <1>1, <1>5, <1>6, UpTo
<1>8. n \in T
  <2> HIDE DEF T
  <2> QED
    BY <1>1, <1>7
<1> QED
  BY <1>2, <1>8

(* The rounds end, each but the last with another candidate: what they     *)
(* come to is sound and settled.                                           *)
LEMMA CompletedIsSettled ==
  ASSUME NEW p, IsInput(p), NEW limit, NEW first, Sound(p, limit, first), ~first.over
  PROVE  LET last == Completed(p, limit, first) IN
         Sound(p, limit, last) /\ Settled(p, limit, last)
<1> DEFINE D == DOMAIN p.records
           n == Len(p.candidates) + 1
           Body(s) == [k \in 0 .. n |-> IF k = 0 THEN first ELSE StepOf(p, limit, s[k - 1])]
           f == CHOOSE s : s = Body(s)
           Done(s, k) == IF s.over THEN Settled(p, limit, s) ELSE Cardinality(s.selected) >= k
           T == {k \in 0 .. n : Sound(p, limit, f[k]) /\ Done(f[k], k)}
<1>1. n \in Nat /\ Len(p.candidates) \in Nat
  BY DEF IsInput
<1>2. Completed(p, limit, first) = f[n]
  BY DEF Completed, StepOf
<1>3. /\ IsFiniteSet(D) /\ Cardinality(D) \in Nat /\ Cardinality(D) <= Len(p.candidates)
  <2> DEFINE I == 1 .. Len(p.candidates)
             id == [i \in I |-> p.candidates[i].id]
  <2>1. p.candidates \in Seq(ToSet(p.candidates))
    BY DEF IsInput
  <2>2. DOMAIN p.candidates = I
    BY <2>1
  <2>3. D = {id[i] : i \in I}
    <3>1. D = {c.id : c \in ToSet(p.candidates)}
      BY DEF IsInput
    <3>2. ToSet(p.candidates) = {p.candidates[i] : i \in I}
      BY <2>2 DEF ToSet
    <3>3. \A i \in I : id[i] = p.candidates[i].id
      OBVIOUS
    <3> HIDE DEF id, I, D
    <3> QED
      BY <3>1, <3>2, <3>3
  <2>4. IsFiniteSet(I) /\ Cardinality(I) = Len(p.candidates)
    <3>1. \A m \in Nat : IsFiniteSet(1 .. m) /\ Cardinality(1 .. m) = m
      BY FS_Interval
    <3> QED
      BY <1>1, <3>1
  <2> HIDE DEF I
  <2>5. id \in Surjection(I, D)
    BY <2>3 DEF Surjection
  <2> HIDE DEF id
  <2>6. IsFiniteSet(D) /\ Cardinality(D) <= Cardinality(I)
    BY <2>4, <2>5, FS_Surjection
  <2>7. Cardinality(D) \in Nat
    BY <2>6, FS_CardinalityType
  <2> QED
    BY <2>4, <2>6, <2>7
<1> HIDE DEF n
<1>4. f = Body(f)
  <2>1. \E s : s = Body(s)
    <3>1. PICK s : IsGreedy(s, p, limit, first, n)
      BY <1>1, GreedyExists
    <3> QED
      BY <3>1 DEF IsGreedy
  <2> HIDE DEF Body
  <2> QED
    BY <2>1
<1> HIDE DEF f
<1>5. f[0] = first /\ \A k \in 1 .. n : f[k] = StepOf(p, limit, f[k - 1])
  <2>1. \A k \in 1 .. n : k \in 0 .. n /\ k # 0
    BY <1>1
  <2>2. 0 \in 0 .. n
    BY <1>1
  <2>3. \A k \in 0 .. n : f[k] = IF k = 0 THEN first ELSE StepOf(p, limit, f[k - 1])
    BY <1>4
  <2> HIDE DEF Body
  <2> QED
    BY <2>1, <2>2, <2>3
<1>6. ASSUME NEW s, Sound(p, limit, s)
      PROVE  IsFiniteSet(s.selected) /\ Cardinality(s.selected) \in Nat /\ Cardinality(s.selected) <= Cardinality(D)
  <2>1. s.selected \subseteq D
    BY <1>6 DEF Sound
  <2> QED
    BY <1>3, <2>1, FS_Subset, FS_CardinalityType
<1>7. 0 \in T
  BY <1>1, <1>5, <1>6
<1>8. ASSUME NEW k \in 1 .. n, k - 1 \in T  PROVE k \in T
  <2> DEFINE s == f[k - 1]
             next == f[k]
  <2>1. k \in 0 .. n /\ next = StepOf(p, limit, s) /\ Sound(p, limit, s) /\ Done(s, k - 1)
    BY <1>1, <1>5, <1>8
  <2> HIDE DEF s, next
  <2>2. Sound(p, limit, next) /\ Done(next, k)
    <3>1. CASE s.over
      <4>1. next = s
        BY <2>1, <3>1 DEF StepOf
      <4> QED
        BY <2>1, <3>1, <4>1
    <3>2. CASE ~s.over
      <4>1. next = Round(p, limit, s)
        BY <2>1, <3>2 DEF StepOf
      <4>2. /\ Sound(p, limit, next) /\ s.selected \subseteq next.selected
            /\ \/ next.over /\ Settled(p, limit, next)
               \/ ~next.over /\ \E x \in D : x \in next.selected \ s.selected
        BY <2>1, <3>2, <4>1, RoundIsSound
      <4>3. CASE ~next.over
        <5>1. s.selected \subseteq next.selected /\ s.selected # next.selected
          BY <4>2, <4>3
        <5>2. Cardinality(s.selected) < Cardinality(next.selected)
          BY <1>6, <2>1, <4>2, <5>1, FS_Subset
        <5>3. Cardinality(s.selected) >= k - 1
          BY <2>1, <3>2
        <5>4. Cardinality(s.selected) \in Nat /\ Cardinality(next.selected) \in Nat
          BY <1>6, <2>1, <4>2
        <5>5. Cardinality(next.selected) >= k
          BY <1>1, <5>2, <5>3, <5>4
        <5> QED
          BY <4>2, <4>3, <5>5
      <4> QED
        BY <4>2, <4>3
    <3> QED
      BY <3>1, <3>2
  <2> HIDE DEF Done
  <2> QED
    BY <2>1, <2>2 DEF next
<1>9. 0 .. n \subseteq T
  <2> HIDE DEF T
  <2> QED
    BY ONLY <1>1, <1>7, <1>8, UpTo
<1>10. Sound(p, limit, f[n]) /\ Done(f[n], n)
  <2>1. n \in T
    <3> HIDE DEF T
    <3> QED
      BY <1>1, <1>9
  <2> QED
    BY <2>1
<1>11. f[n].over
  <2> SUFFICES ASSUME ~f[n].over  PROVE FALSE
    OBVIOUS
  <2>1. Cardinality(f[n].selected) >= n
    BY <1>10
  <2>2. Cardinality(f[n].selected) <= Cardinality(D) /\ Cardinality(f[n].selected) \in Nat
    BY <1>6, <1>10
  <2> QED
    BY <1>1, <1>3, <2>1, <2>2 DEF n
<1> QED
  BY <1>2, <1>10, <1>11

(* What is packed is what the rounds come to.                              *)
LEMMA PackIsSettled ==
  ASSUME NEW p, IsInput(p), NEW limit
  PROVE  LET pack == Pack(p, limit)
             covered == Covered(p.records, pack.records)
         IN  \E last : /\ Sound(p, limit, last) /\ Settled(p, limit, last)
                       /\ pack.records = last.selected /\ pack.excluded = last.excluded
                       /\ pack.residual = AddResidual({r \in last.residual : r.obligation \notin covered},
                                                      p.obligations \ covered, "NOT_PACKED")
<1> DEFINE first == Required(p, limit)
           last == Completed(p, limit, first)
           covered == Covered(p.records, last.selected)
<1>1. Sound(p, limit, first) /\ ~first.over
  BY RequiredIsSound DEF IsRequiring
<1>2. Pack(p, limit) = Packed(p, last, covered)
  BY DEF Pack
<1> HIDE DEF first
<1>3. Sound(p, limit, last) /\ Settled(p, limit, last)
  BY <1>1, CompletedIsSettled
<1> HIDE DEF last
<1>4. /\ Pack(p, limit).records = last.selected /\ Pack(p, limit).excluded = last.excluded
      /\ Pack(p, limit).residual = AddResidual({r \in last.residual : r.obligation \notin covered},
                                               p.obligations \ covered, "NOT_PACKED")
  BY <1>2 DEF Packed
<1> QED
  BY <1>3, <1>4

(* So a pack accounts for all.                                             *)
LEMMA PacksAccountForAll ==
  ASSUME NEW p, IsInput(p), NEW limit
  PROVE  AccountsForAll(p, limit, Pack(p, limit))
<1> DEFINE pack == Pack(p, limit)
           covered == Covered(p.records, pack.records)
<1>1. PICK last : /\ Sound(p, limit, last) /\ Settled(p, limit, last)
                  /\ pack.records = last.selected /\ pack.excluded = last.excluded
                  /\ pack.residual = AddResidual({r \in last.residual : r.obligation \notin covered},
                                                 p.obligations \ covered, "NOT_PACKED")
  BY PackIsSettled
<1> HIDE DEF pack
<1> DEFINE kept == {r \in last.residual : r.obligation \notin covered}
<1>2. /\ IsSingle(pack.residual)
      /\ {r.obligation : r \in pack.residual} = {r.obligation : r \in kept} \cup (p.obligations \ covered)
  <2>1. IsSingle(kept)
    BY <1>1 DEF Sound, IsSingle
  <2>2. pack.residual = AddResidual(kept, p.obligations \ covered, "NOT_PACKED")
    BY <1>1
  <2> HIDE DEF kept, covered
  <2> QED
    BY <2>1, <2>2, ResidualIsSingle
<1>3. p.obligations \subseteq covered \cup {r.obligation : r \in pack.residual}
  <2> HIDE DEF kept, covered
  <2> QED
    BY <1>2
<1>4. \A r, q \in pack.residual : r.obligation \notin covered /\ (r.obligation = q.obligation => r = q)
  <2>1. \A r \in kept : r.obligation \notin covered
    OBVIOUS
  <2> HIDE DEF kept, covered
  <2>2. \A r \in pack.residual : r.obligation \in {q.obligation : q \in kept} \cup (p.obligations \ covered)
    BY <1>2
  <2>3. \A r \in pack.residual : r.obligation \notin covered
    BY <2>1, <2>2
  <2> QED
    BY <1>2, <2>3 DEF IsSingle
<1>5. \A k \in pack.records : Tokens({id \in pack.records : id <= k}) <= limit
  BY <1>1 DEF Sound, FitsBudget
<1>6. \A e \in pack.excluded : e.id \notin pack.records
  BY <1>1 DEF Sound
<1>7. ~p.disconnected => \A m, k \in pack.records :
        ShortestPath([id \in pack.records |-> p.records[id]], m, {k}) # Missing
  <2>1. AreRecords(p.records) /\ pack.records \in SUBSET (DOMAIN p.records)
    BY <1>1 DEF IsInput, Sound
  <2>2. ~p.disconnected => Linked(p.records, pack.records)
    BY <1>1 DEF Sound
  <2> QED
    BY <2>1, <2>2, LinkedAreReached
<1> DEFINE Reach(c) == ShortestPath(p.records, c.id, pack.records)
           OverBudget(c) == ~FitsBudget(pack.records \cup ToSet(IF pack.records = {} THEN <<c.id>> ELSE Reach(c)), limit)
<1>8. \A c \in ToSet(p.candidates) : c.id \notin pack.records =>
        \/ pack.records # {} /\ Reach(c) = Missing
        \/ Utility(p, pack.records, c) = 0
        \/ OverBudget(c) /\ \E e \in pack.excluded : e.id = c.id
  BY <1>1 DEF Settled, PathTo
<1> HIDE DEF covered
<1> QED
  BY <1>3, <1>4, <1>5, <1>6, <1>7, <1>8 DEF AccountsForAll, pack, covered

(* And where nothing is excluded for the budget nothing else is lost: what *)
(* was out of reach when it was excluded still is.                         *)
LEMMA PacksLoseNothing ==
  ASSUME NEW p, IsInput(p), NEW limit, ~HasBudgetExclusions(Pack(p, limit)), NEW c \in ToSet(p.candidates)
  PROVE  LET records == Pack(p, limit).records IN
         \/ c.id \in records
         \/ records # {} /\ ShortestPath(p.records, c.id, records) = Missing
         \/ Utility(p, records, c) = 0
<1> DEFINE pack == Pack(p, limit)
<1>1. PICK last : /\ Sound(p, limit, last) /\ Settled(p, limit, last)
                  /\ pack.records = last.selected /\ pack.excluded = last.excluded
  BY PackIsSettled
<1>2. \A e \in pack.excluded : e.reason \notin OverLimit
  BY DEF HasBudgetExclusions, OverLimit
<1> HIDE DEF pack
<1>3. ASSUME NEW e \in pack.excluded, e.id = c.id
      PROVE  last.selected # {} /\ ShortestPath(p.records, c.id, last.selected) = Missing
  <2>1. e.reason \in Unreached
    BY <1>1, <1>2, <1>3 DEF Sound
  <2>2. last.selected # {} /\ AreApart(p.records, c.id, last.selected) /\ c.id \in DOMAIN p.records
    BY <1>1, <1>3, <2>1 DEF Sound
  <2>3. AreRecords(p.records) /\ last.selected \in SUBSET (DOMAIN p.records)
    BY <1>1 DEF IsInput, Sound
  <2> QED
    BY <2>2, <2>3, SearchFinds
<1>4. \/ c.id \in last.selected
      \/ last.selected # {} /\ ShortestPath(p.records, c.id, last.selected) = Missing
      \/ Utility(p, last.selected, c) = 0
  BY <1>1, <1>3 DEF Settled
<1> QED
  BY <1>1, <1>4 DEF pack

-----------------------------------------------------------------------------
(* What is prepared of roots *)

(* What comes before in each of the two orders; equals as they are listed. *)
EarlierPlace(documents, i, j) ==
  \/ Earlier(documents[i], documents[j])
  \/ ~Earlier(documents[j], documents[i]) /\ i < j
LongerPlace(documents, i, j) ==
  \/ Longer(documents[i], documents[j])
  \/ ~Longer(documents[j], documents[i]) /\ i < j

(* The ids of documents at places in an order.                             *)
LEMMA PlacesGiveIds ==
  ASSUME NEW documents, AreDocuments(documents), NEW P \in SUBSET (DOMAIN documents),
         NEW below, IsOrder(below, P), NEW places, IsOrdering(places, P, below)
  PROVE  [k \in DOMAIN places |-> documents[places[k]].id] \in Seq(IdsOf(documents))
<1>1. DOMAIN documents = 1 .. Len(documents) /\ Len(documents) \in Nat
  BY DEF AreDocuments
<1>2. IsFiniteSet(P)
  <2>1. \A n \in Nat : IsFiniteSet(1 .. n)
    BY FS_Interval
  <2> QED
    BY <1>1, <2>1, FS_Subset
<1>3. places \in Seq(P) /\ Len(places) \in Nat /\ \A k \in 1 .. Len(places) : places[k] \in P
  BY <1>2, OrderingListsAll
<1>4. \A k \in 1 .. Len(places) : documents[places[k]].id \in IdsOf(documents)
  BY <1>3 DEF IdsOf, ToSet
<1>5. DOMAIN places = 1 .. Len(places)
  BY <1>3
<1> QED
  BY <1>3, <1>4, <1>5

(* Documents in the order of paths and spans are documents.                *)
LEMMA EarliestAreIds ==
  ASSUME NEW documents, AreDocuments(documents), NEW S
  PROVE  Sorted(documents, S, Earlier) \in Seq(IdsOf(documents))
<1> DEFINE P == {i \in DOMAIN documents : documents[i] \in S}
           below == [x \in P |-> {y \in P : EarlierPlace(documents, y, x)}]
           places == [k \in 1 .. Cardinality(P) |->
                        CHOOSE x \in P : Cardinality({y \in P : EarlierPlace(documents, y, x)}) = k - 1]
<1>1. Sorted(documents, S, Earlier) = [k \in DOMAIN places |-> documents[places[k]].id]
  BY DEF Sorted, Ordered, EarlierPlace
<1>2. \A i \in P : /\ i \in Nat /\ documents[i].path \in Nat /\ documents[i].span \in Nat /\ documents[i].id \in Nat
  BY DEF AreDocuments, ToSet
<1>3. P \in SUBSET (DOMAIN documents)
  OBVIOUS
<1> HIDE DEF P
<1>4. IsOrder(below, P)
  <2>1. below \in [P -> SUBSET P]
    OBVIOUS
  <2>2. \A x \in P : x \notin below[x]
    BY <1>2 DEF EarlierPlace, Earlier
  <2>3. \A x, y \in P : x # y => x \in below[y] \/ y \in below[x]
    BY <1>2 DEF EarlierPlace, Earlier
  <2>4. ASSUME NEW x \in P, NEW y \in P, NEW z \in P, y \in below[x], z \in below[y]
        PROVE  z \in below[x]
    <3>1. EarlierPlace(documents, y, x) /\ EarlierPlace(documents, z, y)
      BY <2>4
    <3>2. EarlierPlace(documents, z, x)
      BY <1>2, <3>1 DEF EarlierPlace, Earlier
    <3> QED
      BY <3>2
  <2> HIDE DEF below
  <2> QED
    BY <2>1, <2>2, <2>3, <2>4 DEF IsOrder
<1>5. IsOrdering(places, P, below)
  <2>1. \A k \in 1 .. Cardinality(P) : places[k] = CHOOSE x \in P : Cardinality(below[x]) = k - 1
    OBVIOUS
  <2>2. places \in [1 .. Cardinality(P) -> {places[k] : k \in 1 .. Cardinality(P)}]
    OBVIOUS
  <2> HIDE DEF places, below
  <2> QED
    BY <2>1, <2>2 DEF IsOrdering
<1> HIDE DEF places, below
<1> QED
  BY <1>1, <1>3, <1>4, <1>5, PlacesGiveIds

(* So are they with the longest names first.                               *)
LEMMA LongestAreIds ==
  ASSUME NEW documents, AreDocuments(documents), \A d \in ToSet(documents) : d.long \in Nat, NEW S
  PROVE  Sorted(documents, S, Longer) \in Seq(IdsOf(documents))
<1> DEFINE P == {i \in DOMAIN documents : documents[i] \in S}
           below == [x \in P |-> {y \in P : LongerPlace(documents, y, x)}]
           places == [k \in 1 .. Cardinality(P) |->
                        CHOOSE x \in P : Cardinality({y \in P : LongerPlace(documents, y, x)}) = k - 1]
<1>1. Sorted(documents, S, Longer) = [k \in DOMAIN places |-> documents[places[k]].id]
  BY DEF Sorted, Ordered, LongerPlace
<1>2. \A i \in P : /\ i \in Nat /\ documents[i].path \in Nat /\ documents[i].span \in Nat /\ documents[i].id \in Nat
                   /\ documents[i].long \in Nat
  BY DEF AreDocuments, ToSet
<1>3. P \in SUBSET (DOMAIN documents)
  OBVIOUS
<1> HIDE DEF P
<1>4. IsOrder(below, P)
  <2>1. below \in [P -> SUBSET P]
    OBVIOUS
  <2>2. \A x \in P : x \notin below[x]
    BY <1>2 DEF LongerPlace, Longer, Earlier
  <2>3. \A x, y \in P : x # y => x \in below[y] \/ y \in below[x]
    BY <1>2 DEF LongerPlace, Longer, Earlier
  <2>4. ASSUME NEW x \in P, NEW y \in P, NEW z \in P, y \in below[x], z \in below[y]
        PROVE  z \in below[x]
    <3>1. LongerPlace(documents, y, x) /\ LongerPlace(documents, z, y)
      BY <2>4
    <3>2. LongerPlace(documents, z, x)
      BY <1>2, <3>1 DEF LongerPlace, Longer, Earlier
    <3> QED
      BY <3>2
  <2> HIDE DEF below
  <2> QED
    BY <2>1, <2>2, <2>3, <2>4 DEF IsOrder
<1>5. IsOrdering(places, P, below)
  <2>1. \A k \in 1 .. Cardinality(P) : places[k] = CHOOSE x \in P : Cardinality(below[x]) = k - 1
    OBVIOUS
  <2>2. places \in [1 .. Cardinality(P) -> {places[k] : k \in 1 .. Cardinality(P)}]
    OBVIOUS
  <2> HIDE DEF places, below
  <2> QED
    BY <2>1, <2>2 DEF IsOrdering
<1> HIDE DEF places, below
<1> QED
  BY <1>1, <1>3, <1>4, <1>5, PlacesGiveIds

(* Whichever way roots are selected they are documents.                    *)
LEMMA RootsAreIds ==
  ASSUME NEW documents, AreDocuments(documents), \A d \in ToSet(documents) : d.long \in Nat, NEW task, NEW arcs
  PROVE  Roots(task, documents, arcs) \in Seq(IdsOf(documents))
<1> DEFINE I == IdsOf(documents)
           exact == ExactSymbols(task, documents)
           intent == TaskEvidence(task, documents, arcs)
           bodies == DefinitionBodies(task, documents)
<1>1. Roots(task, documents, arcs) = IF exact # <<>> THEN exact ELSE IF intent # <<>> THEN intent ELSE bodies
  BY DEF Roots
<1> HIDE DEF I
<1>2. <<>> \in Seq(I)
  OBVIOUS
<1>3. exact \in Seq(I)
  <2>1. exact = <<>> \/ \E S : exact = Sorted(documents, S, Longer)
    BY DEF ExactSymbols
  <2> HIDE DEF exact
  <2>2. ASSUME NEW S, exact = Sorted(documents, S, Longer)
        PROVE  exact \in Seq(I)
    BY <2>2, LongestAreIds DEF I
  <2> QED
    BY <1>2, <2>1, <2>2
<1>4. intent \in Seq(I)
  <2>1. \E S : intent = Sorted(documents, S, Earlier)
    BY DEF TaskEvidence
  <2> HIDE DEF intent
  <2>2. ASSUME NEW S, intent = Sorted(documents, S, Earlier)
        PROVE  intent \in Seq(I)
    BY <2>2, EarliestAreIds DEF I
  <2> QED
    BY <2>1, <2>2
<1>5. bodies \in Seq(I)
  <2>1. \/ bodies = <<>>
        \/ \E S : bodies = SubSeq(Sorted(documents, S, Earlier), 1, Lesser(BodyLimit, Len(Sorted(documents, S, Earlier))))
    BY DEF DefinitionBodies
  <2> HIDE DEF bodies
  <2>2. ASSUME NEW S, NEW best, best = Sorted(documents, S, Earlier), bodies = SubSeq(best, 1, Lesser(BodyLimit, Len(best)))
        PROVE  bodies \in Seq(I)
    <3>1. best \in Seq(I)
      BY <2>2, EarliestAreIds DEF I
    <3>2. Len(best) \in Nat /\ Lesser(BodyLimit, Len(best)) \in 0 .. Len(best)
      BY <3>1, BodyAssumption DEF Lesser
    <3> QED
      BY <2>2, <3>1, <3>2
  <2> QED
    BY <1>2, <2>1, <2>2
<1> HIDE DEF exact, intent, bodies
<1> QED
  BY <1>1, <1>3, <1>4, <1>5 DEF I

(* What is met, and the last of it, in a search over documents.            *)
Hops(documents) == [order : Seq(IdsOf(documents)), frontier : SUBSET IdsOf(documents)]

(* Of those on the frontier that are joined with an id the first.          *)
MetFrom(arcs, frontier, id) ==
  CHOOSE s \in frontier : id \in Neighbors(arcs, s) /\ \A t \in frontier : id \in Neighbors(arcs, t) => s <= t
MetBefore(arcs, frontier, x, y) ==
  \/ MetFrom(arcs, frontier, x) < MetFrom(arcs, frontier, y)
  \/ MetFrom(arcs, frontier, x) = MetFrom(arcs, frontier, y) /\ x < y

(* A hop meets documents.                                                  *)
LEMMA FartherAreIds ==
  ASSUME NEW documents, AreDocuments(documents), NEW arcs,
         \A a \in arcs : {a.source, a.target} \subseteq IdsOf(documents), NEW last \in Hops(documents)
  PROVE  Farther(arcs, last) \in Hops(documents)
<1> DEFINE I == IdsOf(documents)
           F == last.frontier
           next == UNION {Neighbors(arcs, id) : id \in F} \ ToSet(last.order)
           below == [x \in next |-> {y \in next : MetBefore(arcs, F, y, x)}]
           met == [k \in 1 .. Cardinality(next) |->
                     CHOOSE x \in next : Cardinality({y \in next : MetBefore(arcs, F, y, x)}) = k - 1]
<1>1. Farther(arcs, last) = [order |-> last.order \o met, frontier |-> next]
  BY DEF Farther, Ordered, MetBefore, MetFrom
<1>2. IsFiniteSet(I) /\ I \subseteq Nat
  <2> DEFINE id == [d \in ToSet(documents) |-> d.id]
  <2>1. IsFiniteSet(ToSet(documents))
    BY ElementsAreFinite DEF AreDocuments
  <2>2. I = {id[d] : d \in ToSet(documents)}
    BY DEF IdsOf
  <2>3. IsFiniteSet({id[d] : d \in ToSet(documents)})
    <3> HIDE DEF id
    <3> QED
      BY <2>1, ImageIsFinite
  <2> QED
    BY <2>2, <2>3 DEF AreDocuments, IdsOf
<1>3. last.order \in Seq(I) /\ F \in SUBSET I
  BY DEF Hops
<1>4. ASSUME NEW x \in next
      PROVE  x \in I /\ \E s \in F : x \in Neighbors(arcs, s)
  <2>1. PICK s \in F : x \in Neighbors(arcs, s)
    OBVIOUS
  <2>2. PICK a \in arcs : x = a.source \/ x = a.target
    BY <2>1 DEF Neighbors, Joined
  <2>3. x \in I
    BY <2>2
  <2> QED
    BY <2>1, <2>3
<1> HIDE DEF F, I, next
<1>5. next \in SUBSET I /\ IsFiniteSet(next)
  BY <1>2, <1>4, FS_Subset
<1>6. ASSUME NEW x \in next
      PROVE  MetFrom(arcs, F, x) \in Nat
  <2> DEFINE from == {s \in F : x \in Neighbors(arcs, s)}
  <2>1. from \in SUBSET Nat /\ from # {}
    BY <1>2, <1>3, <1>4
  <2>2. \E k \in from : \A l \in from : k <= l
    <3> HIDE DEF from
    <3> QED
      BY <2>1, LeastExists
  <2>3. \E s \in F : x \in Neighbors(arcs, s) /\ \A t \in F : x \in Neighbors(arcs, t) => s <= t
    BY <2>2
  <2>4. MetFrom(arcs, F, x) \in F
    BY <2>3 DEF MetFrom
  <2> QED
    BY <1>2, <1>3, <2>4
<1>7. \A x \in next : x \in Nat
  BY <1>2, <1>5
<1>8. IsOrder(below, next)
  <2>1. below \in [next -> SUBSET next]
    OBVIOUS
  <2>2. \A x \in next : x \notin below[x]
    BY <1>6, <1>7 DEF MetBefore
  <2>3. \A x, y \in next : x # y => x \in below[y] \/ y \in below[x]
    BY <1>6, <1>7 DEF MetBefore
  <2>4. ASSUME NEW x \in next, NEW y \in next, NEW z \in next, y \in below[x], z \in below[y]
        PROVE  z \in below[x]
    <3>1. MetBefore(arcs, F, y, x) /\ MetBefore(arcs, F, z, y)
      BY <2>4
    <3>2. MetBefore(arcs, F, z, x)
      BY <1>6, <1>7, <3>1 DEF MetBefore
    <3> QED
      BY <3>2
  <2> HIDE DEF below
  <2> QED
    BY <2>1, <2>2, <2>3, <2>4 DEF IsOrder
<1>9. IsOrdering(met, next, below)
  <2>1. \A k \in 1 .. Cardinality(next) : met[k] = CHOOSE x \in next : Cardinality(below[x]) = k - 1
    OBVIOUS
  <2>2. met \in [1 .. Cardinality(next) -> {met[k] : k \in 1 .. Cardinality(next)}]
    OBVIOUS
  <2> HIDE DEF met, below
  <2> QED
    BY <2>1, <2>2 DEF IsOrdering
<1> HIDE DEF met, below
<1>10. met \in Seq(next)
  BY <1>5, <1>8, <1>9, OrderingListsAll
<1>11. last.order \o met \in Seq(I)
  <2>1. met \in Seq(I)
    BY <1>5, <1>10
  <2> QED
    BY <1>3, <2>1
<1> QED
  BY <1>1, <1>5, <1>11 DEF Hops, I

(* The search from roots meets documents.                                  *)
LEMMA EvidenceIsOfIds ==
  ASSUME NEW documents, AreDocuments(documents), NEW roots \in Seq(IdsOf(documents)), NEW arcs,
         NEW scope, scope.depth \in Nat
  PROVE  GraphEvidence(roots, documents, arcs, scope) \in Seq(IdsOf(documents))
<1> DEFINE I == IdsOf(documents)
           within == {a \in arcs : {a.source, a.target} \subseteq I}
           n == scope.depth
           start == [order |-> roots, frontier |-> ToSet(roots)]
           A == Hops(documents)
           step == [q \in A \X (1 .. n) |-> Farther(within, q[1])]
           Body(f) == [h \in 0 .. n |-> IF h = 0 THEN start ELSE Farther(within, f[h - 1])]
           hop == CHOOSE f : f = Body(f)
<1>1. GraphEvidence(roots, documents, arcs, scope) = hop[n].order
  BY DEF GraphEvidence, IdsOf
<1>2. \A a \in within : {a.source, a.target} \subseteq I
  OBVIOUS
<1>3. start \in A
  <2>1. ToSet(roots) \subseteq I
    BY DEF ToSet
  <2> QED
    BY <2>1 DEF Hops
<1>4. n \in Nat
  OBVIOUS
<1> HIDE DEF within, A, n, start
<1>5. \A last \in A : Farther(within, last) \in A
  BY <1>2, FartherAreIds DEF A
<1>6. step \in [A \X (1 .. n) -> A]
  BY <1>5
<1>7. PICK f : IsRun(f, A, start, n, step)
  <2> HIDE DEF step
  <2> QED
    BY <1>3, <1>4, <1>6, RunExists
<1>8. /\ f \in [0 .. n -> A]
      /\ \A k \in 0 .. n : f[k] = IF k = 0 THEN start ELSE Farther(within, f[k - 1])
  <2>1. /\ f \in [0 .. n -> A]
        /\ \A k \in 0 .. n : f[k] = IF k = 0 THEN start ELSE step[<<f[k - 1], k>>]
    <3> HIDE DEF step
    <3> QED
      BY <1>7 DEF IsRun
  <2>2. ASSUME NEW k \in 0 .. n, k # 0
        PROVE  step[<<f[k - 1], k>>] = Farther(within, f[k - 1])
    <3>1. k - 1 \in 0 .. n /\ k \in 1 .. n
      BY <1>4, <2>2
    <3>2. <<f[k - 1], k>> \in A \X (1 .. n)
      BY <2>1, <3>1
    <3> QED
      BY <3>2
  <2> HIDE DEF step
  <2> QED
    BY <2>1, <2>2
<1>9. hop = Body(hop)
  <2>1. f = [k \in 0 .. n |-> f[k]]
    BY <1>8
  <2>2. f = Body(f)
    BY <1>8, <2>1
  <2> HIDE DEF Body
  <2> QED
    BY <2>2
<1> HIDE DEF hop
<1> DEFINE T == {k \in 0 .. n : hop[k] \in A}
<1>10. \A k \in 0 .. n : hop[k] = IF k = 0 THEN start ELSE Farther(within, hop[k - 1])
  BY <1>9
<1>11. 0 \in T
  BY <1>3, <1>4, <1>10
<1>12. ASSUME NEW k \in 1 .. n, k - 1 \in T  PROVE k \in T
  <2>1. k \in 0 .. n /\ k # 0 /\ hop[k - 1] \in A
    BY <1>4, <1>12
  <2> QED
    BY <1>5, <1>10, <2>1
<1>13. 0 .. n \subseteq T
  <2> HIDE DEF T
  <2> QED
    BY ONLY <1>4, <1>11, <1>12, UpTo
<1>14. hop[n] \in A
  <2>1. n \in T
    <3> HIDE DEF T
    <3> QED
      BY <1>4, <1>13
  <2> QED
    BY <2>1
<1> QED
  BY <1>1, <1>14 DEF A, Hops

(* What retrieval made can be packed.                                      *)
LEMMA RetrievedIsInput ==
  ASSUME NEW documents, NEW p, IsRetrieved(p, documents)
  PROVE  IsInput(p)
<1> DEFINE C == ToSet(p.candidates)
<1>1. /\ AreDocuments(documents) /\ AreCandidates(p.candidates, documents)
      /\ DOMAIN p.records = {c.id : c \in C}
  BY DEF IsRetrieved
<1>2. C \subseteq AllCandidates(documents)
  BY <1>1 DEF AreCandidates
<1>3. \A c \in C : /\ c.id \in IdsOf(documents)
                   /\ c.scores.graph \in Nat /\ c.scores.semantic \in Nat /\ c.scores.rrf \in Nat
  BY <1>2 DEF AllCandidates
<1>4. p.candidates \in Seq(C) /\ \A c, e \in C : c.id = e.id => c = e
  BY <1>1 DEF AreCandidates
<1>5. IsFiniteSet(C)
  <2> HIDE DEF C
  <2>1. IsFiniteSet(ToSet(p.candidates))
    BY <1>4, ElementsAreFinite
  <2> QED
    BY <2>1 DEF C
<1> HIDE DEF C
<1>6. IsFiniteSet(DOMAIN p.records)
  <2> DEFINE id == [c \in C |-> c.id]
  <2>1. DOMAIN p.records = {id[c] : c \in C}
    BY <1>1
  <2> HIDE DEF id
  <2> QED
    BY <1>5, <2>1, ImageIsFinite
<1>7. DOMAIN p.records \subseteq IdsOf(documents) /\ IdsOf(documents) \subseteq Nat
  BY <1>1, <1>3 DEF IdsOf, AreDocuments
<1>8. AreRecords(p.records)
  BY <1>6, <1>7 DEF AreRecords, IsRetrieved
<1>9. IsFiniteSet(p.anchors)
  <2>1. PICK a : p.anchors \subseteq {a}
    BY DEF IsRetrieved
  <2>2. IsFiniteSet({a})
    BY FS_Singleton
  <2> QED
    BY <2>1, <2>2, FS_Subset
<1>10. /\ IsFiniteSet(p.obligations)
       /\ \A id \in DOMAIN p.records : p.records[id].penalty \in Nat
       /\ \A ids \in SUBSET (DOMAIN p.records) : Tokens(ids) \in Nat
  BY <1>7 DEF IsRetrieved
<1> QED
  BY <1>1, <1>3, <1>4, <1>8, <1>9, <1>10 DEF IsInput, C

(* So can what is prepared of roots: the records are those that the roots  *)
(* reach.                                                                  *)
LEMMA SelectedIsInput ==
  ASSUME NEW held \in Graphs, NEW req \in Requests, NEW documents, AreDocuments(documents),
         ToSet(documents) \subseteq ToSet(held.documents), NEW arcs, NEW reply,
         NEW roots \in Seq(IdsOf(documents)), roots # <<>>
  PROVE  IsInput(PreparedFrom(held, req, documents, arcs, roots, reply))
<1> DEFINE I == IdsOf(documents)
           order == IF "Calls" \in req.scope.kinds THEN GraphEvidence(roots, documents, arcs, req.scope) ELSE roots
           Selected(id) ==
             [id |-> id, path |-> DocumentOf(documents, id).path, span |-> DocumentOf(documents, id).span,
              provenance |-> "Syntax",
              scores |-> [exact |-> 0, bm25 |-> 0, structural |-> 0, semantic |-> 0, rrf |-> 0,
                          graph |-> IF id \in ToSet(roots) THEN 0 ELSE 50000]]
           list == [i \in DOMAIN order |-> Selected(order[i])]
           ranked == [candidates |-> list, status |-> Absent]
           p == Prepared(held, req, documents, arcs, roots, ranked)
           C == ToSet(list)
<1>1. PreparedFrom(held, req, documents, arcs, roots, reply) = p
  <2> DEFINE found == Retrieve(req.task, req.scope, documents, arcs).candidates
  <2>1. Candidates(req.scope, documents, arcs, roots, found, reply) = ranked
    BY DEF Candidates, Mapped
  <2> QED
    BY <2>1 DEF PreparedFrom
<1>2. order \in Seq(I)
  BY EvidenceIsOfIds, RequestsAssumption
<1>3. \A id : /\ Selected(id).id = id
              /\ Selected(id).scores.graph \in Nat /\ Selected(id).scores.semantic \in Nat
              /\ Selected(id).scores.rrf \in Nat
  OBVIOUS
<1> HIDE DEF Selected, order
<1>4. /\ list \in Seq(C) /\ IsFiniteSet(C)
      /\ \A c \in C : \E id \in I : c = Selected(id)
  <2> HIDE DEF I
  <2>1. DOMAIN order = 1 .. Len(order) /\ Len(order) \in Nat /\ \A i \in DOMAIN order : order[i] \in I
    BY <1>2
  <2>2. \A i \in DOMAIN order : list[i] = Selected(order[i]) /\ list[i] \in C
    BY DEF ToSet
  <2>3. list \in Seq(C)
    <3>1. list \in [1 .. Len(order) -> C]
      BY <2>1, <2>2
    <3> HIDE DEF list
    <3> QED
      BY <2>1, <3>1
  <2>4. \A c \in C : \E id \in I : c = Selected(id)
    BY <2>1, <2>2 DEF ToSet
  <2>5. IsFiniteSet(C)
    <3> HIDE DEF list
    <3>1. IsFiniteSet(ToSet(list))
      BY <2>3, ElementsAreFinite
    <3> QED
      BY <3>1
  <2> QED
    BY <2>3, <2>4, <2>5
<1>5. /\ p.candidates = list
      /\ p.obligations = Obligations(req.task.class)
      /\ p.anchors = ToSet(roots)
      /\ DOMAIN p.records = {c.id : c \in C}
      /\ \A id \in DOMAIN p.records :
           /\ p.records[id].penalty = 0
           /\ p.records[id].path = DocumentOf(documents, id).path
           /\ p.records[id].span = DocumentOf(documents, id).span
  BY DEF Prepared
<1> HIDE DEF p, list, C
<1>6. \A c \in C : /\ c.id \in I /\ c = Selected(c.id)
                   /\ c.scores.graph \in Nat /\ c.scores.semantic \in Nat /\ c.scores.rrf \in Nat
  BY <1>3, <1>4
<1>7. \A c, e \in C : c.id = e.id => c = e
  BY <1>6
<1>8. DOMAIN p.records \subseteq I /\ I \subseteq Nat
  BY <1>5, <1>6 DEF IdsOf, AreDocuments
<1>9. AreRecords(p.records)
  <2>1. IsFiniteSet(DOMAIN p.records)
    <3> DEFINE id == [c \in C |-> c.id]
    <3>1. DOMAIN p.records = {id[c] : c \in C}
      BY <1>5
    <3> HIDE DEF id
    <3> QED
      BY <1>4, <3>1, ImageIsFinite
  <2>2. \A id \in I : DocumentOf(documents, id) \in ToSet(documents)
    BY DEF DocumentOf, IdsOf
  <2>3. \A id \in I : DocumentOf(documents, id).path \in Nat /\ DocumentOf(documents, id).span \in Nat
    BY <2>2 DEF AreDocuments
  <2> QED
    BY <1>5, <1>8, <2>1, <2>3 DEF AreRecords
<1>10. IsFiniteSet(p.anchors)
  BY <1>5, ElementsAreFinite
<1>11. IsFiniteSet(p.obligations)
  BY <1>5, ObligationsAreFew
<1>12. \A ids \in SUBSET (DOMAIN p.records) : Tokens(ids) \in Nat
  <2>1. I \subseteq {d.id : d \in ToSet(held.documents)}
    BY DEF IdsOf
  <2> HIDE DEF I
  <2> QED
    BY <1>8, <2>1, GraphsAssumption
<1>13. IsInput(p)
  <2>1. p.candidates \in Seq(ToSet(p.candidates)) /\ ToSet(p.candidates) = C
    BY <1>4, <1>5 DEF C
  <2> QED
    BY <1>5, <1>6, <1>7, <1>9, <1>10, <1>11, <1>12, <2>1 DEF IsInput
<1> QED
  BY <1>1, <1>13 DEF p

(* Whatever is prepared can be packed.                                     *)
LEMMA PreparationIsInput ==
  ASSUME NEW held \in Graphs, NEW req \in Requests, NEW reply \in Scorings
  PROVE  IsInput(Preparation(held, req, reply))
<1> DEFINE documents == Only(held.documents, {d \in ToSet(held.documents) : PathInScope(d.path, req.scope)})
           live == {d.id : d \in {d \in ToSet(documents) : d.kind = "SYNTAX"}}
           arcs == {a \in held.arcs : a.kind \in req.scope.kinds /\ {a.source, a.target} \subseteq live
                                        /\ PathInScope(a.path, req.scope)}
           roots == Roots(req.task, documents, arcs)
<1>1. Preparation(held, req, reply) = PreparedFrom(held, req, documents, arcs, roots, reply)
  BY DEF Preparation, PreparedAmong
<1>2. AreDocuments(documents) /\ ToSet(documents) \subseteq ToSet(held.documents)
  BY SomeAreDocuments
<1> HIDE DEF documents, arcs
<1>3. \A d \in ToSet(documents) : d.long \in Nat
  BY <1>2, GraphsAssumption
<1>4. roots \in Seq(IdsOf(documents))
  BY <1>2, <1>3, RootsAreIds
<1> HIDE DEF roots
<1>5. CASE roots = <<>>
  <2>1. IsRetrieved(PreparedFrom(held, req, documents, arcs, <<>>, reply), documents)
    BY <1>2, PreparedIsRetrieved
  <2> QED
    BY <1>1, <1>5, <2>1, RetrievedIsInput
<1>6. CASE roots # <<>>
  BY <1>1, <1>2, <1>4, <1>6, SelectedIsInput
<1> QED
  BY <1>5, <1>6

-----------------------------------------------------------------------------
(* What a session answers *)

(* The last answer is the pack of what is prepared under the budget of the *)
(* session, all of it was handed out, and if anything was excluded for the *)
(* budget there is a handle.                                               *)
AnswerIsOfBudget ==
  /\ answer # Absent => /\ prepared # Absent
                        /\ answer.pack = Pack(prepared, budget)
                        /\ answer.pack.records \subseteq emitted
                        /\ HasBudgetExclusions(answer.pack) => handle
  /\ handle => prepared # Absent

LEMMA AnswerStaysOfBudget == OrientSpec => []AnswerIsOfBudget
<1>1. OrientInit => AnswerIsOfBudget
  BY DEF OrientInit, AnswerIsOfBudget
<1>2. AnswerIsOfBudget /\ [OrientNext]_orientVars => AnswerIsOfBudget'
  <2> SUFFICES ASSUME AnswerIsOfBudget, [OrientNext]_orientVars
               PROVE  AnswerIsOfBudget'
    OBVIOUS
  <2>1. CASE UNCHANGED session
    BY <2>1 DEF AnswerIsOfBudget, session
  <2>2. ASSUME NEW req \in Requests, NEW reply \in Replies, Prepare(req, reply)
        PROVE  AnswerIsOfBudget'
    BY <2>2 DEF Prepare, AnswerIsOfBudget
  <2>3. ASSUME NEW tokens \in Budgets, AskOrient(tokens)
        PROVE  AnswerIsOfBudget'
    <3> DEFINE pack == Pack(prepared, tokens)
    <3>1. /\ prepared # Absent /\ prepared' = prepared /\ budget' = tokens
          /\ answer' = Answer(pack, {}, FALSE) /\ emitted' = pack.records /\ handle' = HasBudgetExclusions(pack)
      BY <2>3 DEF AskOrient
    <3> HIDE DEF pack
    <3>2. answer'.pack = pack
      BY <3>1 DEF Answer
    <3> QED
      BY <3>1, <3>2 DEF AnswerIsOfBudget, pack
  <2>4. ASSUME NEW tokens \in Budgets, AskExpand(tokens)
        PROVE  AnswerIsOfBudget'
    <3> DEFINE pack == Pack(prepared, budget + tokens)
               over == pack.records \subseteq emitted /\ ~HasBudgetExclusions(pack)
    <3>1. /\ handle /\ prepared' = prepared /\ budget' = budget + tokens
          /\ answer' = Answer(pack, emitted, over) /\ emitted' = emitted \cup pack.records
          /\ handle' = HasBudgetExclusions(pack)
      BY <2>4 DEF AskExpand
    <3> HIDE DEF pack, over
    <3>2. answer'.pack = pack
      BY <3>1 DEF Answer
    <3>3. prepared # Absent
      BY <3>1 DEF AnswerIsOfBudget
    <3> QED
      BY <3>1, <3>2, <3>3 DEF AnswerIsOfBudget, pack
  <2>5. CASE DropPrepared
    BY <2>5 DEF DropPrepared, AnswerIsOfBudget
  <2> QED
    BY <2>1, <2>2, <2>3, <2>4, <2>5 DEF OrientNext, SessionNext, orientVars
<1> QED
  BY <1>1, <1>2, PTL DEF OrientSpec

(* Every answer's pack accounts for each obligation, candidate and token   *)
(* under the budget it was given: pack of packer.rs.                       *)
THEOREM PackAccounts == OrientSpec => []PackAccountsForAll
<1>1. PreparedIsOfRequest /\ AnswerIsOfBudget => PackAccountsForAll
  <2> SUFFICES ASSUME PreparedIsOfRequest, AnswerIsOfBudget, answer # Absent
               PROVE  AccountsForAll(prepared, budget, answer.pack)
    BY DEF PackAccountsForAll
  <2>1. prepared # Absent /\ answer.pack = Pack(prepared, budget)
    BY DEF AnswerIsOfBudget
  <2>2. IsInput(prepared)
    BY <2>1, PreparationIsInput DEF PreparedIsOfRequest
  <2> QED
    BY <2>1, <2>2, PacksAccountForAll
<1> QED
  BY <1>1, PreparedStaysOfRequest, AnswerStaysOfBudget, PTL

(* A session that is handed no further handle has handed out every         *)
(* candidate, but for those out of reach and those worth nothing:          *)
(* has_budget_exclusions of mcp_backend.rs overlooks none.                 *)
THEOREM NothingIsLost == OrientSpec => []NothingIsLostToABudget
<1>1. PreparedIsOfRequest /\ AnswerIsOfBudget => NothingIsLostToABudget
  <2> SUFFICES ASSUME PreparedIsOfRequest, AnswerIsOfBudget, answer # Absent, ~handle,
                      NEW c \in ToSet(prepared.candidates)
               PROVE  \/ c.id \in emitted
                      \/ /\ answer.pack.records # {}
                         /\ ShortestPath(prepared.records, c.id, answer.pack.records) = Missing
                      \/ Utility(prepared, answer.pack.records, c) = 0
    BY DEF NothingIsLostToABudget
  <2>1. /\ prepared # Absent /\ answer.pack = Pack(prepared, budget)
        /\ answer.pack.records \subseteq emitted /\ ~HasBudgetExclusions(answer.pack)
    BY DEF AnswerIsOfBudget
  <2>2. IsInput(prepared)
    BY <2>1, PreparationIsInput DEF PreparedIsOfRequest
  <2>3. LET records == answer.pack.records IN
        \/ c.id \in records
        \/ records # {} /\ ShortestPath(prepared.records, c.id, records) = Missing
        \/ Utility(prepared, records, c) = 0
    BY <2>1, <2>2, PacksLoseNothing
  <2> QED
    BY <2>1, <2>3
<1> QED
  BY <1>1, PreparedStaysOfRequest, AnswerStaysOfBudget, PTL
=============================================================================
