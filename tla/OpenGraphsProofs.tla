-------------------------- MODULE OpenGraphsProofs --------------------------
(***************************************************************************)
(* Proofs about the two servers that keep a bounded number of graphs open: *)
(* the graph browser's and the router of several repositories.             *)
(*                                                                         *)
(* ProjectServer, for any projects, slots, snapshots, requests, threads    *)
(* and limits.  What is shown rests on who may read and change a slot: the *)
(* job that opens it is its only one, and of the threads that hold its     *)
(* runtime's lock there is one (OneRuntime).  So a response is of the      *)
(* graph it was computed from; and as nothing refers to a slot that is     *)
(* evicted, what is left refers to slots in the map.                       *)
(*                                                                         *)
(* RepoRouter, for any repositories and any number of them open, of calls  *)
(* and of processes.  A handle names the call that opened its backend, and *)
(* a call opens one backend at most; the invariant says that of the        *)
(* handles agents keep (Past), that a backend which accepts a handle has   *)
(* numbered it (KnownAreNumbered), and that what it has handed out once is *)
(* gone (SpentAreGone).                                                    *)
(***************************************************************************)
EXTENDS ProjectServer, RepoRouter, FiniteSetTheorems, SequenceTheorems, WellFoundedInduction, TLAPS

-----------------------------------------------------------------------------
(* The handles of the router *)

KnownHandles == {k.handle : k \in known}

(* A handle was issued by a call that has been served. *)
Past ==
  \A h \in KnownHandles :
    /\ h.incarnation.session <= session
    /\ h.incarnation.session = session => h.incarnation.at <= clock

(* A backend that accepts a handle has issued it. *)
KnownAreNumbered ==
  \A k \in known, r \in Roots : Open(r) /\ Unwraps(r, entries[r], k.handle) =>
    /\ k.opening = entries[r].opening
    /\ k.handle.inner < entries[r].cursor

(* It finds none that was expanded. *)
SpentAreGone ==
  /\ spent \subseteq KnownHandles
  /\ \A h \in spent, r \in Roots : Open(r) /\ Unwraps(r, entries[r], h) =>
       h.inner \notin entries[r].expansions

RouterInv == RouterTypeOK /\ Past /\ KnownAreNumbered /\ SpentAreGone

USE DEF Entries, Issued, Handles, Incarnations

-----------------------------------------------------------------------------
(* The entry that a call finds or opens. *)

LEMMA LoadedEntry ==
  ASSUME RouterTypeOK, NEW r \in Roots
  PROVE  LET e == Loaded(r, clock + 1)[r] IN
         /\ e \in Entries
         /\ e.incarnation.session = session
         /\ e.incarnation.at \in 1 .. clock + 1
         /\ e.accessed = clock + 1
         /\ Open(r) => /\ e.incarnation = entries[r].incarnation
                       /\ e.opening = entries[r].opening
                       /\ e.cursor = entries[r].cursor
                       /\ e.expansions = entries[r].expansions
         /\ ~Open(r) => /\ e.incarnation.at = clock + 1
                        /\ e.cursor = 0
                        /\ e.expansions = {}
<1>1. CASE Open(r)
  <2>1. Loaded(r, clock + 1)[r] = [entries[r] EXCEPT !.accessed = clock + 1]
    BY <1>1 DEF Loaded
  <2>2. entries[r] \in Entries
    BY <1>1 DEF RouterTypeOK, Open
  <2> QED
    BY <1>1, <2>1, <2>2 DEF RouterTypeOK
<1>2. CASE ~Open(r)
  <2>1. Loaded(r, clock + 1)[r] = NewEntry(clock + 1)
    BY <1>2 DEF Loaded
  <2> QED
    BY <1>2, <2>1 DEF RouterTypeOK, NewEntry, Incarnation
<1> QED
  BY <1>1, <1>2

(* What a call leaves of the other entries. *)
LEMMA OtherEntries ==
  ASSUME RouterTypeOK, NEW r \in Roots, NEW entry,
         NEW q \in Roots, q # r
  PROVE  LET after == [Loaded(r, clock + 1) EXCEPT ![r] = entry] IN
         /\ after[q] = entries[q] \/ after[q] = Closed
         /\ after[r] = entry
         /\ after = [p \in Roots |-> after[p]]
BY DEF Loaded

(* A call opens a backend that no handle was issued by. *)
LEMMA NewBackendIsUnknown ==
  ASSUME RouterTypeOK, Past, NEW r \in Roots, ~Open(r), NEW h \in KnownHandles
  PROVE  ~Unwraps(r, Loaded(r, clock + 1)[r], h)
<1>1. /\ Loaded(r, clock + 1)[r].incarnation.session = session
      /\ Loaded(r, clock + 1)[r].incarnation.at = clock + 1
  BY LoadedEntry
<1>2. h.incarnation.session = session => h.incarnation.at <= clock
  BY DEF Past
<1> QED
  BY <1>1, <1>2 DEF Unwraps, RouterTypeOK

-----------------------------------------------------------------------------
(* Every call that reaches a backend: it leaves some of the expansions,    *)
(* perhaps issues the next handle, and perhaps spends one it did not leave.*)

LEMMA ServedKeepsInv ==
  ASSUME RouterInv, NEW r \in Roots,
         NEW e, e = Loaded(r, clock + 1)[r],
         NEW left \in SUBSET e.expansions,
         NEW entry, NEW given,
         \/ /\ given = {}
            /\ entry = [e EXCEPT !.expansions = left]
         \/ /\ given = {e.cursor}
            /\ entry = [e EXCEPT !.expansions = left \cup {e.cursor}, !.cursor = e.cursor + 1],
         Served(r, entry, given),
         spent \subseteq spent',
         \A h \in spent' \ spent : /\ h \in KnownHandles
                                   /\ Unwraps(r, e, h)
                                   /\ h.inner \in e.expansions \ left
  PROVE  RouterInv'
<1> USE DEF RouterInv
<1> DEFINE fresh(i) == [handle |-> [repo |-> r, incarnation |-> entry.incarnation, inner |-> i],
                        opening |-> entry.opening]
<1>1. /\ e \in Entries
      /\ e.incarnation.session = session
      /\ e.incarnation.at \in 1 .. clock + 1
      /\ e.accessed = clock + 1
  BY LoadedEntry
<1>2. /\ entry \in Entries
      /\ entry.incarnation = e.incarnation
      /\ entry.opening = e.opening
      /\ entry.accessed = clock + 1
      /\ entry.cursor >= e.cursor
      /\ entry.expansions \subseteq left \cup given
      /\ \A i \in given : i = e.cursor /\ entry.cursor = e.cursor + 1
  <2>1. left \subseteq Nat /\ e.cursor \in Nat
    BY <1>1
  <2>2. CASE given = {} /\ entry = [e EXCEPT !.expansions = left]
    BY <1>1, <2>1, <2>2
  <2>3. CASE /\ given = {e.cursor}
             /\ entry = [e EXCEPT !.expansions = left \cup {e.cursor}, !.cursor = e.cursor + 1]
    <3>1. left \cup {e.cursor} \in SUBSET Nat
      BY <2>1
    <3>2. entry = [incarnation |-> e.incarnation, accessed |-> e.accessed, cursor |-> e.cursor + 1,
                   expansions |-> left \cup {e.cursor}, opening |-> e.opening]
      BY <1>1, <2>3
    <3>3. entry.cursor = e.cursor + 1 /\ entry.expansions = left \cup given
      BY <2>3, <3>2
    <3>4. entry \in Entries
      <4>1. e.incarnation \in Incarnations /\ e.accessed \in Nat /\ e.opening \in Nat
        BY <1>1
      <4>2. e.cursor + 1 \in Nat
        BY <2>1
      <4> HIDE DEF Incarnations
      <4> QED
        BY <3>1, <3>2, <4>1, <4>2
    <3>5. \A i \in given : i = e.cursor
      BY <2>3
    <3>6. entry.cursor >= e.cursor
      BY <2>1, <3>3
    <3>7. entry.incarnation = e.incarnation /\ entry.opening = e.opening /\ entry.accessed = clock + 1
      BY <1>1, <3>2
    <3> QED
      BY <3>3, <3>4, <3>5, <3>6, <3>7
  <2> QED
    BY <2>2, <2>3
<1>3. /\ entries' = [Loaded(r, clock + 1) EXCEPT ![r] = entry]
      /\ clock' = clock + 1
      /\ session' = session
      /\ known' = known \cup {fresh(i) : i \in given}
      /\ lastUse' = [lastUse EXCEPT ![r] = clock + 1]
      /\ openings' \in {openings, openings + 1}
  BY DEF Served
<1>4. /\ entries'[r] = entry
      /\ entries' = [p \in Roots |-> entries'[p]]
      /\ \A q \in Roots \ {r} : entries'[q] = entries[q] \/ entries'[q] = Closed
  BY <1>3 DEF Loaded
<1>5. clock \in Nat /\ session \in Nat
  BY DEF RouterTypeOK
<1>6. \A i \in given : fresh(i) \in Issued
  BY <1>1, <1>2
<1>7. \A h \in KnownHandles : Open(r) \/ ~Unwraps(r, e, h)
  BY NewBackendIsUnknown
<1>8. RouterTypeOK'
  <2>1. entries' \in [Roots -> Entries \cup {Closed}]
    BY <1>2, <1>4 DEF RouterTypeOK
  <2>2. known' \subseteq Issued
    BY <1>3, <1>6 DEF RouterTypeOK
  <2>3. spent' \subseteq Handles
    <3>1. KnownHandles \subseteq Handles
      BY DEF RouterTypeOK, KnownHandles
    <3> QED
      BY <3>1 DEF RouterTypeOK
  <2>4. lastUse' \in [Roots -> 0 .. clock']
    BY <1>3, <1>5 DEF RouterTypeOK
  <2>5. ASSUME NEW q \in Roots, Open(q)'
        PROVE  /\ entries'[q].incarnation.session = session'
               /\ entries'[q].incarnation.at \in 1 .. clock'
               /\ entries'[q].accessed \in 1 .. clock'
    <3>1. CASE q = r
      BY <3>1, <1>1, <1>2, <1>3, <1>4, <1>5
    <3>2. CASE q # r
      BY <3>2, <2>5, <1>3, <1>4, <1>5 DEF RouterTypeOK, Open
    <3> QED
      BY <3>1, <3>2
  <2> QED
    BY <2>1, <2>2, <2>3, <2>4, <2>5, <1>3, <1>5 DEF RouterTypeOK
<1>9. Past'
  <2> SUFFICES ASSUME NEW k \in known'
               PROVE  /\ k.handle.incarnation.session <= session'
                      /\ k.handle.incarnation.session = session' =>
                           k.handle.incarnation.at <= clock'
    BY DEF Past, KnownHandles
  <2>1. CASE k \in known
    <3>1. k.handle \in KnownHandles /\ k.handle \in Handles
      BY <2>1 DEF KnownHandles, RouterTypeOK
    <3> QED
      BY <3>1, <1>3, <1>5 DEF Past
  <2>2. CASE k \in {fresh(i) : i \in given}
    BY <2>2, <1>1, <1>2, <1>3, <1>5
  <2> QED
    BY <2>1, <2>2, <1>3
<1>10. KnownAreNumbered'
  <2> SUFFICES ASSUME NEW k \in known', NEW q \in Roots,
                      Open(q)', Unwraps(q, entries'[q], k.handle)
               PROVE  /\ k.opening = entries'[q].opening
                      /\ k.handle.inner < entries'[q].cursor
    BY DEF KnownAreNumbered, Unwraps
  <2>1. CASE k \in known /\ q = r
    <3>1. Unwraps(r, e, k.handle) /\ k.handle \in KnownHandles /\ k \in Issued
      BY <2>1, <1>2, <1>4 DEF Unwraps, KnownHandles, RouterTypeOK
    <3>2. Open(r)
      BY <3>1, <1>7
    <3>3. Unwraps(r, entries[r], k.handle) /\ e.opening = entries[r].opening
          /\ e.cursor = entries[r].cursor
      BY <3>1, <3>2, LoadedEntry DEF Unwraps
    <3> QED
      BY <2>1, <3>1, <3>2, <3>3, <1>1, <1>2, <1>4 DEF KnownAreNumbered
  <2>2. CASE k \in known /\ q # r
    <3>1. entries'[q] = entries[q] /\ Open(q)
      BY <2>2, <1>4 DEF Open
    <3> QED
      BY <2>2, <3>1 DEF KnownAreNumbered
  <2>3. CASE k \in {fresh(i) : i \in given}
    <3>1. q = r
      BY <2>3 DEF Unwraps
    <3> QED
      BY <2>3, <3>1, <1>1, <1>2, <1>4
  <2> QED
    BY <2>1, <2>2, <2>3, <1>3
<1>11. SpentAreGone'
  <2>1. spent' \subseteq KnownHandles'
    BY <1>3 DEF SpentAreGone, KnownHandles
  <2>2. ASSUME NEW h \in spent', NEW q \in Roots, Open(q)', Unwraps(q, entries'[q], h)
        PROVE  h.inner \notin entries'[q].expansions
    <3>1. PICK k \in known : h = k.handle
      BY DEF SpentAreGone, KnownHandles
    <3>2. CASE q = r
      <4>1. Unwraps(r, e, h) /\ h \in KnownHandles
        BY <2>2, <3>1, <3>2, <1>2, <1>4 DEF Unwraps, KnownHandles
      <4>2. Open(r)
        BY <4>1, <1>7
      <4>3. Unwraps(r, entries[r], h) /\ e.cursor = entries[r].cursor
            /\ e.expansions = entries[r].expansions
        BY <4>1, <4>2, LoadedEntry DEF Unwraps
      <4>4. h.inner < e.cursor
        BY <3>1, <4>2, <4>3 DEF KnownAreNumbered
      <4>5. h.inner \notin left
        BY <4>2, <4>3 DEF SpentAreGone
      <4>6. h.inner \notin given
        BY <4>4, <1>1, <1>2
      <4> QED
        BY <3>2, <4>5, <4>6, <1>2, <1>4
    <3>3. CASE q # r
      <4>1. entries'[q] = entries[q] /\ Open(q)
        BY <2>2, <3>3, <1>4 DEF Open
      <4>2. h \in spent
        BY <2>2, <3>3, <4>1 DEF Unwraps
      <4> QED
        BY <2>2, <4>1, <4>2 DEF SpentAreGone
    <3> QED
      BY <3>2, <3>3
  <2> QED
    BY <2>1, <2>2 DEF SpentAreGone, Unwraps
<1> QED
  BY <1>8, <1>9, <1>10, <1>11

-----------------------------------------------------------------------------
(* The theorems about handles *)

LEMMA RouterInitHasInv == RouterInit => RouterInv
BY DEF RouterInit, RouterInv, RouterTypeOK, Past, KnownAreNumbered, SpentAreGone, KnownHandles, Open

LEMMA RouterNextKeepsInv == RouterInv /\ [RouterNext]_routerVars => RouterInv'
<1> SUFFICES ASSUME RouterInv, [RouterNext]_routerVars PROVE RouterInv'
  OBVIOUS
<1>1. CASE UNCHANGED routerVars
  BY <1>1 DEF routerVars, RouterInv, RouterTypeOK, Past, KnownAreNumbered, SpentAreGone, KnownHandles, Open, Unwraps
<1>2. ASSUME NEW r \in Roots, OpenFails(r) PROVE RouterInv'
  <2>1. RouterTypeOK'
    BY <1>2 DEF OpenFails, RouterInv, RouterTypeOK, Open
  <2>2. Past'
    <3>1. \A h \in KnownHandles : h \in Handles
      BY DEF RouterInv, RouterTypeOK, KnownHandles
    <3> QED
      BY <1>2, <3>1 DEF OpenFails, RouterInv, RouterTypeOK, Past, KnownHandles
  <2>3. KnownAreNumbered' /\ SpentAreGone'
    BY <1>2 DEF OpenFails, RouterInv, KnownAreNumbered, SpentAreGone, KnownHandles, Open, Unwraps
  <2> QED
    BY <2>1, <2>2, <2>3 DEF RouterInv
<1>3. ASSUME NEW r \in Roots, Call(r) PROVE RouterInv'
  <2> DEFINE e == Loaded(r, clock + 1)[r]
  <2>1. PICK kept \in {e.expansions, {}} :
          \/ Served(r, [e EXCEPT !.expansions = kept], {})
          \/ Served(r, [e EXCEPT !.expansions = kept \cup {e.cursor}, !.cursor = e.cursor + 1], {e.cursor})
    BY <1>3 DEF Call
  <2>2. spent' = spent /\ kept \in SUBSET e.expansions
    BY <1>3, <2>1 DEF Call
  <2>3. CASE Served(r, [e EXCEPT !.expansions = kept], {})
    BY <2>2, <2>3, ServedKeepsInv
  <2>4. CASE Served(r, [e EXCEPT !.expansions = kept \cup {e.cursor}, !.cursor = e.cursor + 1], {e.cursor})
    BY <2>2, <2>4, ServedKeepsInv
  <2> QED
    BY <2>1, <2>3, <2>4
<1>4. ASSUME NEW r \in Roots, NEW k \in known, ExpandRefused(r, k.handle) PROVE RouterInv'
  <2> DEFINE e == Loaded(r, clock + 1)[r]
  <2>1. spent' = spent
    BY <1>4 DEF ExpandRefused
  <2>2. CASE Served(r, e, {})
    <3>1. e = [e EXCEPT !.expansions = e.expansions]
      BY LoadedEntry DEF RouterInv
    <3> QED
      BY <2>1, <2>2, <3>1, ServedKeepsInv
  <2>3. CASE Served(r, [e EXCEPT !.expansions = {}], {})
    BY <2>1, <2>3, ServedKeepsInv
  <2> QED
    BY <1>4, <2>2, <2>3 DEF ExpandRefused
<1>5. ASSUME NEW r \in Roots, NEW k \in known, Expand(r, k.handle) PROVE RouterInv'
  <2> DEFINE e == Loaded(r, clock + 1)[r]
             left == e.expansions \ {k.handle.inner}
  <2>1. /\ left \in SUBSET e.expansions
        /\ spent \subseteq spent'
        /\ \A h \in spent' \ spent : /\ h \in KnownHandles
                                     /\ Unwraps(r, e, h)
                                     /\ h.inner \in e.expansions \ left
    BY <1>5 DEF Expand, KnownHandles
  <2> HIDE DEF left
  <2>2. CASE Served(r, [e EXCEPT !.expansions = left], {})
    BY <2>1, <2>2, ServedKeepsInv
  <2>3. CASE Served(r, [e EXCEPT !.expansions = left \cup {e.cursor}, !.cursor = e.cursor + 1], {e.cursor})
    <3> DEFINE entry == [e EXCEPT !.expansions = left \cup {e.cursor}, !.cursor = e.cursor + 1]
               given == {e.cursor}
    <3>2. e = Loaded(r, clock + 1)[r]
      OBVIOUS
    <3>3. \/ /\ given = {}
             /\ entry = [e EXCEPT !.expansions = left]
          \/ /\ given = {e.cursor}
             /\ entry = [e EXCEPT !.expansions = left \cup {e.cursor}, !.cursor = e.cursor + 1]
      OBVIOUS
    <3>4. Served(r, entry, given)
      BY <2>3
    <3> HIDE DEF e, entry, given
    <3> QED
      BY <2>1, <3>2, <3>3, <3>4, ServedKeepsInv, Zenon
  <2> QED
    BY <1>5, <2>2, <2>3 DEF Expand, left
<1>6. ASSUME Restart PROVE RouterInv'
  <2>1. RouterTypeOK'
    BY <1>6 DEF Restart, RouterInv, RouterTypeOK, Open
  <2>2. Past'
    <3>1. \A h \in KnownHandles : h \in Handles
      BY DEF RouterInv, RouterTypeOK, KnownHandles
    <3> QED
      BY <1>6, <3>1 DEF Restart, RouterInv, RouterTypeOK, Past, KnownHandles
  <2>3. KnownAreNumbered' /\ SpentAreGone'
    BY <1>6 DEF Restart, RouterInv, KnownAreNumbered, SpentAreGone, KnownHandles, Open
  <2> QED
    BY <2>1, <2>2, <2>3 DEF RouterInv
<1> QED
  BY <1>1, <1>2, <1>3, <1>4, <1>5, <1>6 DEF RouterNext

(* An entry is of this process, opened and used by calls of its.           *)
THEOREM RouterTypesHold == RouterSpec => []RouterTypeOK
<1>1. RouterInv => RouterTypeOK
  BY DEF RouterInv
<1> QED
  BY <1>1, RouterInitHasInv, RouterNextKeepsInv, PTL DEF RouterSpec

(* Whichever handle an agent kept, and whichever repository it sends it    *)
(* with, after any evictions and restarts: it reaches the backend that     *)
(* issued it, or none.                                                     *)
THEOREM HandlesReachOnlyTheirBackend == RouterSpec => []HandlesReachTheirBackend
<1>1. RouterInv => HandlesReachTheirBackend
  BY DEF RouterInv, KnownAreNumbered, HandlesReachTheirBackend, Reaches
<1> QED
  BY <1>1, RouterInitHasInv, RouterNextKeepsInv, PTL DEF RouterSpec

(* A handle that was expanded is never found again.                        *)
THEOREM NoHandleExpandsTwice == RouterSpec => []HandlesAreSpentOnce
<1>1. RouterInv => HandlesAreSpentOnce
  BY DEF RouterInv, SpentAreGone, HandlesAreSpentOnce, Reaches
<1> QED
  BY <1>1, RouterInitHasInv, RouterNextKeepsInv, PTL DEF RouterSpec

-----------------------------------------------------------------------------
(* Eviction *)

(* There is a least recently used entry. *)
LEMMA LeastRecentlyUsedExists ==
  ASSUME RouterTypeOK, OpenRoots # {}
  PROVE  /\ LeastRecentlyUsed \in OpenRoots
         /\ \A q \in OpenRoots : entries[LeastRecentlyUsed].accessed <= entries[q].accessed
<1> DEFINE uses == {entries[r].accessed : r \in OpenRoots}
<1>1. uses \subseteq Nat /\ uses # {}
  BY DEF OpenRoots, RouterTypeOK
<1> DEFINE ranges == {0 .. n : n \in uses}
<1> HIDE DEF uses
<1>2. ranges \subseteq FiniteSubsetsOf(Nat) /\ ranges # {}
  <2>1. \A n \in uses : IsFiniteSet(0 .. n) /\ 0 .. n \in SUBSET Nat
    BY <1>1, FS_Interval
  <2> QED
    BY <1>1, <2>1 DEF FiniteSubsetsOf
<1>3. PICK x \in ranges : \A y \in ranges : ~(<<y, x>> \in StrictSubsetOrdering(Nat))
  <2> HIDE DEF ranges
  <2> QED
    BY <1>2, FS_StrictSubsetOrderingWellFounded, WFMin
<1>4. PICK n \in uses : x = 0 .. n
  OBVIOUS
<1>5. ASSUME NEW m \in uses PROVE n <= m
  <2>1. 0 .. m \in ranges
    OBVIOUS
  <2>2. ~(<<0 .. m, 0 .. n>> \in StrictSubsetOrdering(Nat))
    BY <2>1, <1>3, <1>4
  <2>3. SUFFICES ASSUME m < n PROVE FALSE
    BY <1>1
  <2>4. 0 .. m \subseteq 0 .. n /\ n \in 0 .. n /\ n \notin 0 .. m
    BY <1>1, <2>3
  <2>5. 0 .. m \in SUBSET Nat /\ 0 .. n \in SUBSET Nat
    BY <1>1
  <2> QED
    BY <2>2, <2>4, <2>5 DEF StrictSubsetOrdering
<1>6. \E u \in uses : \A m \in uses : u <= m
  BY <1>5
<1>7. \E r \in OpenRoots : \A q \in OpenRoots : entries[r].accessed <= entries[q].accessed
  BY <1>6 DEF uses
<1> QED
  BY <1>7 DEF LeastRecentlyUsed

(* What the entries tell of the past, and how many they are. *)
PlacesKept ==
  /\ IsFiniteSet(OpenRoots)
  /\ RepositoriesAreBounded
  /\ \A r \in Roots : Open(r) => lastUse[r] = entries[r].accessed
  /\ \A r, q \in Roots : Open(r) /\ Open(q) /\ r # q => entries[r].accessed # entries[q].accessed
  /\ LeastRecentlyUsedLeaves

(* The step of EvictionMakesPlace. *)
MakesPlace ==
  session' = session =>
    \A r \in Roots : Open(r) /\ entries'[r] = Closed =>
      \E q \in Roots : /\ ~Open(q)
                       /\ entries'[q] # Closed
                       /\ \A p \in Roots \ {q, r} : Open(p) <=> entries'[p] # Closed

LEMMA ServedKeepsPlaces ==
  ASSUME RouterTypeOK, PlacesKept, NEW r \in Roots, NEW entry \in Entries, NEW given,
         entry.accessed = clock + 1, Served(r, entry, given)
  PROVE  PlacesKept' /\ MakesPlace
<1> DEFINE gone == IF ~Open(r) /\ NoPlaceLeft THEN {LeastRecentlyUsed} ELSE {}
<1>1. ~Open(r) /\ NoPlaceLeft => /\ LeastRecentlyUsed \in OpenRoots
                          /\ \A q \in OpenRoots : entries[LeastRecentlyUsed].accessed <= entries[q].accessed
  <2>1. NoPlaceLeft => OpenRoots # {}
    BY FS_EmptySet, MaxReposAssumption DEF NoPlaceLeft, PlacesKept
  <2> QED
    BY <2>1, LeastRecentlyUsedExists
<1>2. gone \subseteq OpenRoots /\ r \notin gone
  BY <1>1 DEF OpenRoots
<1>3. /\ entries'[r] = entry
      /\ entries' = [q \in Roots |-> entries'[q]]
      /\ \A q \in Roots \ {r} : entries'[q] = IF q \in gone THEN Closed ELSE entries[q]
      /\ lastUse' = [lastUse EXCEPT ![r] = clock + 1]
      /\ clock' = clock + 1
  BY DEF Served, Loaded
<1>4. entry # Closed
  BY ClosedAssumption
<1>5. Open(r)' /\ \A q \in Roots \ {r} : Open(q)' <=> Open(q) /\ q \notin gone
  BY <1>3, <1>4 DEF Open
<1>6. OpenRoots' = (OpenRoots \ gone) \cup {r}
  BY <1>5 DEF OpenRoots
<1> HIDE DEF gone
<1>7. IsFiniteSet(OpenRoots)' /\ RepositoriesAreBounded'
  <2> USE DEF PlacesKept, RepositoriesAreBounded
  <2>1. Cardinality(OpenRoots) \in Nat /\ MaxRepos \in Nat
    BY FS_CardinalityType, MaxReposAssumption
  <2>2. CASE Open(r)
    <3>1. OpenRoots' = OpenRoots
      BY <2>2, <1>6 DEF gone, OpenRoots
    <3> QED
      BY <3>1
  <2>3. CASE ~Open(r) /\ ~NoPlaceLeft
    <3>1. OpenRoots' = OpenRoots \cup {r} /\ r \notin OpenRoots
      BY <2>3, <1>6 DEF gone, OpenRoots
    <3>2. IsFiniteSet(OpenRoots') /\ Cardinality(OpenRoots') = Cardinality(OpenRoots) + 1
      BY <3>1, FS_AddElement
    <3> QED
      BY <2>1, <2>3, <3>2 DEF NoPlaceLeft
  <2>4. CASE ~Open(r) /\ NoPlaceLeft
    <3> DEFINE rest == OpenRoots \ {LeastRecentlyUsed}
    <3>1. OpenRoots' = rest \cup {r} /\ r \notin rest /\ LeastRecentlyUsed \in OpenRoots
      BY <2>4, <1>1, <1>6 DEF gone, OpenRoots
    <3>2. IsFiniteSet(rest) /\ Cardinality(rest) = Cardinality(OpenRoots) - 1
      BY <3>1, FS_RemoveElement
    <3>3. IsFiniteSet(rest \cup {r}) /\ Cardinality(rest \cup {r}) = Cardinality(rest) + 1
      <4> HIDE DEF rest
      <4> QED
        BY <3>1, <3>2, FS_AddElement
    <3>4. Cardinality(OpenRoots') = Cardinality(OpenRoots)
      BY <2>1, <3>1, <3>2, <3>3
    <3> QED
      BY <3>1, <3>3, <3>4
  <2> QED
    BY <2>2, <2>3, <2>4
<1>8. clock \in Nat /\ lastUse \in [Roots -> 0 .. clock]
  BY DEF RouterTypeOK
<1>9. \A q \in Roots : Open(q)' => lastUse'[q] = entries'[q].accessed
  BY <1>3, <1>5, <1>8 DEF PlacesKept
<1>10. \A p, q \in Roots : Open(p)' /\ Open(q)' /\ p # q =>
         entries'[p].accessed # entries'[q].accessed
  <2>1. \A q \in Roots \ {r} : Open(q)' => Open(q) /\ entries'[q] = entries[q]
    BY <1>3, <1>5
  <2>2. \A q \in Roots : Open(q) => entries[q].accessed \in 1 .. clock
    BY DEF RouterTypeOK
  <2> QED
    BY <2>1, <2>2, <1>3, <1>8 DEF PlacesKept
<1>11. LeastRecentlyUsedLeaves'
  <2> SUFFICES ASSUME NEW p \in Roots, NEW q \in Roots, Open(p)', ~Open(q)'
               PROVE  lastUse'[q] < lastUse'[p]
    BY DEF LeastRecentlyUsedLeaves
  <2>1. q # r /\ lastUse'[q] = lastUse[q] /\ lastUse[q] \in 0 .. clock
    BY <1>3, <1>5, <1>8
  <2>2. CASE p = r
    BY <2>1, <2>2, <1>3, <1>8
  <2>3. CASE p # r
    <3>1. Open(p) /\ p \notin gone /\ lastUse'[p] = lastUse[p] /\ lastUse[p] \in 0 .. clock
      BY <2>3, <1>3, <1>5, <1>8
    <3>2. CASE ~Open(q)
      BY <2>1, <3>1, <3>2 DEF PlacesKept, LeastRecentlyUsedLeaves
    <3>3. CASE Open(q)
      <4>1. q = LeastRecentlyUsed /\ ~Open(r) /\ NoPlaceLeft /\ p # q
        BY <2>1, <3>1, <3>3, <1>5 DEF gone
      <4>2. entries[q].accessed <= entries[p].accessed
        BY <4>1, <3>1, <1>1 DEF OpenRoots
      <4>3. /\ lastUse[q] = entries[q].accessed
            /\ lastUse[p] = entries[p].accessed
            /\ entries[q].accessed # entries[p].accessed
        BY <4>1, <3>1, <3>3 DEF PlacesKept
      <4> QED
        BY <2>1, <3>1, <4>2, <4>3
    <3> QED
      BY <3>2, <3>3
  <2> QED
    BY <2>2, <2>3
<1>12. MakesPlace
  <2> SUFFICES ASSUME NEW x \in Roots, Open(x), entries'[x] = Closed
               PROVE  \E q \in Roots : /\ ~Open(q)
                                       /\ entries'[q] # Closed
                                       /\ \A p \in Roots \ {q, x} : Open(p) <=> entries'[p] # Closed
    BY DEF MakesPlace
  <2>1. x \in gone
    BY <1>3, <1>4 DEF Open
  <2>2. ~Open(r) /\ gone = {x}
    BY <2>1 DEF gone
  <2>3. \A p \in Roots \ {r, x} : Open(p) <=> entries'[p] # Closed
    BY <2>2, <1>3 DEF Open
  <2> QED
    BY <2>2, <2>3, <1>3, <1>4
<1> QED
  BY <1>7, <1>9, <1>10, <1>11, <1>12 DEF PlacesKept

LEMMA InitHasPlacesKept == RouterInit => PlacesKept
<1> SUFFICES ASSUME RouterInit PROVE PlacesKept
  OBVIOUS
<1>1. OpenRoots = {}
  BY DEF RouterInit, OpenRoots, Open
<1> QED
  BY <1>1, FS_EmptySet, MaxReposAssumption
     DEF RouterInit, PlacesKept, RepositoriesAreBounded, LeastRecentlyUsedLeaves, Open

LEMMA NextKeepsPlaces == RouterInv /\ PlacesKept /\ [RouterNext]_routerVars => PlacesKept' /\ MakesPlace
<1> SUFFICES ASSUME RouterInv, PlacesKept, [RouterNext]_routerVars PROVE PlacesKept' /\ MakesPlace
  OBVIOUS
<1> USE DEF RouterInv
<1>1. CASE entries' = entries /\ lastUse' = lastUse
  BY <1>1 DEF PlacesKept, OpenRoots, RepositoriesAreBounded, LeastRecentlyUsedLeaves, Open, MakesPlace
<1>2. ASSUME NEW r \in Roots, OpenFails(r) PROVE PlacesKept' /\ MakesPlace
  BY <1>1, <1>2 DEF OpenFails
<1>3. ASSUME NEW r \in Roots, Call(r) PROVE PlacesKept' /\ MakesPlace
  <2> DEFINE e == Loaded(r, clock + 1)[r]
  <2>1. e \in Entries /\ e.accessed = clock + 1
    BY LoadedEntry
  <2> HIDE DEF e
  <2>2. PICK kept \in {e.expansions, {}} :
          \/ Served(r, [e EXCEPT !.expansions = kept], {})
          \/ Served(r, [e EXCEPT !.expansions = kept \cup {e.cursor}, !.cursor = e.cursor + 1], {e.cursor})
    BY <1>3 DEF Call, e
  <2>3. kept \in SUBSET Nat /\ kept \cup {e.cursor} \in SUBSET Nat /\ e.cursor + 1 \in Nat
    <3>1. e.expansions \in SUBSET Nat /\ e.cursor \in Nat
      BY <2>1
    <3>2. kept = e.expansions \/ kept = {}
      BY <2>2
    <3> QED
      BY <3>1, <3>2
  <2>4. CASE Served(r, [e EXCEPT !.expansions = kept], {})
    <3>1. [e EXCEPT !.expansions = kept] \in Entries
          /\ [e EXCEPT !.expansions = kept].accessed = clock + 1
      BY <2>1, <2>3
    <3> QED
      BY <2>4, <3>1, ServedKeepsPlaces
  <2>5. CASE Served(r, [e EXCEPT !.expansions = kept \cup {e.cursor}, !.cursor = e.cursor + 1], {e.cursor})
    <3> DEFINE entry == [e EXCEPT !.expansions = kept \cup {e.cursor}, !.cursor = e.cursor + 1]
    <3>1. entry \in Entries /\ entry.accessed = clock + 1
      BY <2>1, <2>3
    <3> HIDE DEF entry
    <3>2. Served(r, entry, {e.cursor})
      BY <2>5 DEF entry
    <3> QED
      BY <3>1, <3>2, ServedKeepsPlaces
  <2> QED
    BY <2>2, <2>4, <2>5
<1>4. ASSUME NEW r \in Roots, NEW k \in known, ExpandRefused(r, k.handle) PROVE PlacesKept' /\ MakesPlace
  <2> DEFINE e == Loaded(r, clock + 1)[r]
  <2>1. e \in Entries /\ e.accessed = clock + 1
    BY LoadedEntry
  <2> HIDE DEF e
  <2>2. [e EXCEPT !.expansions = {}] \in Entries /\ [e EXCEPT !.expansions = {}].accessed = clock + 1
    BY <2>1
  <2>3. Served(r, e, {}) \/ Served(r, [e EXCEPT !.expansions = {}], {})
    BY <1>4 DEF ExpandRefused, e
  <2> QED
    BY <2>1, <2>2, <2>3, ServedKeepsPlaces
<1>5. ASSUME NEW r \in Roots, NEW k \in known, Expand(r, k.handle) PROVE PlacesKept' /\ MakesPlace
  <2> DEFINE e == Loaded(r, clock + 1)[r]
             left == e.expansions \ {k.handle.inner}
             after == [e EXCEPT !.expansions = left \cup {e.cursor}, !.cursor = e.cursor + 1]
  <2>1. e \in Entries /\ e.accessed = clock + 1
    BY LoadedEntry
  <2>2. Served(r, [e EXCEPT !.expansions = left], {}) \/ Served(r, after, {e.cursor})
    BY <1>5 DEF Expand
  <2> HIDE DEF e
  <2>3. left \in SUBSET Nat /\ left \cup {e.cursor} \in SUBSET Nat /\ e.cursor + 1 \in Nat
    BY <2>1
  <2> HIDE DEF left
  <2>4. [e EXCEPT !.expansions = left] \in Entries /\ [e EXCEPT !.expansions = left].accessed = clock + 1
    BY <2>1, <2>3
  <2>5. after \in Entries /\ after.accessed = clock + 1
    BY <2>1, <2>3
  <2> HIDE DEF after
  <2> QED
    BY <2>2, <2>4, <2>5, ServedKeepsPlaces
<1>6. ASSUME Restart PROVE PlacesKept' /\ MakesPlace
  <2>1. (OpenRoots = {})'
    BY <1>6 DEF Restart, OpenRoots, Open
  <2>2. MakesPlace
    BY <1>6 DEF Restart, MakesPlace, RouterTypeOK
  <2> QED
    BY <1>6, <2>1, <2>2, FS_EmptySet, MaxReposAssumption
       DEF Restart, PlacesKept, RepositoriesAreBounded, LeastRecentlyUsedLeaves, Open
<1> QED
  BY <1>1, <1>2, <1>3, <1>4, <1>5, <1>6 DEF RouterNext, routerVars

(* At most --max-repos graphs are in memory.                               *)
THEOREM RepositoriesStayBounded == RouterSpec => []RepositoriesAreBounded
<1>1. RouterInv /\ PlacesKept => RepositoriesAreBounded
  BY DEF PlacesKept
<1> QED
  BY <1>1, RouterInitHasInv, InitHasPlacesKept, RouterNextKeepsInv, NextKeepsPlaces, PTL DEF RouterSpec

(* No repository that is open was last used before one that is not.        *)
THEOREM EvictionIsLeastRecentlyUsed == RouterSpec => []LeastRecentlyUsedLeaves
<1>1. RouterInv /\ PlacesKept => LeastRecentlyUsedLeaves
  BY DEF PlacesKept
<1> QED
  BY <1>1, RouterInitHasInv, InitHasPlacesKept, RouterNextKeepsInv, NextKeepsPlaces, PTL DEF RouterSpec

(* A failed load destroys no usable entry.                                 *)
THEOREM FailedLoadsEvictNothing == RouterSpec => EvictionMakesPlace
<1>1. RouterInv /\ PlacesKept /\ [RouterNext]_routerVars => [MakesPlace]_routerVars
  BY NextKeepsPlaces
<1> QED
  BY <1>1, RouterInitHasInv, InitHasPlacesKept, RouterNextKeepsInv, NextKeepsPlaces, PTL
     DEF RouterSpec, EvictionMakesPlace, MakesPlace

(* Handles are never mistaken, for any repositories, processes, evictions  *)
(* and restarts.                                                           *)
THEOREM HandlesStaySound == RouterSpec => []HandlesAreSound
BY HandlesReachOnlyTheirBackend, NoHandleExpandsTwice, PTL DEF HandlesAreSound

(* Evictions make only the place that is needed, of those used least       *)
(* recently.                                                               *)
THEOREM EvictionStaysSound == RouterSpec => EvictionIsSound
<1>1. RouterSpec => [](RepositoriesAreBounded /\ LeastRecentlyUsedLeaves)
  BY RepositoriesStayBounded, EvictionIsLeastRecentlyUsed, PTL
<1> QED
  BY <1>1, FailedLoadsEvictNothing DEF EvictionIsSound

HIDE DEF Entries, Issued, Handles, Incarnations

-----------------------------------------------------------------------------
(* The runtime of a slot *)

Loading == {"start", "load", "loaded"}
Reading == {"refresh", "answer", "publish"}

(* A request and a job have a key while they need one; an open job is its  *)
(* slot's only job, which is busy; the runtime's lock has one holder, and  *)
(* it publishes what it computed.                                          *)
OneRuntime ==
  /\ \A c \in Conns : conn[c] # None /\ conn[c].at # "reply" => conn[c].key \in Keys
  /\ \A job \in Queued : job.kind # "open" => job.key \in Keys
  /\ \A i \in DOMAIN queries : queries[i].kind # "open"
  /\ \A w \in Busy : worker[w].at \in Reading \cup {"lock"} => worker[w].job.key \in Keys
  /\ \A i \in DOMAIN work : work[i].kind = "open" =>
       /\ slot[work[i].slot].busy
       /\ \A j \in DOMAIN work : work[j].slot = work[i].slot => j = i
       /\ \A j \in DOMAIN queries : queries[j].slot # work[i].slot
       /\ \A w \in Busy : SlotOf(w) # work[i].slot
  /\ \A w \in Busy : worker[w].at \in Loading =>
       /\ slot[SlotOf(w)].busy
       /\ \A job \in Queued : job.slot # SlotOf(w)
       /\ \A v \in Busy : SlotOf(v) = SlotOf(w) => v = w
  /\ \A w \in Busy : worker[w].at \in Reading =>
       /\ slot[SlotOf(w)].runtime \in Snapshots
       /\ \A v \in Busy : SlotOf(v) = SlotOf(w) /\ worker[v].at \in Reading => v = w
  /\ \A w \in Busy : worker[w].at = "publish" => worker[w].result \in {slot[SlotOf(w)].runtime, "error"}
  /\ \A w \in Busy : worker[w].at = "loaded" => worker[w].result \in Response

Bounded == IsFiniteSet(OpenProjects) /\ OpenIsBounded

Inv ==
  /\ TypeOK
  /\ OneRuntime
  /\ OneSlotPerProject
  /\ Bounded
  /\ BusyHasJob
  /\ CacheIsOfOpenGraphs

USE KeysAssumption, LimitsAssumption, ValuesAssumption

-----------------------------------------------------------------------------
(* Pool threads *)

(* A job goes on and its slot is changed. *)
LEMMA JobStep ==
  ASSUME Inv, NEW w \in Busy, NEW r \in Running, NEW t \in Slot, NEW s, s = SlotOf(w),
         worker' = [worker EXCEPT ![w] = r],
         slot' = [slot EXCEPT ![s] = t],
         UNCHANGED <<open, conn, work, queries>>,
         cache' \subseteq Cached,
         r.job.slot = s, t.project = slot[s].project,
         r.at \in Loading => worker[w].at \in Loading /\ t.busy,
         r.at \in Reading => t.runtime \in Snapshots,
         r.at \in Reading => \A v \in Busy \ {w} : SlotOf(v) = s => worker[v].at \notin Reading,
         t.runtime = slot[s].runtime \/ worker[w].at \in Loading \/ worker[w].at \in Reading,
         r.at \in Reading \cup {"lock"} => r.job.key \in Keys,
         r.at = "publish" => r.result \in {t.runtime, "error"},
         r.at = "loaded" => r.result \in Response
  PROVE  TypeOK' /\ OneRuntime' /\ OneSlotPerProject' /\ Bounded' /\ BusyHasJob'
<1>1. /\ w \in Workers /\ worker[w] # None /\ worker[w] \in Running /\ s \in Slots
      /\ worker'[w] = r /\ r # None
      /\ \A v \in Workers \ {w} : worker'[v] = worker[v]
      /\ worker' \in [Workers -> Running \cup {None}]
  BY DEF Inv, TypeOK, Busy, SlotOf, Running, Job
<1>2. s \in InUse /\ slot[s] \in Slot
  BY <1>1 DEF InUse, SlotOf, Inv, OneSlotPerProject, TypeOK, Busy
<1>3. /\ slot'[s] = t /\ t # None
      /\ \A x \in Slots \ {s} : slot'[x] = slot[x]
      /\ slot' \in [Slots -> Slot \cup {None}]
  BY <1>1, <1>2 DEF Inv, TypeOK
<1>4. TypeOK'
  BY <1>1, <1>3 DEF Inv, TypeOK
<1>5. Busy' = Busy /\ Queued' = Queued /\ InUse' = InUse /\ OpenProjects' = OpenProjects
  <2>1. Busy' = Busy
    BY <1>1 DEF Busy
  <2>2. Queued' = Queued /\ OpenProjects' = OpenProjects
    BY DEF Queued, OpenProjects
  <2>3. \A v \in Busy : worker'[v].job.slot = worker[v].job.slot
    BY <1>1 DEF Busy, SlotOf
  <2>4. InUse' = InUse
    BY <2>1, <2>2, <2>3 DEF InUse
  <2> QED
    BY <2>1, <2>2, <2>4
<1>6. \A v \in Busy : SlotOf(v)' = SlotOf(v)
  BY <1>1 DEF Busy, SlotOf
<1>7. OneSlotPerProject'
  BY <1>2, <1>3, <1>5 DEF Inv, OneSlotPerProject
<1>8. Bounded'
  BY <1>5 DEF Inv, Bounded, OpenIsBounded
<1>9. BusyHasJob'
  BY <1>1, <1>2, <1>3, <1>5, <1>6 DEF Inv, BusyHasJob
<1>10. OneRuntime'
  <2>1. \A v \in Busy \ {w} : SlotOf(v) = s => worker[v].at \notin Loading
    BY <1>1 DEF Inv, OneRuntime, Loading, Reading
  <2>2. \A i \in DOMAIN work : work[i].kind = "open" => work[i].slot \in Slots \ {s}
    <3>1. \A i \in DOMAIN work : work[i] \in Job
      BY DEF Inv, TypeOK
    <3>2. \A i \in DOMAIN work : work[i].slot \in Slots
      BY <3>1 DEF Job
    <3> QED
      BY <3>2 DEF Inv, OneRuntime, Loading, Reading
  <2>3. \A job \in Queued : job.slot # s \/ worker[w].at \notin Loading
    BY <1>1 DEF Inv, OneRuntime, Loading, Reading
  <2>4. \A v \in Busy : v \in Workers /\ SlotOf(v) \in Slots
    BY <1>1 DEF Inv, TypeOK, Busy, SlotOf, Running, Job
  <2>5. \A v \in Busy : worker'[v].at \in Loading =>
           /\ slot'[SlotOf(v)].busy
           /\ \A job \in Queued : job.slot # SlotOf(v)
           /\ \A u \in Busy : SlotOf(u) = SlotOf(v) => u = v
    BY <1>1, <1>3, <2>1, <2>3, <2>4 DEF Inv, OneRuntime, Loading, Reading
  <2>6. \A v \in Busy : worker'[v].at \in Reading =>
           /\ slot'[SlotOf(v)].runtime \in Snapshots
           /\ \A u \in Busy : SlotOf(u) = SlotOf(v) /\ worker'[u].at \in Reading => u = v
    BY <1>1, <1>3, <2>1, <2>4 DEF Inv, OneRuntime, Loading, Reading
  <2>7. \A v \in Busy : worker'[v].at = "publish" => worker'[v].result \in {slot'[SlotOf(v)].runtime, "error"}
    BY <1>1, <1>3, <2>1, <2>4 DEF Inv, OneRuntime, Loading, Reading
  <2>8. \A v \in Busy :
          /\ worker'[v].at = "loaded" => worker'[v].result \in Response
          /\ worker'[v].at \in Reading \cup {"lock"} => worker'[v].job.key \in Keys
    BY <1>1, <2>4 DEF Inv, OneRuntime, Loading, Reading
  <2>9. \A i \in DOMAIN work : work[i].kind = "open" => slot'[work[i].slot].busy
    BY <1>3, <2>2 DEF Inv, OneRuntime, Loading, Reading
  <2> QED
    BY <1>5, <1>6, <2>5, <2>6, <2>7, <2>8, <2>9 DEF Inv, OneRuntime, Loading, Reading
<1> QED
  BY <1>4, <1>7, <1>8, <1>9, <1>10

(* What is in use are slots, and what a job or request refers to one.      *)
LEMMA InUseAreSlots ==
  ASSUME Inv PROVE InUse \subseteq Slots \cup {None}
<1>1. \A c \in Conns : conn[c] # None => conn[c] \in Request
  BY DEF Inv, TypeOK
<1>2. \A job \in Queued : job \in Job
  BY DEF Inv, TypeOK, Queued
<1>3. \A w \in Busy : worker[w] \in Running
  BY DEF Inv, TypeOK, Busy
<1>4. \A c \in Conns : conn[c] # None => conn[c].slot \in Slots \cup {None}
  BY <1>1 DEF Request
<1>5. \A job \in Queued : job.slot \in Slots
  BY <1>2 DEF Job
<1>6. \A w \in Busy : worker[w].job.slot \in Slots
  BY <1>3 DEF Running, Job
<1> QED
  BY <1>4, <1>5, <1>6 DEF InUse

(* An open project's slot is in memory, and no other project's. *)
LEMMA OpenSlots ==
  ASSUME Inv, NEW p \in OpenProjects
  PROVE  /\ p \in Projects /\ open[p] \in Slots /\ slot[open[p]] \in Slot
         /\ \A q \in OpenProjects : open[q] = open[p] => q = p
BY DEF Inv, OneSlotPerProject, TypeOK, OpenProjects

LEMMA SlotsOfJobs ==
  ASSUME Inv, NEW w \in Busy
  PROVE  /\ w \in Workers /\ worker[w] \in Running /\ worker[w].job \in Job
         /\ SlotOf(w) \in Slots /\ slot[SlotOf(w)] \in Slot
<1>1. w \in Workers /\ worker[w] \in Running
  BY DEF Inv, TypeOK, Busy
<1>2. worker[w].job \in Job /\ SlotOf(w) \in Slots
  BY <1>1 DEF Running, Job, SlotOf
<1>3. SlotOf(w) \in InUse
  BY DEF InUse, SlotOf
<1> QED
  BY <1>1, <1>2, <1>3 DEF Inv, TypeOK, OneSlotPerProject

LEMMA StartLoadKeepsInv ==
  ASSUME Inv, NEW w \in Workers, StartLoad(w) PROVE Inv'
<1> DEFINE s == SlotOf(w)
           r == [worker[w] EXCEPT !.at = "load", !.result = None]
           t == [slot[s] EXCEPT !.phase = "indexing"]
<1>1. w \in Busy /\ worker[w].at = "start"
  BY DEF StartLoad, At, Busy
<1>2. worker[w] \in Running /\ slot[s] \in Slot /\ s \in Slots
  BY <1>1, SlotsOfJobs
<1>3. r \in Running /\ r.at = "load" /\ r.job = worker[w].job /\ r.result = None
  BY <1>2 DEF Running
<1>4. t \in Slot /\ t.project = slot[s].project /\ t.runtime = slot[s].runtime /\ t.busy = slot[s].busy
  BY <1>2 DEF Slot
<1>5. /\ worker' = [worker EXCEPT ![w] = r]
      /\ slot' = [slot EXCEPT ![s] = t]
      /\ UNCHANGED <<open, conn, work, queries, cache>>
  <2>1. slot' = [slot EXCEPT ![s] = t]
    BY <1>2 DEF StartLoad, Inv, TypeOK
  <2> QED
    BY <2>1 DEF StartLoad, Step
<1>6. slot[s].busy
  BY <1>1 DEF Inv, OneRuntime, Loading, Reading
<1>7. cache \subseteq Cached /\ r.job.slot = s
  BY <1>3 DEF Inv, TypeOK, SlotOf
<1> HIDE DEF r, t, s
<1>8. TypeOK' /\ OneRuntime' /\ OneSlotPerProject' /\ Bounded' /\ BusyHasJob'
  <2> USE DEF Loading, Reading
  <2> QED
    BY <1>1, <1>2, <1>3, <1>4, <1>5, <1>6, <1>7, JobStep DEF s
<1> QED
  BY <1>5, <1>8 DEF Inv, CacheIsOfOpenGraphs

LEMMA LoadKeepsInv ==
  ASSUME Inv, NEW w \in Workers, Load(w) PROVE Inv'
<1> DEFINE s == SlotOf(w)
           r(x) == [worker[w] EXCEPT !.at = "loaded", !.result = x]
           t(x) == [slot[s] EXCEPT !.runtime = x]
<1>1. w \in Busy /\ worker[w].at = "load"
  BY DEF Load, At, Busy
<1>2. worker[w] \in Running /\ slot[s] \in Slot /\ s \in Slots
  BY <1>1, SlotsOfJobs
<1>3. PICK x \in Response, y \in Snapshots \cup {None} :
        /\ worker' = [worker EXCEPT ![w] = r(x)]
        /\ slot' = [slot EXCEPT ![s] = t(y)]
  <2>1. CASE \E snapshot \in Snapshots :
               /\ slot' = [slot EXCEPT ![SlotOf(w)].runtime = snapshot]
               /\ Step(w, "loaded", snapshot)
    BY <2>1 DEF Step, Response
  <2>2. CASE Step(w, "loaded", "error") /\ UNCHANGED slot
    <3>1. slot[s].runtime \in Snapshots \cup {None} /\ t(slot[s].runtime) = slot[s]
      BY <1>2 DEF Slot
    <3>2. slot' = [slot EXCEPT ![s] = t(slot[s].runtime)]
      BY <1>2, <2>2, <3>1 DEF Inv, TypeOK
    <3> QED
      BY <2>2, <3>1, <3>2 DEF Step, Response
  <2> QED
    BY <2>1, <2>2 DEF Load
<1>4. r(x) \in Running /\ r(x).at = "loaded" /\ r(x).job = worker[w].job /\ r(x).result = x
  BY <1>2 DEF Running
<1>5. t(y) \in Slot /\ t(y).project = slot[s].project /\ t(y).busy = slot[s].busy
  BY <1>2 DEF Slot
<1>6. slot[s].busy /\ UNCHANGED <<open, conn, work, queries, cache>>
  BY <1>1 DEF Inv, OneRuntime, Load, Loading, Reading
<1>7. cache \subseteq Cached /\ r(x).job.slot = s
  BY <1>4 DEF Inv, TypeOK, SlotOf
<1> HIDE DEF r, t, s
<1>8. TypeOK' /\ OneRuntime' /\ OneSlotPerProject' /\ Bounded' /\ BusyHasJob'
  <2> USE DEF Loading, Reading
  <2> QED
    BY <1>1, <1>2, <1>3, <1>4, <1>5, <1>6, <1>7, JobStep DEF s
<1> QED
  BY <1>6, <1>8 DEF Inv, CacheIsOfOpenGraphs

LEMMA FinishLoadKeepsInv ==
  ASSUME Inv, NEW w \in Workers, FinishLoad(w) PROVE Inv'
<1> DEFINE s == SlotOf(w)
           result == worker[w].result
           r == [at |-> "guard", job |-> [kind |-> None, slot |-> worker[w].job.slot, key |-> None], result |-> None]
           t == [slot[s] EXCEPT !.busy = FALSE, !.phase = IF result = "error" THEN "error" ELSE "ready",
                                !.snapshot = IF result = "error" THEN slot[s].snapshot ELSE result]
<1>1. w \in Busy /\ worker[w].at = "loaded"
  BY DEF FinishLoad, At, Busy
<1>2. worker[w] \in Running /\ slot[s] \in Slot /\ s \in Slots
  BY <1>1, SlotsOfJobs
<1>3. result \in Response
  BY <1>1 DEF Inv, OneRuntime, Loading, Reading
<1>4. r \in Running /\ r.at = "guard" /\ r.job.slot = s
  BY <1>2 DEF Running, Job, SlotOf
<1>5. t \in Slot /\ t.project = slot[s].project /\ t.runtime = slot[s].runtime
  BY <1>2, <1>3 DEF Slot, Response
<1>6. /\ worker' = [worker EXCEPT ![w] = r]
      /\ slot' = [slot EXCEPT ![s] = t]
      /\ UNCHANGED <<open, conn, work, queries, cache>>
  BY DEF FinishLoad, Done
<1>7. cache \subseteq Cached
  BY DEF Inv, TypeOK
<1> HIDE DEF r, t, s
<1>8. TypeOK' /\ OneRuntime' /\ OneSlotPerProject' /\ Bounded' /\ BusyHasJob'
  <2> USE DEF Loading, Reading
  <2> QED
    BY <1>1, <1>2, <1>4, <1>5, <1>6, <1>7, JobStep DEF s
<1> QED
  BY <1>6, <1>8 DEF Inv, CacheIsOfOpenGraphs

LEMMA LockRuntimeKeepsInv ==
  ASSUME Inv, NEW w \in Workers, LockRuntime(w) PROVE Inv'
<1> DEFINE s == SlotOf(w)
           done == [at |-> "guard", job |-> [kind |-> None, slot |-> worker[w].job.slot, key |-> None], result |-> None]
           next(stage) == [worker[w] EXCEPT !.at = stage, !.result = None]
<1>1. w \in Busy /\ worker[w].at = "lock" /\ UNCHANGED <<slot, open, conn, work, queries, cache>>
  BY DEF LockRuntime, At, Busy
<1>2. worker[w] \in Running /\ slot[s] \in Slot /\ s \in Slots
  BY <1>1, SlotsOfJobs
<1>3. slot' = [slot EXCEPT ![s] = slot[s]]
  BY <1>1, <1>2 DEF Inv, TypeOK
<1>4. cache \subseteq Cached
  BY DEF Inv, TypeOK
<1>5. CASE slot[s].runtime = None
  <2>1. worker' = [worker EXCEPT ![w] = done]
    BY <1>5 DEF LockRuntime, Done
  <2>2. done \in Running /\ done.at = "guard" /\ done.job.slot = s
    BY <1>2 DEF Running, Job, SlotOf
  <2> HIDE DEF done, s
  <2>3. TypeOK' /\ OneRuntime' /\ OneSlotPerProject' /\ Bounded' /\ BusyHasJob'
    BY <1>1, <1>2, <1>3, <1>4, <2>1, <2>2, JobStep DEF s, Loading, Reading
  <2> QED
    BY <1>1, <2>3 DEF Inv, CacheIsOfOpenGraphs
<1>6. CASE slot[s].runtime # None
  <2>1. PICK stage \in {"refresh", "answer"} : worker' = [worker EXCEPT ![w] = next(stage)]
    BY <1>6 DEF LockRuntime, Step
  <2>2. next(stage) \in Running /\ next(stage).at = stage /\ next(stage).job = worker[w].job
    BY <1>2 DEF Running
  <2>3. next(stage).job.slot = s /\ worker[w].job.key \in Keys /\ slot[s].runtime \in Snapshots
    BY <1>1, <1>2, <1>6, <2>2 DEF Inv, OneRuntime, SlotOf, Slot, Loading, Reading
  <2>4. \A v \in Busy \ {w} : SlotOf(v) = s => worker[v].at \notin Reading
    BY DEF LockRuntime, Reading
  <2> HIDE DEF next, s
  <2>5. TypeOK' /\ OneRuntime' /\ OneSlotPerProject' /\ Bounded' /\ BusyHasJob'
    BY <1>1, <1>2, <1>3, <1>4, <2>1, <2>2, <2>3, <2>4, JobStep DEF s, Loading, Reading
  <2> QED
    BY <1>1, <2>5 DEF Inv, CacheIsOfOpenGraphs
<1> QED
  BY <1>5, <1>6

(* A thread that reads a runtime goes on, with the runtime it has or a new *)
(* one, and nobody else reads it.                                          *)
LEMMA ReadingStep ==
  ASSUME Inv, NEW w \in Busy, worker[w].at \in Reading, NEW r \in Running, NEW t \in Slot,
         r.at \in {"answer", "publish"}, r.job = worker[w].job,
         r.at = "publish" => r.result \in {t.runtime, "error"},
         t.project = slot[SlotOf(w)].project, t.runtime \in Snapshots,
         worker' = [worker EXCEPT ![w] = r],
         slot' = [slot EXCEPT ![SlotOf(w)] = t],
         UNCHANGED <<open, cache, conn, work, queries>>
  PROVE  Inv'
<1>1. r.job.slot = SlotOf(w) /\ r.job.key \in Keys /\ cache' \subseteq Cached
  BY DEF Inv, TypeOK, OneRuntime, Reading, SlotOf, Loading
<1>2. \A v \in Busy \ {w} : SlotOf(v) = SlotOf(w) => worker[v].at \notin Reading
  BY DEF Inv, OneRuntime, Reading, Loading
<1>3. r.at \notin Loading /\ r.at # "loaded"
  BY DEF Loading
<1>4. TypeOK' /\ OneRuntime' /\ OneSlotPerProject' /\ Bounded' /\ BusyHasJob'
  BY <1>1, <1>2, <1>3, JobStep
<1> QED
  BY <1>4 DEF Inv, CacheIsOfOpenGraphs

LEMMA RefreshKeepsInv ==
  ASSUME Inv, NEW w \in Workers, Refresh(w) PROVE Inv'
<1> DEFINE s == SlotOf(w)
           r(stage, result) == [worker[w] EXCEPT !.at = stage, !.result = result]
           t(runtime) == [slot[s] EXCEPT !.runtime = runtime]
<1>1. w \in Busy /\ worker[w].at \in Reading /\ UNCHANGED <<open, cache, conn, work, queries>>
  BY DEF Refresh, At, Busy, Reading
<1>2. worker[w] \in Running /\ slot[s] \in Slot /\ s \in Slots
  BY <1>1, SlotsOfJobs
<1>3. PICK runtime \in Snapshots, stage \in {"answer", "publish"}, result \in {None, "error"} :
        /\ slot' = [slot EXCEPT ![s] = t(runtime)]
        /\ worker' = [worker EXCEPT ![w] = r(stage, result)]
        /\ stage = "publish" => result = "error"
  BY DEF Refresh, Step
<1>4. r(stage, result) \in Running /\ r(stage, result).at = stage /\ r(stage, result).job = worker[w].job
      /\ r(stage, result).result = result
  BY <1>2 DEF Running, Response
<1>5. t(runtime) \in Slot /\ t(runtime).project = slot[s].project /\ t(runtime).runtime = runtime
  BY <1>2 DEF Slot
<1> HIDE DEF r, t
<1> QED
  BY <1>1, <1>3, <1>4, <1>5, ReadingStep

LEMMA AnswerKeepsInv ==
  ASSUME Inv, NEW w \in Workers, Answer(w) PROVE Inv'
<1> DEFINE s == SlotOf(w)
           r(result) == [worker[w] EXCEPT !.at = "publish", !.result = result]
<1>1. w \in Busy /\ worker[w].at = "answer" /\ UNCHANGED <<open, cache, conn, work, queries>>
  BY DEF Answer, At, Busy
<1>2. worker[w] \in Running /\ slot[s].runtime \in Snapshots /\ slot[s] \in Slot /\ s \in Slots
  BY <1>1, SlotsOfJobs DEF Inv, OneRuntime, Loading, Reading
<1>3. slot' = [slot EXCEPT ![s] = slot[s]]
  BY <1>2 DEF Answer, Inv, TypeOK
<1>4. PICK result \in {slot[s].runtime, "error"} : worker' = [worker EXCEPT ![w] = r(result)]
  BY DEF Answer, Step, Inv, CacheIsOfOpenGraphs
<1>5. r(result) \in Running /\ r(result).at = "publish" /\ r(result).job = worker[w].job
      /\ r(result).result = result
  BY <1>2 DEF Running, Response
<1> HIDE DEF r
<1> QED
  BY <1>1, <1>2, <1>3, <1>4, <1>5, ReadingStep DEF Reading

LEMMA PublishKeepsInv ==
  ASSUME Inv, NEW w \in Workers, Publish(w) PROVE Inv'
<1> DEFINE s == SlotOf(w)
           result == worker[w].result
           r == [at |-> "guard", job |-> [kind |-> None, slot |-> worker[w].job.slot, key |-> None], result |-> None]
           t == [slot[s] EXCEPT !.busy = FALSE, !.snapshot = slot[s].runtime,
                                !.phase = IF result = "error" THEN "error" ELSE "ready"]
           e == [project |-> slot[s].project, snapshot |-> slot[s].runtime,
                 key |-> worker[w].job.key, response |-> result]
<1>1. w \in Busy /\ worker[w].at = "publish"
  BY DEF Publish, At, Busy
<1>2. worker[w] \in Running /\ slot[s] \in Slot /\ s \in Slots
  BY <1>1, SlotsOfJobs
<1>3. result \in {slot[s].runtime, "error"} /\ slot[s].runtime \in Snapshots /\ worker[w].job.key \in Keys
  BY <1>1 DEF Inv, OneRuntime, Loading, Reading
<1>4. r \in Running /\ r.at = "guard" /\ r.job.slot = s
  BY <1>2 DEF Running, Job, SlotOf
<1>5. t \in Slot /\ t.project = slot[s].project /\ t.runtime = slot[s].runtime
  BY <1>2, <1>3 DEF Slot
<1>6. /\ worker' = [worker EXCEPT ![w] = r]
      /\ slot' = [slot EXCEPT ![s] = t]
      /\ UNCHANGED <<open, conn, work, queries>>
  BY DEF Publish, Done
<1>7. e \in Cached /\ e.response \in {e.snapshot, "error"} /\ e.project = slot[s].project
  BY <1>2, <1>3 DEF Cached, Response, Slot
<1>8. \A o \in cache' : \/ o = e
                        \/ o \in cache /\ (o.project = e.project => o.snapshot = e.snapshot)
  BY DEF Publish, Inserted
<1>9. cache' \subseteq Cached
  BY <1>7, <1>8 DEF Inv, TypeOK
<1>10. open[slot[s].project] # None
  BY <1>2 DEF Inv, OneSlotPerProject
<1> HIDE DEF r, t, s, e
<1>11. TypeOK' /\ OneRuntime' /\ OneSlotPerProject' /\ Bounded' /\ BusyHasJob'
  BY <1>1, <1>2, <1>4, <1>5, <1>6, <1>9, JobStep DEF s, Loading, Reading
<1>12. CacheIsOfOpenGraphs'
  BY <1>6, <1>7, <1>8, <1>10 DEF Inv, CacheIsOfOpenGraphs
<1> QED
  BY <1>11, <1>12 DEF Inv

LEMMA PanicKeepsInv ==
  ASSUME Inv, NEW w \in Workers, Panic(w) PROVE Inv'
<1> DEFINE s == SlotOf(w)
           r == [at |-> "guard", job |-> [kind |-> None, slot |-> worker[w].job.slot, key |-> None], result |-> None]
<1>1. w \in Busy
  BY DEF Panic, Busy
<1>2. worker[w] \in Running /\ slot[s] \in Slot /\ s \in Slots
  BY <1>1, SlotsOfJobs
<1>3. r \in Running /\ r.at = "guard" /\ r.job.slot = s
  BY <1>2 DEF Running, Job, SlotOf
<1>4. /\ worker' = [worker EXCEPT ![w] = r]
      /\ slot' = [slot EXCEPT ![s] = slot[s]]
      /\ UNCHANGED <<open, conn, work, queries, cache>>
  BY <1>2 DEF Panic, Done, Inv, TypeOK
<1>5. cache \subseteq Cached
  BY DEF Inv, TypeOK
<1> HIDE DEF r, s
<1>6. TypeOK' /\ OneRuntime' /\ OneSlotPerProject' /\ Bounded' /\ BusyHasJob'
  BY <1>1, <1>2, <1>3, <1>4, <1>5, JobStep DEF s, Loading, Reading
<1> QED
  BY <1>4, <1>6 DEF Inv, CacheIsOfOpenGraphs

(* A thread whose job is over leaves its slot idle. *)
LEMMA DropGuardKeepsInv ==
  ASSUME Inv, NEW w \in Workers, DropGuard(w) PROVE Inv'
<1> DEFINE s == SlotOf(w)
           t == [slot[s] EXCEPT !.busy = FALSE, !.phase = "error"]
<1>1. w \in Busy /\ worker[w].at = "guard"
  BY DEF DropGuard, At, Busy
<1>2. worker[w] \in Running /\ slot[s] \in Slot /\ s \in Slots
  BY <1>1, SlotsOfJobs
<1>3. /\ worker'[w] = None /\ \A v \in Workers \ {w} : worker'[v] = worker[v]
      /\ worker' \in [Workers -> Running \cup {None}]
      /\ UNCHANGED <<open, conn, work, queries, cache>>
  BY DEF DropGuard, Inv, TypeOK
<1>4. t \in Slot /\ t.project = slot[s].project /\ ~t.busy /\ t.runtime = slot[s].runtime
  BY <1>2 DEF Slot
<1>5. /\ slot' \in [Slots -> Slot \cup {None}]
      /\ slot'[s] \in Slot /\ slot'[s].project = slot[s].project /\ ~slot'[s].busy
      /\ slot'[s].runtime = slot[s].runtime
      /\ \A x \in Slots \ {s} : slot'[x] = slot[x]
  <2>1. CASE slot[s].busy
    <3>1. slot' = [slot EXCEPT ![s] = t]
      BY <2>1 DEF DropGuard
    <3> HIDE DEF t
    <3> QED
      BY <1>2, <1>4, <3>1 DEF Inv, TypeOK
  <2>2. CASE ~slot[s].busy
    BY <1>2, <2>2 DEF DropGuard, Inv, TypeOK
  <2> QED
    BY <2>1, <2>2
<1> HIDE DEF t
<1>6. Busy' = Busy \ {w} /\ Queued' = Queued /\ OpenProjects' = OpenProjects
  BY <1>3 DEF Busy, Queued, OpenProjects
<1>7. \A v \in Busy' : v \in Busy /\ worker'[v] = worker[v] /\ SlotOf(v)' = SlotOf(v)
  BY <1>3, <1>6 DEF Busy, SlotOf
<1>8. InUse' \subseteq InUse
  BY <1>3, <1>6, <1>7 DEF InUse
<1>9. TypeOK'
  BY <1>3, <1>5 DEF Inv, TypeOK
<1>10. OneSlotPerProject'
  <2>1. \A x \in Slots : slot'[x] # None <=> slot[x] # None
    BY <1>2, <1>5
  <2>2. \A x \in Slots : slot'[x] # None => slot'[x].project = slot[x].project
    BY <1>5
  <2>3. \A x \in InUse \ {None} : x \in Slots /\ slot[x] # None
    BY InUseAreSlots DEF Inv, OneSlotPerProject
  <2>4. \A p \in OpenProjects : open[p] \in Slots
    BY OpenSlots
  <2> QED
    BY <1>3, <1>6, <1>8, <2>1, <2>2, <2>3, <2>4 DEF Inv, OneSlotPerProject
<1>11. Bounded'
  BY <1>6 DEF Inv, Bounded, OpenIsBounded
<1>12. BusyHasJob'
  <2> SUFFICES ASSUME NEW x \in Slots, slot'[x] # None, slot'[x].busy
               PROVE  (\E job \in Queued' : job.slot = x) \/ (\E v \in Busy' : SlotOf(v)' = x)
    BY DEF BusyHasJob
  <2>1. x # s /\ slot[x] # None /\ slot[x].busy
    BY <1>5
  <2>2. (\E job \in Queued : job.slot = x) \/ (\E v \in Busy : SlotOf(v) = x)
    BY <2>1 DEF Inv, BusyHasJob
  <2> QED
    BY <1>6, <1>7, <2>1, <2>2
<1>13. OneRuntime'
  <2>1. \A v \in Busy' : worker'[v].at \in Loading => SlotOf(v) # s
    BY <1>1, <1>6, <1>7 DEF Inv, OneRuntime, Loading, Reading
  <2>2. \A i \in DOMAIN work : work[i].kind = "open" => work[i].slot \in Slots \ {s}
    <3>1. \A i \in DOMAIN work : work[i] \in Job
      BY DEF Inv, TypeOK
    <3>2. \A i \in DOMAIN work : work[i].slot \in Slots
      BY <3>1 DEF Job
    <3> QED
      BY <1>1, <3>2 DEF Inv, OneRuntime, Loading, Reading
  <2>3. \A v \in Busy : SlotOf(v) \in Slots
    BY SlotsOfJobs
  <2>4. \A i \in DOMAIN work' : work'[i].kind = "open" =>
          /\ slot'[work'[i].slot].busy
          /\ \A j \in DOMAIN work' : work'[j].slot = work'[i].slot => j = i
          /\ \A j \in DOMAIN queries' : queries'[j].slot # work'[i].slot
          /\ \A v \in Busy' : SlotOf(v)' # work'[i].slot
    BY <1>3, <1>5, <1>7, <2>2 DEF Inv, OneRuntime, Loading, Reading
  <2>5. \A v \in Busy' : worker'[v].at \in Loading =>
          /\ slot'[SlotOf(v)'].busy
          /\ \A job \in Queued' : job.slot # SlotOf(v)'
          /\ \A u \in Busy' : SlotOf(u)' = SlotOf(v)' => u = v
    BY <1>5, <1>6, <1>7, <2>1, <2>3 DEF Inv, OneRuntime, Loading, Reading
  <2>6. \A v \in Busy' : slot'[SlotOf(v)'].runtime = slot[SlotOf(v)].runtime
    BY <1>5, <1>7, <2>3
  <2> QED
    BY <1>3, <1>6, <1>7, <2>4, <2>5, <2>6 DEF Inv, OneRuntime, Loading, Reading
<1> QED
  BY <1>3, <1>9, <1>10, <1>11, <1>12, <1>13 DEF Inv, CacheIsOfOpenGraphs

(* A thread takes a job that waited: what refers to slots stays the same. *)
LEMMA TakeStep ==
  ASSUME Inv, NEW w \in Workers, worker[w] = None, NEW job \in Queued,
         worker' = [worker EXCEPT ![w] = First(job)],
         UNCHANGED <<slot, open, conn, cache>>,
         work' \in Seq(Job), Len(work') <= Capacity, queries' \in Seq(Job), Len(queries') <= Capacity,
         Queued \subseteq Queued' \cup {job}, Queued' \subseteq Queued,
         \A i \in DOMAIN queries' : queries'[i].kind # "open",
         job.kind = "open" => \A k \in Queued' : k.slot # job.slot,
         \A i \in DOMAIN work' : work'[i].kind = "open" =>
           /\ work'[i].slot # job.slot
           /\ slot[work'[i].slot].busy
           /\ \A j \in DOMAIN work' : work'[j].slot = work'[i].slot => j = i
           /\ \A j \in DOMAIN queries' : queries'[j].slot # work'[i].slot
           /\ \A v \in Busy : SlotOf(v) # work'[i].slot
  PROVE  Inv'
<1> DEFINE r == First(job)
<1>1. job \in Job
  BY DEF Inv, TypeOK, Queued
<1>2. r \in Running /\ r.job = job /\ r.at = (IF job.kind = "open" THEN "start" ELSE "lock")
  BY <1>1 DEF First, Running
<1> HIDE DEF r
<1>3. /\ worker'[w] = r /\ r # None /\ \A v \in Workers \ {w} : worker'[v] = worker[v]
      /\ worker' \in [Workers -> Running \cup {None}]
  BY <1>2 DEF Inv, TypeOK, r
<1>4. Busy' = Busy \cup {w} /\ w \notin Busy
  BY <1>3 DEF Busy
<1>5. SlotOf(w)' = job.slot /\ \A v \in Busy : worker'[v] = worker[v] /\ SlotOf(v)' = SlotOf(v)
  BY <1>2, <1>3, <1>4 DEF SlotOf, Busy
<1>6. job.slot \in InUse /\ InUse' \subseteq InUse
  <2>1. job.slot \in InUse
    BY DEF InUse
  <2>2. \A k \in Queued' : k.slot \in InUse
    BY DEF InUse
  <2>3. \A v \in Busy' : worker'[v].job.slot \in InUse
    BY <1>4, <1>5, <2>1 DEF InUse, SlotOf
  <2>4. \A c \in Conns : conn'[c] # None => conn'[c].slot \in InUse
    BY DEF InUse
  <2> QED
    BY <2>1, <2>2, <2>3, <2>4, SMTT(20) DEF InUse
<1>7. TypeOK'
  BY <1>3 DEF Inv, TypeOK
<1>8. OneSlotPerProject' /\ Bounded'
  BY <1>6 DEF Inv, OneSlotPerProject, Bounded, OpenIsBounded, OpenProjects
<1>9. BusyHasJob'
  BY <1>4, <1>5 DEF Inv, BusyHasJob
<1>10. OneRuntime'
  <2>1. \A v \in Busy : worker[v].at \in Loading => job.slot # SlotOf(v)
    BY DEF Inv, OneRuntime, Loading, Reading
  <2>2. job.kind = "open" => slot[job.slot].busy /\ \A v \in Busy : SlotOf(v) # job.slot
    BY DEF Inv, OneRuntime, Queued, Loading, Reading
  <2>3. \A v \in Busy' : worker'[v].at \in Loading =>
          /\ slot'[SlotOf(v)'].busy
          /\ \A k \in Queued' : k.slot # SlotOf(v)'
          /\ \A u \in Busy' : SlotOf(u)' = SlotOf(v)' => u = v
    BY <1>2, <1>3, <1>4, <1>5, <2>1, <2>2 DEF Inv, OneRuntime, Loading, Reading
  <2>4. \A i \in DOMAIN work' : work'[i].kind = "open" =>
          \A v \in Busy' : SlotOf(v)' # work'[i].slot
    BY <1>4, <1>5
  <2>5. \A v \in Busy' : worker'[v].at \in Reading \cup {"lock"} => worker'[v].job.key \in Keys
    BY <1>2, <1>3, <1>4, <1>5 DEF Inv, OneRuntime, Reading, Loading
  <2>6. \A v \in Busy' : worker'[v].at \in Reading \cup {"loaded"} => v \in Busy
    BY <1>2, <1>3, <1>4 DEF Reading
  <2> QED
    BY <1>4, <1>5, <2>3, <2>4, <2>5, <2>6 DEF Inv, OneRuntime, Loading, Reading
<1> QED
  BY <1>7, <1>8, <1>9, <1>10 DEF Inv, CacheIsOfOpenGraphs

LEMMA TakeWorkKeepsInv ==
  ASSUME Inv, NEW w \in Workers, TakeWork(w) PROVE Inv'
<1> DEFINE job == work[1]
<1>1. /\ work \in Seq(Job) /\ work # <<>> /\ queries \in Seq(Job) /\ Len(work) <= Capacity /\ Len(queries) <= Capacity
      /\ job = Head(work) /\ 1 \in DOMAIN work
  BY DEF TakeWork, Inv, TypeOK
<1>2. /\ work' \in Seq(Job) /\ Len(work') = Len(work) - 1
      /\ \A i \in DOMAIN work' : i + 1 \in DOMAIN work /\ work'[i] = work[i + 1]
      /\ \A i \in DOMAIN work \ {1} : i - 1 \in DOMAIN work' /\ work[i] = work'[i - 1]
  BY <1>1 DEF TakeWork
<1>3. worker[w] = None /\ UNCHANGED <<slot, open, conn, cache, queries>> /\ worker' = [worker EXCEPT ![w] = First(job)]
  BY <1>1 DEF TakeWork
<1> HIDE DEF job
<1>4. job \in Queued /\ Queued \subseteq Queued' \cup {job} /\ Queued' \subseteq Queued
  <2>1. \A i \in DOMAIN work : work[i] = job \/ \E j \in DOMAIN work' : work'[j] = work[i]
    BY <1>2 DEF job
  <2>2. \A j \in DOMAIN work' : \E i \in DOMAIN work : work[i] = work'[j]
    BY <1>2
  <2>3. job \in Queued
    BY <1>1 DEF Queued, job
  <2> QED
    BY <1>3, <2>1, <2>2, <2>3 DEF Queued
<1>5. job.kind = "open" => \A k \in Queued' : k.slot # job.slot
  <2>1. job.kind = "open" => \A i \in DOMAIN work' : work'[i].slot # job.slot
    <3>1. \A i \in DOMAIN work' : i + 1 # 1 /\ i + 1 \in DOMAIN work /\ work'[i] = work[i + 1]
      BY <1>2
    <3> QED
      BY <1>1, <3>1 DEF Inv, OneRuntime, job, Loading, Reading
  <2>2. job.kind = "open" => \A i \in DOMAIN queries : queries[i].slot # job.slot
    BY <1>1 DEF Inv, OneRuntime, job, Loading, Reading
  <2> QED
    BY <1>3, <2>1, <2>2 DEF Queued
<1>6. \A i \in DOMAIN work' : work'[i].kind = "open" =>
        /\ work'[i].slot # job.slot
        /\ slot[work'[i].slot].busy
        /\ \A j \in DOMAIN work' : work'[j].slot = work'[i].slot => j = i
        /\ \A j \in DOMAIN queries' : queries'[j].slot # work'[i].slot
        /\ \A v \in Busy : SlotOf(v) # work'[i].slot
  <2> SUFFICES ASSUME NEW i \in DOMAIN work', work'[i].kind = "open"
               PROVE  /\ work'[i].slot # job.slot
                      /\ slot[work'[i].slot].busy
                      /\ \A j \in DOMAIN work' : work'[j].slot = work'[i].slot => j = i
                      /\ \A j \in DOMAIN queries' : queries'[j].slot # work'[i].slot
                      /\ \A v \in Busy : SlotOf(v) # work'[i].slot
    OBVIOUS
  <2>1. i \in Nat /\ i + 1 \in DOMAIN work /\ work[i + 1] = work'[i] /\ i + 1 # 1
    BY <1>2
  <2>2. \A j \in DOMAIN work' : j \in Nat /\ j + 1 \in DOMAIN work /\ work[j + 1] = work'[j]
    BY <1>2
  <2>3. /\ slot[work[i + 1].slot].busy
        /\ \A j \in DOMAIN work : work[j].slot = work[i + 1].slot => j = i + 1
        /\ \A j \in DOMAIN queries : queries[j].slot # work[i + 1].slot
        /\ \A v \in Busy : SlotOf(v) # work[i + 1].slot
    BY <2>1 DEF Inv, OneRuntime, Loading, Reading
  <2> QED
    BY <1>1, <1>3, <2>1, <2>2, <2>3, SMTT(20) DEF job
<1>7. \A i \in DOMAIN queries' : queries'[i].kind # "open"
  BY <1>3 DEF Inv, OneRuntime, Loading, Reading
<1>8. Len(work') <= Capacity /\ queries' \in Seq(Job) /\ Len(queries') <= Capacity
  BY <1>1, <1>2, <1>3
<1> QED
  BY <1>2, <1>3, <1>4, <1>5, <1>6, <1>7, <1>8, TakeStep

LEMMA TakeQueryKeepsInv ==
  ASSUME Inv, NEW w \in Workers, TakeQuery(w) PROVE Inv'
<1> DEFINE job == queries[1]
<1>1. /\ work \in Seq(Job) /\ queries # <<>> /\ queries \in Seq(Job) /\ Len(work) <= Capacity /\ Len(queries) <= Capacity
      /\ job = Head(queries) /\ 1 \in DOMAIN queries
  BY DEF TakeQuery, Inv, TypeOK
<1>2. /\ queries' \in Seq(Job) /\ Len(queries') = Len(queries) - 1
      /\ \A i \in DOMAIN queries' : i + 1 \in DOMAIN queries /\ queries'[i] = queries[i + 1]
      /\ \A i \in DOMAIN queries \ {1} : i - 1 \in DOMAIN queries' /\ queries[i] = queries'[i - 1]
  BY <1>1 DEF TakeQuery
<1>3. worker[w] = None /\ UNCHANGED <<slot, open, conn, cache, work>> /\ worker' = [worker EXCEPT ![w] = First(job)]
  BY <1>1 DEF TakeQuery
<1> HIDE DEF job
<1>4. job \in Queued /\ Queued \subseteq Queued' \cup {job} /\ Queued' \subseteq Queued
  <2>1. \A i \in DOMAIN queries : queries[i] = job \/ \E j \in DOMAIN queries' : queries'[j] = queries[i]
    BY <1>2 DEF job
  <2>2. \A j \in DOMAIN queries' : \E i \in DOMAIN queries : queries[i] = queries'[j]
    BY <1>2
  <2>3. job \in Queued
    BY <1>1 DEF Queued, job
  <2> QED
    BY <1>3, <2>1, <2>2, <2>3 DEF Queued
<1>5. job.kind # "open" /\ \A i \in DOMAIN queries' : queries'[i].kind # "open"
  BY <1>1, <1>2 DEF Inv, OneRuntime, job, Loading, Reading
<1>6. \A i \in DOMAIN work' : work'[i].kind = "open" =>
        /\ work'[i].slot # job.slot
        /\ slot[work'[i].slot].busy
        /\ \A j \in DOMAIN work' : work'[j].slot = work'[i].slot => j = i
        /\ \A j \in DOMAIN queries' : queries'[j].slot # work'[i].slot
        /\ \A v \in Busy : SlotOf(v) # work'[i].slot
  BY <1>1, <1>2, <1>3 DEF Inv, OneRuntime, job, Loading, Reading
<1>7. work' \in Seq(Job) /\ Len(work') <= Capacity /\ Len(queries') <= Capacity
  BY <1>1, <1>2, <1>3
<1> QED
  BY <1>2, <1>3, <1>4, <1>5, <1>6, <1>7, TakeStep

-----------------------------------------------------------------------------
(* Connection threads *)

(* A request goes on, and what it refers to is in the map or was in use. *)
LEMMA ConnStep ==
  ASSUME Inv, NEW c \in Conns, NEW q \in Request \cup {None},
         conn' = [conn EXCEPT ![c] = q],
         q # None => /\ q.at = "find" <=> q.slot = None
                     /\ q.at # "reply" => q.key \in Keys
                     /\ q.slot \in Slots \cup {None} /\ (q.slot # None => slot[q.slot] # None),
         UNCHANGED <<slot, open, cache, work, queries, worker>>
  PROVE  Inv'
<1>1. conn'[c] = q /\ \A d \in Conns \ {c} : conn'[d] = conn[d]
  BY DEF Inv, TypeOK
<1>2. TypeOK'
  BY <1>1 DEF Inv, TypeOK
<1>3. Busy' = Busy /\ Queued' = Queued /\ OpenProjects' = OpenProjects /\ \A w \in Busy : SlotOf(w)' = SlotOf(w)
  BY DEF Busy, Queued, OpenProjects, SlotOf
<1>4. \A s \in InUse' \ {None} : s \in InUse \/ slot[s] # None
  BY <1>1, <1>3 DEF InUse
<1>5. OneSlotPerProject'
  BY <1>3, <1>4 DEF Inv, OneSlotPerProject
<1>6. Bounded' /\ BusyHasJob' /\ CacheIsOfOpenGraphs'
  BY <1>3 DEF Inv, Bounded, OpenIsBounded, BusyHasJob, CacheIsOfOpenGraphs
<1>7. OneRuntime'
  BY <1>1, <1>3 DEF Inv, OneRuntime, Loading, Reading
<1> QED
  BY <1>2, <1>5, <1>6, <1>7 DEF Inv

LEMMA SlotsOfRequests ==
  ASSUME Inv, NEW c \in Conns, conn[c] # None
  PROVE  /\ conn[c] \in Request
         /\ conn[c].at = "find" <=> conn[c].slot = None
         /\ conn[c].at # "reply" => conn[c].key \in Keys
         /\ conn[c].slot \in Slots \cup {None}
         /\ conn[c].slot # None => conn[c].slot \in Slots /\ slot[conn[c].slot] \in Slot
<1>1. conn[c] \in Request /\ (conn[c].at = "find" <=> conn[c].slot = None)
  BY DEF Inv, TypeOK
<1>2. conn[c].slot \in InUse
  BY DEF InUse
<1>3. conn[c].at # "reply" => conn[c].key \in Keys
  BY DEF Inv, OneRuntime, Loading, Reading
<1> QED
  BY <1>1, <1>2, <1>3 DEF Inv, TypeOK, OneSlotPerProject, Request

LEMMA ReplyKeepsInv ==
  ASSUME Inv, NEW c \in Conns, Replied(c), UNCHANGED <<slot, open, cache, work, queries, worker>>
  PROVE  Inv'
BY ConnStep DEF Replied

LEMMA AskKeepsInv ==
  ASSUME Inv, NEW c \in Conns, NEW p \in Projects, NEW key \in Keys, Ask(c, p, key) PROVE Inv'
<1> DEFINE q == [at |-> "find", project |-> p, key |-> key, slot |-> None]
<1>1. q \in Request /\ q.at = "find" /\ q.key \in Keys /\ q.slot = None
  BY DEF Request
<1>2. conn' = [conn EXCEPT ![c] = q] /\ UNCHANGED <<slot, open, cache, work, queries, worker>>
  BY DEF Ask, pools
<1> HIDE DEF q
<1> QED
  BY <1>1, <1>2, ConnStep

LEMMA AskStatusKeepsInv ==
  ASSUME Inv, NEW c \in Conns, NEW p \in Projects, AskStatus(c, p) PROVE Inv'
<1> DEFINE q == [at |-> "reply", project |-> p, key |-> None, slot |-> open[p]]
<1>1. open[p] \in Slots /\ open[p] # None /\ slot[open[p]] # None
  BY OpenSlots DEF AskStatus, OpenProjects
<1>2. q \in Request /\ q.at = "reply" /\ q.slot = open[p]
  BY <1>1 DEF Request
<1>3. conn' = [conn EXCEPT ![c] = q] /\ UNCHANGED <<slot, open, cache, work, queries, worker>>
  BY DEF AskStatus, pools
<1> HIDE DEF q
<1> QED
  BY <1>1, <1>2, <1>3, ConnStep

LEMMA FindSlotKeepsInv ==
  ASSUME Inv, NEW c \in Conns, FindSlot(c) PROVE Inv'
<1> DEFINE s == open[conn[c].project]
           q == [conn[c] EXCEPT !.at = "check", !.slot = s]
<1>1. conn[c] \in Request /\ conn[c].key \in Keys
  BY SlotsOfRequests DEF FindSlot
<1>2. s \in Slots /\ s # None /\ slot[s] # None
  BY <1>1, OpenSlots DEF FindSlot, OpenProjects, Request
<1>3. q \in Request /\ q.at = "check" /\ q.key \in Keys /\ q.slot = s
  BY <1>1, <1>2 DEF Request
<1>4. conn' = [conn EXCEPT ![c] = q] /\ UNCHANGED <<slot, open, cache, work, queries, worker>>
  BY DEF FindSlot, pools
<1> HIDE DEF q, s
<1> QED
  BY <1>2, <1>3, <1>4, ConnStep

LEMMA GotoKeepsInv ==
  ASSUME Inv, NEW c \in Conns, conn[c] # None, conn[c].at # "find", NEW stage \in {"submit", "reply"},
         stage = "submit" => conn[c].at = "check",
         Goto(c, stage), UNCHANGED <<slot, open, cache, work, queries, worker>>
  PROVE  Inv'
<1> DEFINE q == [conn[c] EXCEPT !.at = stage, !.key = IF stage = "reply" THEN None ELSE conn[c].key]
<1>1. conn[c] \in Request /\ conn[c].slot \in Slots /\ slot[conn[c].slot] # None
      /\ (conn[c].at # "reply" => conn[c].key \in Keys)
  BY SlotsOfRequests
<1>2. q \in Request /\ q.at = stage /\ q.slot = conn[c].slot /\ (stage = "submit" => q.key = conn[c].key)
  BY <1>1 DEF Request
<1>3. conn' = [conn EXCEPT ![c] = q]
  BY DEF Goto
<1> HIDE DEF q
<1> QED
  BY <1>1, <1>2, <1>3, ConnStep

LEMMA CheckKeepsInv ==
  ASSUME Inv, NEW c \in Conns, Check(c) PROVE Inv'
<1>1. CASE Replied(c)
  BY <1>1, ReplyKeepsInv DEF Check, pools
<1>2. CASE Goto(c, "submit")
  BY <1>2, GotoKeepsInv DEF Check, pools
<1> QED
  BY <1>1, <1>2 DEF Check

LEMMA AcceptedKeepsInv ==
  ASSUME Inv, NEW c \in Conns, Accepted(c) PROVE Inv'
BY GotoKeepsInv DEF Accepted, pools

LEMMA RefuseKeepsInv ==
  ASSUME Inv, NEW c \in Conns, Refuse(c) PROVE Inv'
<1> DEFINE s == conn[c].slot
           t == [slot[s] EXCEPT !.phase = "ready"]
<1>1. s \in Slots /\ slot[s] \in Slot
  BY SlotsOfRequests DEF Refuse
<1>2. t \in Slot /\ t.project = slot[s].project /\ t.runtime = slot[s].runtime /\ t.busy = slot[s].busy
  BY <1>1 DEF Slot
<1>3. slot' = [slot EXCEPT ![s] = t] /\ UNCHANGED <<open, cache, work, queries, worker>>
  BY <1>1 DEF Refuse, Inv, TypeOK, pools
<1> HIDE DEF t, s
<1>4. /\ slot' \in [Slots -> Slot \cup {None}]
      /\ \A x \in Slots : slot'[x] # None <=> slot[x] # None
      /\ \A x \in Slots : /\ slot'[x].project = slot[x].project /\ slot'[x].busy = slot[x].busy
                          /\ slot'[x].runtime = slot[x].runtime
  BY <1>1, <1>2, <1>3 DEF Inv, TypeOK
<1>5. conn' = [conn EXCEPT ![c] = None]
  BY DEF Refuse, Replied
<1>6. /\ conn' \in [Conns -> Request \cup {None}]
      /\ \A d \in Conns : conn'[d] # None => conn'[d] = conn[d]
  BY <1>5 DEF Inv, TypeOK
<1>7. Busy' = Busy /\ Queued' = Queued /\ OpenProjects' = OpenProjects /\ \A w \in Busy : SlotOf(w)' = SlotOf(w)
  BY <1>3 DEF Busy, Queued, OpenProjects, SlotOf
<1>8. InUse' \subseteq InUse
  BY <1>3, <1>6, <1>7 DEF InUse
<1>9. TypeOK'
  BY <1>3, <1>4, <1>6 DEF Inv, TypeOK
<1>10. OneSlotPerProject'
  BY <1>3, <1>4, <1>7, <1>8, InUseAreSlots, OpenSlots DEF Inv, OneSlotPerProject
<1>11. Bounded' /\ BusyHasJob' /\ CacheIsOfOpenGraphs'
  BY <1>3, <1>4, <1>7 DEF Inv, Bounded, OpenIsBounded, BusyHasJob, CacheIsOfOpenGraphs
<1>12. OneRuntime'
  <2>1. \A w \in Busy : SlotOf(w) \in Slots
    BY SlotsOfJobs
  <2>2. \A i \in DOMAIN work : work[i].slot \in Slots
    <3>1. \A i \in DOMAIN work : work[i] \in Job
      BY DEF Inv, TypeOK
    <3> QED
      BY <3>1 DEF Job
  <2> QED
    BY <1>3, <1>4, <1>6, <1>7, <2>1, <2>2 DEF Inv, OneRuntime, Loading, Reading
<1> QED
  BY <1>9, <1>10, <1>11, <1>12 DEF Inv

LEMMA SubmitKeepsInv ==
  ASSUME Inv, NEW c \in Conns, Submit(c) PROVE Inv'
<1> DEFINE s == conn[c].slot
           t == [slot[s] EXCEPT !.busy = TRUE, !.phase = "refreshing"]
           q == [conn[c] EXCEPT !.at = "reply", !.key = None]
           job(kind) == [kind |-> kind, slot |-> s, key |-> conn[c].key]
<1>1. s \in Slots /\ slot[s] \in Slot /\ conn[c] \in Request /\ conn[c].key \in Keys /\ ~slot[s].busy /\ s # None
  BY SlotsOfRequests DEF Submit
<1>2. t \in Slot /\ t.project = slot[s].project /\ t.runtime = slot[s].runtime /\ t.busy
  BY <1>1 DEF Slot
<1>3. slot' = [slot EXCEPT ![s] = t] /\ UNCHANGED <<open, cache, worker>>
  BY DEF Submit
<1>4. conn' = [conn EXCEPT ![c] = q] /\ q \in Request /\ q.at = "reply" /\ q.slot = s
  BY <1>1 DEF Submit, Goto, Request
<1>5. PICK kind \in {"query", "refresh"} :
        \/ /\ queries' = Append(queries, job(kind)) /\ UNCHANGED work /\ Len(queries) < Capacity
        \/ /\ work' = Append(work, job(kind)) /\ UNCHANGED queries /\ Len(work) < Capacity
  BY DEF Submit
<1>6. job(kind) \in Job /\ job(kind).kind = kind /\ job(kind).slot = s /\ job(kind).key \in Keys
  BY <1>1 DEF Job
<1> HIDE DEF t, q, job
<1>7. /\ work \in Seq(Job) /\ queries \in Seq(Job) /\ Len(work) <= Capacity /\ Len(queries) <= Capacity
      /\ Capacity \in Nat
  BY DEF Inv, TypeOK
<1>8. /\ work' \in Seq(Job) /\ queries' \in Seq(Job) /\ Len(work') <= Capacity /\ Len(queries') <= Capacity
      /\ \A i \in DOMAIN work : i \in DOMAIN work' /\ work'[i] = work[i]
      /\ \A i \in DOMAIN queries : i \in DOMAIN queries' /\ queries'[i] = queries[i]
      /\ \A i \in DOMAIN work' : i \in DOMAIN work \/ work'[i] = job(kind)
      /\ \A i \in DOMAIN queries' : i \in DOMAIN queries \/ queries'[i] = job(kind)
      /\ (\E i \in DOMAIN work' : work'[i] = job(kind)) \/ (\E i \in DOMAIN queries' : queries'[i] = job(kind))
  <2>1. CASE queries' = Append(queries, job(kind)) /\ UNCHANGED work /\ Len(queries) < Capacity
    <3>1. queries' \in Seq(Job) /\ Len(queries') = Len(queries) + 1 /\ queries'[Len(queries) + 1] = job(kind)
      BY <1>6, <1>7, <2>1
    <3>2. \A i \in DOMAIN queries' : i \in DOMAIN queries \/ i = Len(queries) + 1
      BY <1>7, <3>1
    <3>3. \A i \in DOMAIN queries : i \in DOMAIN queries' /\ queries'[i] = queries[i]
      BY <1>6, <1>7, <2>1
    <3> QED
      BY <1>7, <2>1, <3>1, <3>2, <3>3
  <2>2. CASE work' = Append(work, job(kind)) /\ UNCHANGED queries /\ Len(work) < Capacity
    <3>1. work' \in Seq(Job) /\ Len(work') = Len(work) + 1 /\ work'[Len(work) + 1] = job(kind)
      BY <1>6, <1>7, <2>2
    <3>2. \A i \in DOMAIN work' : i \in DOMAIN work \/ i = Len(work) + 1
      BY <1>7, <3>1
    <3>3. \A i \in DOMAIN work : i \in DOMAIN work' /\ work'[i] = work[i]
      BY <1>6, <1>7, <2>2
    <3> QED
      BY <1>7, <2>2, <3>1, <3>2, <3>3
  <2> QED
    BY <1>5, <2>1, <2>2
<1>9. Queued' = Queued \cup {job(kind)}
  BY <1>8 DEF Queued
<1>10. /\ slot'[s] = t /\ t # None /\ \A x \in Slots \ {s} : slot'[x] = slot[x]
       /\ slot' \in [Slots -> Slot \cup {None}]
  BY <1>1, <1>2, <1>3 DEF Inv, TypeOK
<1>11. /\ conn'[c] = q /\ q # None /\ \A d \in Conns \ {c} : conn'[d] = conn[d]
       /\ conn' \in [Conns -> Request \cup {None}]
  BY <1>4 DEF Inv, TypeOK
<1>12. Busy' = Busy /\ OpenProjects' = OpenProjects /\ \A w \in Busy : SlotOf(w)' = SlotOf(w)
  BY <1>3 DEF Busy, OpenProjects, SlotOf
<1>13. InUse' \subseteq InUse
  <2>1. s \in InUse
    BY DEF InUse, Submit
  <2>2. \A d \in Conns : conn'[d] # None => conn'[d].slot \in InUse
    BY <1>4, <1>11, <2>1 DEF InUse
  <2>3. \A k \in Queued' : k.slot \in InUse
    BY <1>6, <1>9, <2>1 DEF InUse
  <2>4. \A w \in Busy' : worker'[w].job.slot \in InUse
    BY <1>3, <1>12 DEF InUse
  <2> QED
    BY <2>2, <2>3, <2>4 DEF InUse
<1>14. TypeOK'
  BY <1>1, <1>3, <1>4, <1>8, <1>10, <1>11 DEF Inv, TypeOK
<1>15. OneSlotPerProject'
  <2>1. \A x \in Slots : slot'[x] # None <=> slot[x] # None
    BY <1>1, <1>10
  <2>2. \A x \in Slots : slot'[x] # None => slot'[x].project = slot[x].project
    BY <1>2, <1>10
  <2>3. \A x \in InUse \ {None} : x \in Slots /\ slot[x] # None
    BY InUseAreSlots DEF Inv, OneSlotPerProject
  <2>4. \A p \in OpenProjects : open[p] \in Slots
    BY OpenSlots
  <2> QED
    BY <1>3, <1>12, <1>13, <2>1, <2>2, <2>3, <2>4 DEF Inv, OneSlotPerProject
<1>16. Bounded' /\ CacheIsOfOpenGraphs'
  BY <1>3, <1>12 DEF Inv, Bounded, OpenIsBounded, CacheIsOfOpenGraphs
<1>17. BusyHasJob'
  BY <1>6, <1>9, <1>10, <1>12 DEF Inv, BusyHasJob
<1>18. OneRuntime'
  <2>1. \A w \in Busy : SlotOf(w) \in Slots
    BY SlotsOfJobs
  <2>2. \A i \in DOMAIN work : work[i].kind = "open" => work[i].slot \in Slots \ {s}
    <3>1. \A i \in DOMAIN work : work[i] \in Job
      BY <1>7
    <3>2. \A i \in DOMAIN work : work[i].slot \in Slots
      BY <3>1 DEF Job
    <3> QED
      BY <1>1, <3>2 DEF Inv, OneRuntime, Loading, Reading
  <2>3. \A w \in Busy : worker[w].at \in Loading => SlotOf(w) \in Slots \ {s}
    BY <1>1, <2>1 DEF Inv, OneRuntime, Loading, Reading
  <2>4. \A i \in DOMAIN work' : work'[i].kind = "open" =>
          /\ i \in DOMAIN work /\ work'[i] = work[i]
          /\ slot'[work'[i].slot].busy
          /\ \A j \in DOMAIN work' : work'[j].slot = work'[i].slot => j = i
          /\ \A j \in DOMAIN queries' : queries'[j].slot # work'[i].slot
          /\ \A w \in Busy : SlotOf(w) # work'[i].slot
    <3> SUFFICES ASSUME NEW i \in DOMAIN work', work'[i].kind = "open"
                 PROVE  /\ i \in DOMAIN work /\ work'[i] = work[i]
                        /\ slot'[work'[i].slot].busy
                        /\ \A j \in DOMAIN work' : work'[j].slot = work'[i].slot => j = i
                        /\ \A j \in DOMAIN queries' : queries'[j].slot # work'[i].slot
                        /\ \A w \in Busy : SlotOf(w) # work'[i].slot
      OBVIOUS
    <3>1. i \in DOMAIN work /\ work'[i] = work[i]
      BY <1>6, <1>8
    <3>2. /\ slot[work[i].slot].busy
          /\ \A j \in DOMAIN work : work[j].slot = work[i].slot => j = i
          /\ \A j \in DOMAIN queries : queries[j].slot # work[i].slot
          /\ \A w \in Busy : SlotOf(w) # work[i].slot
      BY <3>1 DEF Inv, OneRuntime, Loading, Reading
    <3>3. work[i].slot \in Slots \ {s} /\ job(kind).slot = s
      BY <1>6, <2>2, <3>1
    <3>4. \A j \in DOMAIN work' : work'[j].slot = work'[i].slot => j = i
      BY <1>8, <3>1, <3>2, <3>3
    <3>5. \A j \in DOMAIN queries' : queries'[j].slot # work'[i].slot
      BY <1>8, <3>1, <3>2, <3>3
    <3> QED
      BY <1>10, <3>1, <3>2, <3>3, <3>4, <3>5
  <2>5. \A w \in Busy : worker[w].at \in Loading =>
          /\ slot'[SlotOf(w)].busy
          /\ \A k \in Queued' : k.slot # SlotOf(w)
          /\ \A v \in Busy : SlotOf(v) = SlotOf(w) => v = w
    BY <1>6, <1>9, <1>10, <2>3 DEF Inv, OneRuntime, Loading, Reading
  <2>6. \A w \in Busy : slot'[SlotOf(w)].runtime = slot[SlotOf(w)].runtime
    BY <1>2, <1>10, <2>1
  <2>7. \A d \in Conns : conn'[d] # None /\ conn'[d].at # "reply" => conn'[d].key \in Keys
    BY <1>4, <1>11 DEF Inv, OneRuntime, Loading, Reading
  <2>8. /\ \A k \in Queued' : k.kind # "open" => k.key \in Keys
        /\ \A i \in DOMAIN queries' : queries'[i].kind # "open"
    BY <1>6, <1>8, <1>9 DEF Inv, OneRuntime, Loading, Reading
  <2> QED
    BY <1>3, <1>12, <2>4, <2>5, <2>6, <2>7, <2>8 DEF Inv, OneRuntime, Loading, Reading
<1> QED
  BY <1>14, <1>15, <1>16, <1>17, <1>18 DEF Inv

-----------------------------------------------------------------------------
(* slot: what is evicted is referred to by nothing but the map, so that    *)
(* nothing that is left refers to it.                                      *)
LEMMA EvictedAreFree ==
  ASSUME Inv, NEW evicted \in Evictions
  PROVE  /\ evicted \subseteq OpenProjects
         /\ \A p \in evicted : open[p] \in Slots /\ open[p] \notin InUse
         /\ Cardinality(OpenProjects \ evicted) < MaxOpen
<1>1. CASE ~Full
  <2>1. evicted = {} /\ Cardinality(OpenProjects) < MaxOpen
    BY <1>1, FS_CardinalityType DEF Evictions, Full, Inv, Bounded
  <2>2. OpenProjects \ evicted = OpenProjects
    BY <2>1
  <2> QED
    BY <2>1, <2>2
<1>2. CASE Full
  <2>1. PICK i \in Oldest : evicted = {recent[i]}
    BY <1>2 DEF Evictions
  <2>2. recent[i] \in OpenProjects /\ open[recent[i]] \notin InUse
    BY <2>1 DEF Oldest, Evictable, Unreferenced
  <2>3. Cardinality(OpenProjects \ {recent[i]}) = Cardinality(OpenProjects) - 1
    BY <2>2, FS_RemoveElement DEF Inv, Bounded, OpenIsBounded
  <2>4. Cardinality(OpenProjects) \in Nat
    BY FS_CardinalityType DEF Inv, Bounded, OpenIsBounded
  <2> QED
    BY <2>1, <2>2, <2>3, <2>4, OpenSlots DEF Inv, Bounded, OpenIsBounded
<1> QED
  BY <1>1, <1>2

Left(evicted) == [s \in Slots |-> IF s \in {open[p] : p \in evicted} THEN None ELSE slot[s]]
Others(evicted) == [p \in Projects |-> IF p \in evicted THEN None ELSE open[p]]

(* What an eviction leaves is in order, and all that anything refers to. *)
LEMMA EvictionLeaves ==
  ASSUME Inv, NEW evicted \in Evictions
  PROVE  /\ Left(evicted) \in [Slots -> Slot \cup {None}]
         /\ Others(evicted) \in [Projects -> Slots \cup {None}]
         /\ \A s \in Slots : Left(evicted)[s] # None => Left(evicted)[s] = slot[s]
         /\ \A s \in InUse \ {None} : s \in Slots /\ slot[s] # None /\ Left(evicted)[s] = slot[s]
         /\ \A p \in Projects : Others(evicted)[p] # None =>
              /\ p \in OpenProjects \ evicted /\ Others(evicted)[p] = open[p]
              /\ Left(evicted)[open[p]] = slot[open[p]]
         /\ \A p \in OpenProjects \ evicted : Others(evicted)[p] = open[p]
         /\ \A s \in Slots : Left(evicted)[s] # None =>
              /\ slot[s].project \in OpenProjects \ evicted
              /\ Others(evicted)[slot[s].project] = s
<1> DEFINE old == {open[p] : p \in evicted}
<1>1. evicted \subseteq OpenProjects /\ \A p \in evicted : open[p] \in Slots /\ open[p] \notin InUse
  BY EvictedAreFree
<1>2. /\ Left(evicted) \in [Slots -> Slot \cup {None}]
      /\ Others(evicted) \in [Projects -> Slots \cup {None}]
  BY DEF Left, Others, Inv, TypeOK
<1>3. \A s \in Slots : Left(evicted)[s] = IF s \in old THEN None ELSE slot[s]
  BY DEF Left
<1>4. \A p \in Projects : Others(evicted)[p] = IF p \in evicted THEN None ELSE open[p]
  BY DEF Others
<1>5. \A s \in InUse \ {None} : s \in Slots /\ slot[s] # None /\ s \notin old
  BY <1>1, InUseAreSlots DEF Inv, OneSlotPerProject
<1>6. \A p \in OpenProjects \ evicted : p \in Projects /\ open[p] \in Slots /\ open[p] \notin old
  BY <1>1, OpenSlots
<1>7. \A s \in Slots : slot[s] # None /\ s \notin old =>
        /\ slot[s].project \in OpenProjects \ evicted /\ slot[s].project \in Projects
        /\ open[slot[s].project] = s
  <2> SUFFICES ASSUME NEW s \in Slots, slot[s] # None, s \notin old
               PROVE  /\ slot[s].project \in OpenProjects \ evicted /\ slot[s].project \in Projects
                      /\ open[slot[s].project] = s
    OBVIOUS
  <2>1. slot[s] \in Slot /\ open[slot[s].project] = s /\ s # None
    BY DEF Inv, TypeOK, OneSlotPerProject
  <2>2. slot[s].project \in Projects
    BY <2>1 DEF Slot
  <2> QED
    BY <2>1, <2>2 DEF OpenProjects
<1>8. \A p \in Projects : Others(evicted)[p] # None => p \in OpenProjects \ evicted
  BY <1>4 DEF OpenProjects
<1> HIDE DEF old
<1> QED
  BY <1>2, <1>3, <1>4, <1>5, <1>6, <1>7, <1>8

(* The work pool's queue is full. *)
LEMMA OpenRefusedKeepsInv ==
  ASSUME Inv, NEW evicted \in Evictions, NEW c \in Conns,
         slot' = Left(evicted), open' = Others(evicted), cache' = Kept(evicted),
         Replied(c), UNCHANGED <<work, queries, worker>>
  PROVE  Inv'
<1>1. Cardinality(OpenProjects \ evicted) < MaxOpen
  BY EvictedAreFree
<1>2. /\ conn' \in [Conns -> Request \cup {None}]
      /\ \A d \in Conns : conn'[d] # None => conn'[d] = conn[d]
  BY DEF Replied, Inv, TypeOK
<1>3. Busy' = Busy /\ Queued' = Queued /\ \A w \in Busy : SlotOf(w)' = SlotOf(w)
  BY DEF Busy, Queued, SlotOf
<1>4. InUse' \subseteq InUse
  BY <1>2, <1>3 DEF InUse
<1>5. OpenProjects' = OpenProjects \ evicted
  BY EvictionLeaves, OpenSlots DEF OpenProjects
<1>6. Bounded'
  <2>1. IsFiniteSet(OpenProjects \ evicted)
    BY FS_Subset DEF Inv, Bounded
  <2>2. Cardinality(OpenProjects \ evicted) \in Nat
    BY <2>1, FS_CardinalityType
  <2> QED
    BY <1>1, <1>5, <2>1, <2>2 DEF Bounded, OpenIsBounded
<1>7. cache' = {e \in cache : e.project \notin evicted}
  BY DEF Kept
<1>8. TypeOK'
  BY <1>2, <1>7, EvictionLeaves DEF Inv, TypeOK
<1>9. OneSlotPerProject'
  <2>1. \A p \in OpenProjects' : slot'[open'[p]] # None /\ slot'[open'[p]].project = p
    <3>1. \A p \in OpenProjects' : open'[p] = open[p] /\ slot'[open'[p]] = slot[open[p]] /\ p \in OpenProjects
      BY <1>5, EvictionLeaves, OpenSlots
    <3> QED
      BY <3>1 DEF Inv, OneSlotPerProject
  <2>2. \A s \in Slots : slot'[s] # None => open'[slot'[s].project] = s
    BY EvictionLeaves
  <2>3. \A s \in InUse' \ {None} : slot'[s] # None
    BY <1>4, EvictionLeaves
  <2> QED
    BY <2>1, <2>2, <2>3 DEF OneSlotPerProject
<1>10. BusyHasJob'
  <2>1. \A s \in Slots : slot'[s] # None => slot'[s] = slot[s]
    BY EvictionLeaves
  <2> QED
    BY <1>3, <2>1 DEF Inv, BusyHasJob
<1>11. CacheIsOfOpenGraphs'
  <2>1. \A e \in cache' : e \in cache /\ e.project \in Projects /\ open[e.project] # None /\ e.project \notin evicted
    BY <1>7 DEF Inv, CacheIsOfOpenGraphs, TypeOK, Cached
  <2>2. \A e \in cache' : open'[e.project] # None
    BY <2>1, EvictionLeaves DEF OpenProjects
  <2> QED
    BY <2>1, <2>2 DEF Inv, CacheIsOfOpenGraphs
<1>12. OneRuntime'
  <2>1. \A w \in Busy : SlotOf(w) \in InUse \ {None}
    BY SlotsOfJobs DEF InUse, SlotOf
  <2>2. \A i \in DOMAIN work : work[i].slot \in InUse \ {None}
    <3>1. \A i \in DOMAIN work : work[i] \in Job /\ work[i] \in Queued
      BY DEF Inv, TypeOK, Queued
    <3> QED
      BY <3>1 DEF Job, InUse
  <2>3. \A d \in Conns : conn'[d] # None /\ conn'[d].at # "reply" => conn'[d].key \in Keys
    BY <1>2 DEF Inv, OneRuntime, Loading, Reading
  <2>4. /\ \A w \in Busy : slot'[SlotOf(w)] = slot[SlotOf(w)]
        /\ \A i \in DOMAIN work : slot'[work[i].slot] = slot[work[i].slot]
    BY <2>1, <2>2, EvictionLeaves
  <2> QED
    BY <1>3, <2>3, <2>4 DEF Inv, OneRuntime, Loading, Reading
<1> QED
  BY <1>6, <1>8, <1>9, <1>10, <1>11, <1>12 DEF Inv

LEMMA NewSlotType ==
  ASSUME NEW p \in Projects
  PROVE  NewSlot(p) \in Slot /\ NewSlot(p) # None /\ NewSlot(p).project = p /\ NewSlot(p).busy
<1>1. NewSlot(p) \in Slot
  BY DEF NewSlot, Slot
<1> QED
  BY <1>1 DEF NewSlot

(* A slot that nothing refers to becomes the project's. *)
LEMMA OpenTakenKeepsInv ==
  ASSUME Inv, NEW evicted \in Evictions, NEW c \in Conns, NEW p \in Projects, NEW s \in Slots,
         conn[c] # None, conn[c].at = "find", p = conn[c].project, open[p] = None, slot[s] = None,
         Len(work) < Capacity,
         slot' = [Left(evicted) EXCEPT ![s] = NewSlot(p)], open' = [Others(evicted) EXCEPT ![p] = s],
         work' = Append(work, [kind |-> "open", slot |-> s, key |-> None]),
         conn' = [conn EXCEPT ![c] = [@ EXCEPT !.at = "check", !.slot = s]],
         cache' = Kept(evicted), UNCHANGED <<queries, worker>>
  PROVE  Inv'
<1> DEFINE t == NewSlot(p)
           job == [kind |-> "open", slot |-> s, key |-> None]
           q == [conn[c] EXCEPT !.at = "check", !.slot = s]
<1>1. t \in Slot /\ t # None /\ t.project = p /\ t.busy
  BY NewSlotType
<1>2. job \in Job /\ job.kind = "open" /\ job.slot = s
  BY DEF Job
<1>3. conn' = [conn EXCEPT ![c] = q] /\ q \in Request /\ q.at = "check" /\ q.slot = s /\ q.key \in Keys
  BY SlotsOfRequests DEF Request
<1>4. slot' = [Left(evicted) EXCEPT ![s] = t] /\ work' = Append(work, job)
  OBVIOUS
<1> HIDE DEF t, job, q
<1>5. s \notin InUse /\ s # None /\ p \notin OpenProjects /\ \A x \in OpenProjects : open[x] # s
  BY OpenSlots DEF Inv, OneSlotPerProject, OpenProjects
<1>6. /\ slot' \in [Slots -> Slot \cup {None}] /\ slot'[s] = t
      /\ \A x \in Slots \ {s} : slot'[x] = Left(evicted)[x]
  BY <1>1, <1>4, EvictionLeaves
<1>7. /\ open' \in [Projects -> Slots \cup {None}] /\ open'[p] = s
      /\ \A x \in Projects \ {p} : open'[x] = Others(evicted)[x]
  BY EvictionLeaves
<1>8. OpenProjects' = (OpenProjects \ evicted) \cup {p}
  BY <1>5, <1>7, EvictionLeaves, OpenSlots DEF OpenProjects
<1>9. Bounded'
  <2>1. IsFiniteSet(OpenProjects \ evicted)
    BY FS_Subset DEF Inv, Bounded
  <2>2. Cardinality(OpenProjects \ evicted) \in Nat /\ Cardinality(OpenProjects \ evicted) < MaxOpen
    BY <2>1, FS_CardinalityType, EvictedAreFree
  <2>3. /\ IsFiniteSet((OpenProjects \ evicted) \cup {p})
        /\ Cardinality((OpenProjects \ evicted) \cup {p}) = Cardinality(OpenProjects \ evicted) + 1
    BY <1>5, <2>1, FS_AddElement
  <2> QED
    BY <1>8, <2>2, <2>3 DEF Bounded, OpenIsBounded
<1>10. /\ work \in Seq(Job) /\ Len(work) <= Capacity /\ queries \in Seq(Job) /\ Len(queries) <= Capacity
       /\ Capacity \in Nat
  BY DEF Inv, TypeOK
<1>11. /\ work' \in Seq(Job) /\ Len(work') = Len(work) + 1 /\ work'[Len(work) + 1] = job
       /\ \A i \in DOMAIN work : i \in DOMAIN work' /\ work'[i] = work[i] /\ i # Len(work) + 1
       /\ \A i \in DOMAIN work' : i \in DOMAIN work \/ i = Len(work) + 1
  <2>1. work' \in Seq(Job) /\ Len(work') = Len(work) + 1 /\ work'[Len(work) + 1] = job
    BY <1>2, <1>4, <1>10
  <2>2. \A i \in DOMAIN work' : i \in DOMAIN work \/ i = Len(work) + 1
    BY <1>10, <2>1
  <2>3. \A i \in DOMAIN work : i \in DOMAIN work' /\ work'[i] = work[i] /\ i # Len(work) + 1
    BY <1>2, <1>4, <1>10
  <2> QED
    BY <2>1, <2>2, <2>3
<1>12. Queued' = Queued \cup {job}
  <2>1. \A k \in Queued' : k \in Queued \cup {job}
    BY <1>11 DEF Queued
  <2>2. \A k \in Queued : k \in Queued'
    BY <1>11 DEF Queued
  <2>3. job \in Queued'
    BY <1>10, <1>11 DEF Queued
  <2> QED
    BY <2>1, <2>2, <2>3
<1>13. /\ conn' \in [Conns -> Request \cup {None}] /\ conn'[c] = q /\ q # None
       /\ \A d \in Conns \ {c} : conn'[d] = conn[d]
  BY <1>3 DEF Inv, TypeOK
<1>14. Busy' = Busy /\ \A w \in Busy : SlotOf(w)' = SlotOf(w)
  BY DEF Busy, SlotOf
<1>15. InUse' \subseteq InUse \cup {s}
  <2>1. \A d \in Conns : conn'[d] # None => conn'[d].slot \in InUse \cup {s}
    BY <1>3, <1>13 DEF InUse
  <2>2. \A k \in Queued' : k.slot \in InUse \cup {s}
    BY <1>2, <1>12 DEF InUse
  <2>3. \A w \in Busy' : worker'[w].job.slot \in InUse
    BY <1>14 DEF InUse
  <2> QED
    BY <2>1, <2>2, <2>3 DEF InUse
<1>16. cache' = {e \in cache : e.project \notin evicted}
  BY DEF Kept
<1>17. TypeOK'
  <2>1. \A d \in Conns : conn'[d] # None => (conn'[d].at = "find" <=> conn'[d].slot = None)
    BY <1>3, <1>5, <1>13 DEF Inv, TypeOK
  <2>2. Len(work') <= Capacity
    BY <1>10, <1>11
  <2> QED
    BY <1>6, <1>7, <1>10, <1>11, <1>13, <1>16, <2>1, <2>2 DEF Inv, TypeOK
<1>18. OneSlotPerProject'
  <2>1. \A x \in OpenProjects' : slot'[open'[x]] # None /\ slot'[open'[x]].project = x
    <3>1. \A x \in OpenProjects \ evicted : open'[x] = open[x] /\ slot'[open[x]] = slot[open[x]]
      BY <1>5, <1>6, <1>7, EvictionLeaves, OpenSlots
    <3>2. \A x \in OpenProjects \ evicted : slot[open[x]] # None /\ slot[open[x]].project = x
      BY DEF Inv, OneSlotPerProject
    <3> QED
      BY <1>1, <1>6, <1>7, <1>8, <3>1, <3>2
  <2>2. \A x \in Slots : slot'[x] # None => open'[slot'[x].project] = x
    <3>1. \A x \in Slots \ {s} : slot'[x] # None =>
            /\ slot'[x] = slot[x] /\ slot[x].project \in OpenProjects
            /\ Others(evicted)[slot[x].project] = x
      BY <1>6, EvictionLeaves
    <3>2. \A x \in OpenProjects : x \in Projects \ {p}
      BY <1>5, OpenSlots
    <3> QED
      BY <1>1, <1>6, <1>7, <3>1, <3>2
  <2>3. \A x \in InUse' \ {None} : slot'[x] # None
    BY <1>1, <1>6, <1>15, EvictionLeaves
  <2> QED
    BY <2>1, <2>2, <2>3 DEF OneSlotPerProject
<1>19. BusyHasJob'
  <2>1. \A x \in Slots \ {s} : slot'[x] # None => slot'[x] = slot[x]
    BY <1>6, EvictionLeaves
  <2>2. \E k \in Queued' : k.slot = s
    BY <1>2, <1>12
  <2> QED
    BY <1>12, <1>14, <2>1, <2>2 DEF Inv, BusyHasJob
<1>20. CacheIsOfOpenGraphs'
  <2>1. \A e \in cache' : e \in cache /\ e.project \in Projects /\ open[e.project] # None /\ e.project \notin evicted
    BY <1>16 DEF Inv, CacheIsOfOpenGraphs, TypeOK, Cached
  <2>2. \A e \in cache' : open'[e.project] # None
    BY <1>7, <2>1, EvictionLeaves DEF OpenProjects
  <2> QED
    BY <2>1, <2>2 DEF Inv, CacheIsOfOpenGraphs
<1>21. OneRuntime'
  <2>1. \A w \in Busy : SlotOf(w) \in InUse \ {None, s}
    BY <1>5, SlotsOfJobs DEF InUse, SlotOf
  <2>2. \A k \in Queued : k.slot \in InUse \ {None, s}
    <3>1. \A k \in Queued : k \in Job
      BY DEF Inv, TypeOK, Queued
    <3> QED
      BY <1>5, <3>1 DEF Job, InUse
  <2>3. \A x \in InUse \ {None, s} : slot'[x] = slot[x]
    BY <1>6, EvictionLeaves
  <2>4. /\ \A i \in DOMAIN work : work[i].slot # s /\ slot'[work[i].slot] = slot[work[i].slot]
        /\ \A i \in DOMAIN queries : queries[i].slot # s
    BY <2>2, <2>3 DEF Queued
  <2>5. \A i \in DOMAIN work' : work'[i].kind = "open" =>
          /\ slot'[work'[i].slot].busy
          /\ \A j \in DOMAIN work' : work'[j].slot = work'[i].slot => j = i
          /\ \A j \in DOMAIN queries' : queries'[j].slot # work'[i].slot
          /\ \A w \in Busy : SlotOf(w) # work'[i].slot
    <3> SUFFICES ASSUME NEW i \in DOMAIN work', work'[i].kind = "open"
                 PROVE  /\ slot'[work'[i].slot].busy
                        /\ \A j \in DOMAIN work' : work'[j].slot = work'[i].slot => j = i
                        /\ \A j \in DOMAIN queries' : queries'[j].slot # work'[i].slot
                        /\ \A w \in Busy : SlotOf(w) # work'[i].slot
      OBVIOUS
    <3>1. CASE i = Len(work) + 1
      BY <1>1, <1>2, <1>6, <1>11, <2>1, <2>4, <3>1
    <3>2. CASE i \in DOMAIN work
      <4>1. /\ work'[i] = work[i] /\ slot[work[i].slot].busy
            /\ \A j \in DOMAIN work : work[j].slot = work[i].slot => j = i
            /\ \A j \in DOMAIN queries : queries[j].slot # work[i].slot
            /\ \A w \in Busy : SlotOf(w) # work[i].slot
        BY <1>11, <3>2 DEF Inv, OneRuntime, Loading, Reading
      <4>2. \A j \in DOMAIN work' : work'[j].slot = work[i].slot => j = i
        BY <1>2, <1>11, <2>4, <3>2, <4>1
      <4> QED
        BY <2>4, <3>2, <4>1, <4>2
    <3> QED
      BY <1>11, <3>1, <3>2
  <2>6. \A w \in Busy : slot'[SlotOf(w)] = slot[SlotOf(w)]
    BY <2>1, <2>3
  <2>7. \A w \in Busy : worker'[w].at \in Loading =>
          /\ slot'[SlotOf(w)].busy
          /\ \A k \in Queued' : k.slot # SlotOf(w)
          /\ \A v \in Busy : SlotOf(v) = SlotOf(w) => v = w
    BY <1>2, <1>12, <2>1, <2>6 DEF Inv, OneRuntime, Loading, Reading
  <2>8. \A d \in Conns : conn'[d] # None /\ conn'[d].at # "reply" => conn'[d].key \in Keys
    BY <1>3, <1>13 DEF Inv, OneRuntime, Loading, Reading
  <2>9. \A k \in Queued' : k.kind # "open" => k.key \in Keys
    BY <1>2, <1>12 DEF Inv, OneRuntime, Loading, Reading
  <2> QED
    BY <1>14, <2>5, <2>6, <2>7, <2>8, <2>9 DEF Inv, OneRuntime, Loading, Reading
<1> QED
  BY <1>9, <1>17, <1>18, <1>19, <1>20, <1>21 DEF Inv

LEMMA OpenSlotKeepsInv ==
  ASSUME Inv, NEW c \in Conns, NEW evicted \in Evictions, OpenSlot(c, evicted) PROVE Inv'
<1>1. /\ conn[c] # None /\ conn[c].at = "find" /\ open[conn[c].project] = None
      /\ cache' = Kept(evicted) /\ UNCHANGED <<queries, worker>>
  BY DEF OpenSlot
<1>2. conn[c].project \in Projects
  BY <1>1, SlotsOfRequests DEF Request
<1>3. CASE Len(work) < Capacity
  <2>1. PICK s \in Slots :
          /\ slot[s] = None
          /\ slot' = [Left(evicted) EXCEPT ![s] = NewSlot(conn[c].project)]
          /\ open' = [Others(evicted) EXCEPT ![conn[c].project] = s]
          /\ work' = Append(work, [kind |-> "open", slot |-> s, key |-> None])
          /\ conn' = [conn EXCEPT ![c] = [@ EXCEPT !.at = "check", !.slot = s]]
    <3>1. ~(Len(work) >= Capacity)
      BY <1>3 DEF Inv, TypeOK
    <3> QED
      BY <3>1, Zenon DEF OpenSlot, Left, Others
  <2> QED
    BY <1>1, <1>2, <1>3, <2>1, OpenTakenKeepsInv
<1>4. CASE ~(Len(work) < Capacity)
  <2>1. slot' = Left(evicted) /\ open' = Others(evicted) /\ Replied(c) /\ UNCHANGED work
    BY <1>4, Zenon DEF OpenSlot, Left, Others
  <2> QED
    BY <1>1, <2>1, OpenRefusedKeepsInv
<1> QED
  BY <1>3, <1>4

-----------------------------------------------------------------------------
LEMMA InitHasInv == Init => Inv
<1> SUFFICES ASSUME Init PROVE Inv
  OBVIOUS
<1> USE DEF Init
<1>1. Busy = {} /\ Queued = {} /\ OpenProjects = {}
  BY DEF Busy, Queued, OpenProjects
<1>2. TypeOK
  BY DEF TypeOK
<1>3. OneRuntime
  BY <1>1 DEF OneRuntime, Loading, Reading
<1>4. OneSlotPerProject
  BY <1>1 DEF OneSlotPerProject, InUse
<1>5. Bounded
  BY <1>1, FS_EmptySet DEF Bounded, OpenIsBounded
<1>6. BusyHasJob /\ CacheIsOfOpenGraphs
  BY DEF BusyHasJob, CacheIsOfOpenGraphs
<1> QED
  BY <1>2, <1>3, <1>4, <1>5, <1>6 DEF Inv

LEMMA StutterKeepsInv == ASSUME Inv, UNCHANGED vars PROVE Inv'
<1>1. /\ slot' = slot /\ open' = open /\ recent' = recent /\ cache' = cache /\ conn' = conn
      /\ work' = work /\ queries' = queries /\ worker' = worker
  BY DEF vars
<1> QED
  BY <1>1 DEF Inv, TypeOK, OneRuntime, OneSlotPerProject, Bounded, OpenIsBounded, BusyHasJob, CacheIsOfOpenGraphs,
              Loading, Reading, Busy, SlotOf, OpenProjects, Queued, InUse

LEMMA NextKeepsInv == ASSUME Inv, [Next]_vars PROVE Inv'
<1>1. ASSUME NEW c \in Conns, NEW p \in Projects, AskStatus(c, p) PROVE Inv'
  BY <1>1, AskStatusKeepsInv
<1>2. ASSUME NEW c \in Conns, NEW p \in Projects, NEW key \in Keys, Ask(c, p, key) PROVE Inv'
  BY <1>2, AskKeepsInv
<1>3. ASSUME NEW c \in Conns, Handle(c) PROVE Inv'
  <2>1. CASE FindSlot(c)
    BY <2>1, FindSlotKeepsInv
  <2>2. CASE NoRoom(c)
    BY <2>2, ReplyKeepsInv DEF NoRoom, pools
  <2>3. CASE \E evicted \in Evictions : OpenSlot(c, evicted)
    BY <2>3, OpenSlotKeepsInv
  <2>4. CASE Check(c)
    BY <2>4, CheckKeepsInv
  <2>5. CASE Accepted(c)
    BY <2>5, AcceptedKeepsInv
  <2>6. CASE Submit(c)
    BY <2>6, SubmitKeepsInv
  <2>7. CASE Refuse(c)
    BY <2>7, RefuseKeepsInv
  <2>8. CASE Reply(c)
    BY <2>8, ReplyKeepsInv DEF Reply, pools
  <2> QED
    BY <1>3, <2>1, <2>2, <2>3, <2>4, <2>5, <2>6, <2>7, <2>8 DEF Handle
<1>4. ASSUME NEW w \in Workers, Work(w) PROVE Inv'
  BY <1>4, TakeWorkKeepsInv, TakeQueryKeepsInv, StartLoadKeepsInv, LoadKeepsInv, FinishLoadKeepsInv,
     LockRuntimeKeepsInv, RefreshKeepsInv, AnswerKeepsInv, PublishKeepsInv, PanicKeepsInv, DropGuardKeepsInv
     DEF Work
<1> QED
  BY <1>1, <1>2, <1>3, <1>4, StutterKeepsInv DEF Next

LEMMA InvHolds == Spec => []Inv
BY InitHasInv, NextKeepsInv, PTL DEF Spec

(* Every reachable state of the server is well typed, and a request that   *)
(* has found its slot refers to one.                                       *)
THEOREM TypesHold == Spec => []TypeOK
<1>1. Inv => TypeOK
  BY DEF Inv
<1> QED
  BY <1>1, InvHolds, PTL

(* However projects are opened, evicted and asked about meanwhile, a slot  *)
(* that anything refers to is its project's only one.                      *)
THEOREM ProjectsHaveOneSlot == Spec => []OneSlotPerProject
<1>1. Inv => OneSlotPerProject
  BY DEF Inv
<1> QED
  BY <1>1, InvHolds, PTL

(* MAX_OPEN_PROJECTS is kept: a slot is evicted before one is added.       *)
THEOREM OpenStaysBounded == Spec => []OpenIsBounded
<1>1. Inv => OpenIsBounded
  BY DEF Inv, Bounded
<1> QED
  BY <1>1, InvHolds, PTL

(* No slot stays busy without a job: whatever fails, panics or finds a     *)
(* queue full, something is left that ends it.                             *)
THEOREM BusySlotsHaveJobs == Spec => []BusyHasJob
<1>1. Inv => BusyHasJob
  BY DEF Inv
<1> QED
  BY <1>1, InvHolds, PTL

(* No response is served from a graph that its snapshot does not name, or  *)
(* for a project that was evicted since.                                   *)
THEOREM ResponsesAreOfOpenGraphs == Spec => []CacheIsOfOpenGraphs
<1>1. Inv => CacheIsOfOpenGraphs
  BY DEF Inv
<1> QED
  BY <1>1, InvHolds, PTL

-----------------------------------------------------------------------------
(* The order of use *)

(* A sequence lists what it lists once. *)
OnceEach(s) == \A i, j \in 1 .. Len(s) : s[i] = s[j] => i = j

(* An element is taken out, and the others close up. *)
LEMMA RemoveFirstCloses ==
  ASSUME NEW S, NEW s \in Seq(S), NEW k \in 1 .. Len(s), OnceEach(s)
  PROVE  LET r == RemoveFirst(s, s[k])
         IN /\ r \in Seq(S)
            /\ Len(r) = Len(s) - 1
            /\ \A i \in 1 .. Len(r) : r[i] = IF i < k THEN s[i] ELSE s[i + 1]
<1> DEFINE e == s[k]
           I == {i \in 1 .. Len(s) : s[i] = e}
<1>1. Len(s) \in Nat /\ \A i \in 1 .. Len(s) : s[i] \in S
  BY LenProperties, ElementOfSeq
<1>2. I = {k}
  BY DEF OnceEach
<1>3. SelectInSeq(s, LAMBDA v : v = e) = k
  <2>1. SelectInSeq(s, LAMBDA v : v = e) = IF I # {} THEN Min(I) ELSE 0
    BY DEF SelectInSeq
  <2>2. Min({k}) = k
    BY <1>1 DEF Min
  <2> QED
    BY <1>2, <2>1, <2>2
<1>4. RemoveFirst(s, e) = RemoveAt(s, k)
  BY <1>3 DEF RemoveFirst
<1> DEFINE l == SubSeq(s, 1, k - 1)
           r == SubSeq(s, k + 1, Len(s))
<1>5. l \in Seq(S) /\ Len(l) = k - 1 /\ \A i \in 1 .. k - 1 : l[i] = s[i]
  BY <1>1, SubSeqProperties
<1>6. r \in Seq(S) /\ Len(r) = Len(s) - k /\ \A i \in 1 .. Len(s) - k : r[i] = s[k + i]
  BY <1>1, SubSeqProperties
<1> HIDE DEF l, r
<1>7. /\ l \o r \in Seq(S)
      /\ Len(l \o r) = Len(s) - 1
      /\ \A i \in 1 .. Len(s) - 1 : (l \o r)[i] = IF i <= Len(l) THEN l[i] ELSE r[i - Len(l)]
  <2>1. Len(l) + Len(r) = Len(s) - 1
    BY <1>1, <1>5, <1>6
  <2>2. /\ l \o r \in Seq(S)
        /\ Len(l \o r) = Len(l) + Len(r)
        /\ \A i \in 1 .. Len(l) + Len(r) : (l \o r)[i] = IF i <= Len(l) THEN l[i] ELSE r[i - Len(l)]
    BY ONLY <1>5, <1>6, ConcatProperties
  <2> QED
    BY <2>1, <2>2
<1>8. ASSUME NEW i \in 1 .. Len(s) - 1
      PROVE  (l \o r)[i] = IF i < k THEN s[i] ELSE s[i + 1]
  <2>1. CASE i < k
    BY <1>1, <1>5, <1>7, <2>1
  <2>2. CASE i >= k
    <3>1. (l \o r)[i] = r[i - (k - 1)] /\ i - (k - 1) \in 1 .. Len(s) - k /\ k + (i - (k - 1)) = i + 1
      BY <1>1, <1>5, <1>7, <2>2
    <3>2. r[i - (k - 1)] = s[k + (i - (k - 1))]
      BY <1>6, <3>1
    <3> QED
      BY <1>1, <2>2, <3>1, <3>2
  <2>3. i < k \/ i >= k
    BY <1>1
  <2> QED
    BY <2>1, <2>2, <2>3
<1>9. RemoveFirst(s, e) = l \o r
  BY <1>4 DEF RemoveAt, l, r
<1> QED
  BY <1>7, <1>8, <1>9

(* What is left lists all but the one that was taken out, once each. *)
LEMMA RemovedOnce ==
  ASSUME NEW S, NEW s \in Seq(S), NEW e \in ToSet(s), OnceEach(s)
  PROVE  LET r == RemoveFirst(s, e)
         IN r \in Seq(S) /\ OnceEach(r) /\ ToSet(r) = ToSet(s) \ {e}
<1> DEFINE r == RemoveFirst(s, e)
<1>1. Len(s) \in Nat /\ DOMAIN s = 1 .. Len(s)
  BY LenProperties
<1>2. PICK k \in 1 .. Len(s) : s[k] = e
  BY <1>1 DEF ToSet
<1>3. /\ r \in Seq(S)
      /\ Len(r) = Len(s) - 1
      /\ \A i \in 1 .. Len(r) : r[i] = IF i < k THEN s[i] ELSE s[i + 1]
  BY <1>2, RemoveFirstCloses
<1> HIDE DEF r
<1>4. DOMAIN r = 1 .. Len(r)
  BY <1>3, LenProperties
<1> DEFINE at(i) == IF i < k THEN i ELSE i + 1
<1>5. \A i \in 1 .. Len(r) : at(i) \in 1 .. Len(s) \ {k} /\ r[i] = s[at(i)]
  <2> TAKE i \in 1 .. Len(r)
  <2>1. at(i) \in 1 .. Len(s) \ {k}
    BY <1>1, <1>3
  <2>2. r[i] = s[at(i)]
    BY <1>3
  <2> QED
    BY <2>1, <2>2
<1>6. \A i, j \in 1 .. Len(r) : at(i) = at(j) => i = j
  BY <1>1, <1>3
<1>7. \A j \in 1 .. Len(s) \ {k} : \E i \in 1 .. Len(r) : at(i) = j
  <2> TAKE j \in 1 .. Len(s) \ {k}
  <2> DEFINE i == IF j < k THEN j ELSE j - 1
  <2>1. i \in 1 .. Len(r) /\ at(i) = j
    BY <1>1, <1>3
  <2> QED
    BY <2>1
<1> HIDE DEF at
<1>8. OnceEach(r)
  BY <1>5, <1>6 DEF OnceEach
<1>9. \A x \in ToSet(r) : x \in ToSet(s) \ {e}
  BY <1>1, <1>2, <1>4, <1>5 DEF ToSet, OnceEach
<1>10. ASSUME NEW x \in ToSet(s) \ {e}
       PROVE  x \in ToSet(r)
  <2>1. PICK j \in 1 .. Len(s) \ {k} : s[j] = x
    BY <1>1, <1>2 DEF ToSet
  <2>2. PICK i \in 1 .. Len(r) : at(i) = j
    BY <1>7
  <2> QED
    BY <1>4, <1>5, <2>1, <2>2 DEF ToSet
<1>11. ToSet(r) = ToSet(s) \ {e}
  BY <1>9, <1>10
<1> QED
  BY <1>3, <1>8, <1>11 DEF r

(* One that is not listed yet is the last. *)
LEMMA AppendedOnce ==
  ASSUME NEW S, NEW s \in Seq(S), NEW e \in S, e \notin ToSet(s), OnceEach(s)
  PROVE  LET r == Append(s, e)
         IN r \in Seq(S) /\ OnceEach(r) /\ ToSet(r) = ToSet(s) \cup {e}
<1> DEFINE r == Append(s, e)
<1>1. Len(s) \in Nat /\ DOMAIN s = 1 .. Len(s)
  BY LenProperties
<1>2. /\ r \in Seq(S) /\ Len(r) = Len(s) + 1 /\ r[Len(s) + 1] = e
      /\ \A i \in 1 .. Len(s) : r[i] = s[i]
  BY AppendProperties
<1> HIDE DEF r
<1>3. DOMAIN r = 1 .. Len(r)
  BY <1>2, LenProperties
<1>4. \A i \in 1 .. Len(r) : i = Len(s) + 1 \/ i \in 1 .. Len(s)
  BY <1>1, <1>2
<1>5. \A i \in 1 .. Len(s) : s[i] # e /\ i \in 1 .. Len(r) /\ i # Len(s) + 1
  BY <1>1, <1>2 DEF ToSet
<1>6. OnceEach(r)
  BY <1>2, <1>4, <1>5 DEF OnceEach
<1>7. Len(s) + 1 \in 1 .. Len(r)
  BY <1>1, <1>2
<1>8. ToSet(r) = ToSet(s) \cup {e}
  BY <1>1, <1>2, <1>3, <1>4, <1>5, <1>7 DEF ToSet
<1> QED
  BY <1>2, <1>6, <1>8 DEF r

LEMMA OnceCounts ==
  ASSUME NEW S, NEW s \in Seq(S), OnceEach(s)
  PROVE  Cardinality(ToSet(s)) = Len(s)
<1> DEFINE D == 1 .. Len(s)
           T == {s[i] : i \in D}
           f == [i \in D |-> s[i]]
<1>1. Len(s) \in Nat /\ DOMAIN s = D
  BY LenProperties
<1>2. f \in Bijection(D, T)
  BY DEF OnceEach, Bijection, Injection, Surjection, IsInjective
<1>3. Cardinality(T) = Len(s)
  BY <1>1, <1>2, FS_CountingElements DEF ExistsBijection
<1> QED
  BY <1>1, <1>3 DEF ToSet

(* The order lists the open projects, each once. *)
Listed == recent \in Seq(Projects) /\ OnceEach(recent) /\ ToSet(recent) = OpenProjects

LEMMA FindSlotKeepsListed ==
  ASSUME Inv, Listed, NEW c \in Conns, FindSlot(c) PROVE Listed'
<1> DEFINE p == conn[c].project
           r == RemoveFirst(recent, p)
<1>1. open' = open /\ recent' = Append(r, p) /\ conn[c] # None /\ open[p] # None
  BY DEF FindSlot, Touched
<1>2. p \in Projects
  BY <1>1, SlotsOfRequests DEF Request
<1> HIDE DEF p
<1>3. p \in ToSet(recent)
  BY <1>1, <1>2 DEF Listed, OpenProjects, p
<1>4. r \in Seq(Projects) /\ OnceEach(r) /\ ToSet(r) = ToSet(recent) \ {p}
  BY <1>3, RemovedOnce DEF Listed
<1> HIDE DEF r
<1>5. /\ Append(r, p) \in Seq(Projects) /\ OnceEach(Append(r, p))
      /\ ToSet(Append(r, p)) = ToSet(r) \cup {p}
  BY <1>2, <1>4, AppendedOnce
<1>6. OpenProjects' = OpenProjects
  BY <1>1 DEF OpenProjects
<1> QED
  BY <1>1, <1>3, <1>4, <1>5, <1>6 DEF Listed

(* What is evicted leaves the order. *)
LEMMA OrderedLists ==
  ASSUME Inv, Listed, NEW evicted \in Evictions
  PROVE  LET r == Ordered(evicted)
         IN r \in Seq(Projects) /\ OnceEach(r) /\ ToSet(r) = OpenProjects \ evicted
<1>1. CASE evicted = {}
  BY <1>1 DEF Ordered, Listed
<1>2. CASE evicted # {}
  <2>1. PICK i \in Oldest : evicted = {recent[i]}
    BY <1>2 DEF Evictions
  <2> DEFINE p == recent[i]
  <2>2. p \in ToSet(recent) /\ evicted = {p}
    BY <2>1 DEF Oldest, Evictable, ToSet
  <2> HIDE DEF p
  <2>3. (CHOOSE q \in evicted : TRUE) = p
    BY <2>2
  <2>4. Ordered(evicted) = RemoveFirst(recent, p)
    BY <1>2, <2>3 DEF Ordered
  <2> DEFINE r == RemoveFirst(recent, p)
  <2>5. recent \in Seq(Projects) /\ OnceEach(recent) /\ ToSet(recent) = OpenProjects
    BY DEF Listed
  <2>6. r \in Seq(Projects) /\ OnceEach(r) /\ ToSet(r) = ToSet(recent) \ {p}
    BY ONLY <2>2, <2>5, RemovedOnce
  <2>7. Ordered(evicted) = r
    BY <2>4
  <2> HIDE DEF r
  <2> QED
    BY <2>2, <2>5, <2>6, <2>7
<1> QED
  BY <1>1, <1>2

LEMMA OpenSlotKeepsListed ==
  ASSUME Inv, Listed, NEW c \in Conns, NEW evicted \in Evictions, OpenSlot(c, evicted) PROVE Listed'
<1> DEFINE p == conn[c].project
           r == Ordered(evicted)
<1>1. r \in Seq(Projects) /\ OnceEach(r) /\ ToSet(r) = OpenProjects \ evicted
  BY OrderedLists
<1> HIDE DEF r
<1>2. conn[c] # None /\ open[p] = None
  BY DEF OpenSlot
<1>3. p \in Projects /\ p \notin OpenProjects
  BY <1>2, SlotsOfRequests DEF Request, OpenProjects
<1>4. Others(evicted) \in [Projects -> Slots \cup {None}] /\ \A q \in OpenProjects \ evicted : Others(evicted)[q] = open[q]
  BY EvictionLeaves
<1>5. /\ \A q \in Projects : Others(evicted)[q] # None => q \in OpenProjects \ evicted
      /\ \A q \in OpenProjects \ evicted : q \in Projects /\ Others(evicted)[q] # None
  BY EvictionLeaves DEF OpenProjects
<1>6. \/ \E s \in Slots : open' = [Others(evicted) EXCEPT ![p] = s] /\ recent' = Append(r, p)
      \/ open' = Others(evicted) /\ recent' = r
  BY Zenon DEF OpenSlot, Others, r
<1>7. ASSUME NEW s \in Slots, open' = [Others(evicted) EXCEPT ![p] = s], recent' = Append(r, p)
      PROVE  Listed'
  <2>1. /\ recent' \in Seq(Projects) /\ OnceEach(recent') /\ ToSet(recent') = ToSet(r) \cup {p}
    BY <1>1, <1>3, <1>7, AppendedOnce
  <2> HIDE DEF p
  <2>2. OpenProjects' = (OpenProjects \ evicted) \cup {p}
    BY <1>3, <1>4, <1>5, <1>7 DEF OpenProjects
  <2> QED
    BY <1>1, <2>1, <2>2 DEF Listed
<1>8. CASE open' = Others(evicted) /\ recent' = r
  <2>1. OpenProjects' = OpenProjects \ evicted
    BY <1>5, <1>8 DEF OpenProjects
  <2> QED
    BY <1>1, <1>8, <2>1 DEF Listed
<1> QED
  BY <1>6, <1>7, <1>8

LEMMA NextKeepsListed == ASSUME Inv, Listed, [Next]_vars PROVE Listed'
<1>1. CASE UNCHANGED <<open, recent>>
  BY <1>1 DEF Listed, OpenProjects
<1>2. ASSUME NEW c \in Conns, NEW p \in Projects, AskStatus(c, p) \/ \E key \in Keys : Ask(c, p, key)
      PROVE  UNCHANGED <<open, recent>>
  BY <1>2 DEF AskStatus, Ask
<1>3. ASSUME NEW c \in Conns, NoRoom(c) \/ Check(c) \/ Accepted(c) \/ Submit(c) \/ Refuse(c) \/ Reply(c)
      PROVE  UNCHANGED <<open, recent>>
  BY <1>3 DEF NoRoom, Check, Accepted, Submit, Refuse, Reply
<1>4. ASSUME NEW w \in Workers, Work(w)
      PROVE  UNCHANGED <<open, recent>>
  BY <1>4 DEF Work, TakeWork, TakeQuery, StartLoad, Load, FinishLoad, LockRuntime, Refresh, Answer, Publish,
              Panic, DropGuard
<1>5. CASE UNCHANGED vars
  BY <1>1, <1>5 DEF vars
<1> QED
  BY <1>1, <1>2, <1>3, <1>4, <1>5, FindSlotKeepsListed, OpenSlotKeepsListed DEF Next, Handle

LEMMA ListedHolds == Spec => []Listed
<1>1. Init => Listed
  <2> SUFFICES ASSUME Init
               PROVE  Listed
    OBVIOUS
  <2>1. recent = << >> /\ OpenProjects = {}
    BY DEF Init, OpenProjects
  <2> QED
    BY <2>1 DEF Listed, OnceEach, ToSet
<1> QED
  BY <1>1, InvHolds, NextKeepsListed, PTL DEF Spec

(* However projects are opened, used and evicted, the order of use lists   *)
(* each open project once: none is forgotten by every later eviction, and  *)
(* none is found there after it is gone (slot, its retain and push_back).  *)
THEOREM OrderStaysOfOpen == Spec => []OrderListsOpen
<1>1. Listed => OrderListsOpen
  BY OnceCounts DEF Listed, OrderListsOpen
<1> QED
  BY <1>1, ListedHolds, PTL

(* Slots are accounted for through evictions, full queues, failed loads and*)
(* panics: few enough, each its project's only one and with one place in   *)
(* the order of use, and what makes it busy will end.                      *)
THEOREM SlotsStaySound == Spec => []SlotsAreSound
<1>1. OpenIsBounded /\ OneSlotPerProject /\ BusyHasJob /\ OrderListsOpen => SlotsAreSound
  BY DEF SlotsAreSound
<1> QED
  BY <1>1, OpenStaysBounded, ProjectsHaveOneSlot, BusySlotsHaveJobs, OrderStaysOfOpen, PTL
=============================================================================
