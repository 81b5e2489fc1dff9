---------------------------- MODULE MemoryStoreProofs ----------------------------
(***************************************************************************)
(* Proofs about MemoryStore, for any decisions, any processes, any clock   *)
(* and any number of failures.  The lock makes the stages that write       *)
(* exclusive (Exclusive); so what a recording process found, and what it   *)
(* wrote, is still there at its next step, and a prune only removes what   *)
(* its clock has seen expire (Writing).  A reader holds no lock: what was  *)
(* there when it began is there or has expired, so it passes over nothing  *)
(* that is still valid (Reader).                                           *)
(***************************************************************************)
EXTENDS MemoryStore, FiniteSetTheorems, WellFoundedInduction, TLAPS

Locked == {"check", "create", "rename", "sync", "prune"}

Exclusive == \A p \in Procs : pc[p] \in Locked => holders = {Parent(p)}

Writing(p) ==
  /\ pc[p] \in {"create", "rename"} => ~Stored(op[p].id)
  /\ At(p, "sync") => files[op[p].id] = op[p].now
  /\ At(p, "prune") => op[p].now <= clock

(* What was in the store stays there until it expires. *)
Lasts(id) == Stored(id) \/ Expired(id, clock)

Missed(p, id) == id \notin op[p].todo \cup op[p].kept

(* The answer of p is the best of such a set. *)
IsAnswer(p, set) ==
  LET read == op[p].read IN
  /\ \A id \in set : Matches(id, read) /\ (Stored(id) \/ Expired(id, clock))
  /\ \A id \in read.moment : Matches(id, read) /\ ~Expired(id, clock) => id \in set
  /\ op[p].answer = Best(set, read.limit)
  /\ op[p].truncated <=> Cardinality(set) > read.limit

Reader(p) ==
  /\ pc[p] \in Reading =>
       /\ \A id \in op[p].moment : Lasts(id)
       /\ \A id \in op[p].todo : Lasts(id)
       /\ \A id \in op[p].kept : Lasts(id) /\ Matches(id, op[p])
  /\ At(p, "list") => \A id \in op[p].moment \ op[p].ahead : Missed(p, id) => Expired(id, clock)
  /\ At(p, "test") => \A id \in op[p].moment : Missed(p, id) => Expired(id, clock)
  /\ At(p, "read") =>
       \A id \in op[p].moment : Missed(p, id) /\ Matches(id, op[p]) => Expired(id, clock)
  /\ At(p, "answered") => \E set \in SUBSET Ids : IsAnswer(p, set)

Inv ==
  /\ TypeOK
  /\ Exclusive
  /\ \A p \in Procs : Writing(p) /\ Reader(p)
  /\ RememberedUntilExpired

USE MemoryAssumption DEF Times, At, Goto, Keep, Fail

-----------------------------------------------------------------------------
(* The smallest of a set of naturals is one of it. *)
LEMMA MinIsMember ==
  ASSUME NEW S \in SUBSET Nat, S # {}
  PROVE  Min(S) \in S
<1> DEFINE ranges == {0 .. n : n \in S}
<1>1. PICK n \in S : TRUE
  OBVIOUS
<1>2. ranges \subseteq FiniteSubsetsOf(Nat) /\ ranges # {}
  <2>1. \A m \in Nat : IsFiniteSet(0 .. m)
    BY FS_Interval
  <2> QED
    BY <1>1, <2>1 DEF FiniteSubsetsOf
<1>3. PICK x \in ranges : \A y \in ranges : ~(<<y, x>> \in StrictSubsetOrdering(Nat))
  <2> HIDE DEF ranges
  <2> QED
    BY <1>2, FS_StrictSubsetOrderingWellFounded, WFMin
<1>4. PICK m \in S : x = 0 .. m
  OBVIOUS
<1>5. ASSUME NEW k \in S PROVE m <= k
  <2>1. 0 .. k \in ranges
    OBVIOUS
  <2>2. ~(<<0 .. k, 0 .. m>> \in StrictSubsetOrdering(Nat))
    BY <2>1, <1>3, <1>4
  <2>3. SUFFICES ASSUME k < m PROVE FALSE
    OBVIOUS
  <2>4. 0 .. k \subseteq 0 .. m /\ m \in 0 .. m /\ m \notin 0 .. k
    BY <2>3
  <2>5. 0 .. k \in SUBSET Nat /\ 0 .. m \in SUBSET Nat
    OBVIOUS
  <2> QED
    BY <2>2, <2>4, <2>5 DEF StrictSubsetOrdering
<1> QED
  BY <1>5 DEF Min

(* What has expired stays so. *)
LEMMA ExpiryIsFinal ==
  ASSUME NEW id \in Ids, NEW s \in Nat, NEW t \in Nat, s <= t, Expired(id, s)
  PROVE  Expired(id, t)
BY DEF Expired

(* A call's locals when it has dealt with one file. *)
Advanced(r, ahead, todo, kept) ==
  [now |-> r.now, least |-> r.least, limit |-> r.limit, ahead |-> ahead, todo |-> todo,
   kept |-> kept, moment |-> r.moment]

LEMMA AdvancedIsRead ==
  ASSUME NEW r \in Read, NEW ahead \in SUBSET Ids, NEW todo \in SUBSET Ids, NEW kept \in SUBSET Ids
  PROVE  Advanced(r, ahead, todo, kept) \in Read
BY DEF Read, Advanced

LEMMA AdvanceAhead ==
  ASSUME NEW r \in Read, NEW ahead
  PROVE  [r EXCEPT !.ahead = ahead] = Advanced(r, ahead, r.todo, r.kept)
BY DEF Read, Advanced

LEMMA AdvanceTodo ==
  ASSUME NEW r \in Read, NEW todo
  PROVE  [r EXCEPT !.todo = todo] = Advanced(r, r.ahead, todo, r.kept)
BY DEF Read, Advanced

LEMMA ListAdvances ==
  ASSUME NEW r \in Read, NEW ahead \in SUBSET Ids, NEW todo
  PROVE  [r EXCEPT !.ahead = ahead, !.todo = todo] = Advanced(r, ahead, todo, r.kept)
<1> DEFINE one == Advanced(r, ahead, r.todo, r.kept)
<1>1. r.todo \in SUBSET Ids /\ r.kept \in SUBSET Ids
  BY DEF Read
<1>2. one \in Read
  BY <1>1, AdvancedIsRead
<1>3. [r EXCEPT !.ahead = ahead, !.todo = todo] = [one EXCEPT !.todo = todo]
  BY AdvanceAhead, Zenon
<1>4. [one EXCEPT !.todo = todo] = Advanced(one, one.ahead, todo, one.kept)
  <2> HIDE DEF one
  <2> QED
    BY <1>2, AdvanceTodo
<1>5. Advanced(one, one.ahead, todo, one.kept) = Advanced(r, ahead, todo, r.kept)
  BY DEF Advanced
<1> QED
  BY <1>3, <1>4, <1>5

LEMMA ReadAdvances ==
  ASSUME NEW r \in Read, NEW todo \in SUBSET Ids, NEW kept
  PROVE  [r EXCEPT !.todo = todo, !.kept = kept] = Advanced(r, r.ahead, todo, kept)
<1> DEFINE one == Advanced(r, r.ahead, todo, r.kept)
<1>1. r.ahead \in SUBSET Ids /\ r.kept \in SUBSET Ids
  BY DEF Read
<1>2. one \in Read
  BY <1>1, AdvancedIsRead
<1>3. [r EXCEPT !.todo = todo, !.kept = kept] = [one EXCEPT !.kept = kept]
  BY AdvanceTodo, Zenon
<1>4. [one EXCEPT !.kept = kept] = Advanced(r, r.ahead, todo, kept)
  BY DEF Advanced
<1> QED
  BY <1>3, <1>4

LEMMA PruneAdvances ==
  ASSUME NEW r \in Prune, NEW todo
  PROVE  [r EXCEPT !.todo = todo] = [now |-> r.now, dryRun |-> r.dryRun, todo |-> todo]
BY DEF Prune

(* The steps of a reader. *)
LEMMA ListOneAdvances ==
  ASSUME TypeOK, NEW p \in Procs, ListOne(p)
  PROVE  /\ op[p] \in Read
         /\ \E id \in op[p].ahead, found \in SUBSET Ids :
              /\ found \subseteq {id}
              /\ found = {} <=> ~Stored(id)
              /\ op' = [op EXCEPT ![p] = Advanced(op[p], op[p].ahead \ {id}, op[p].todo \cup found,
                                                  op[p].kept)]
<1>1. op[p] \in Read
  BY DEF TypeOK, ListOne, Reading
<1>2. PICK id \in op[p].ahead :
        op' = [op EXCEPT ![p] = [op[p] EXCEPT !.ahead = @ \ {id},
                                              !.todo = @ \cup (IF Stored(id) THEN {id} ELSE {})]]
  BY DEF ListOne
<1> DEFINE found == IF Stored(id) THEN {id} ELSE {}
           ahead == op[p].ahead \ {id}
           todo == op[p].todo \cup found
<1>3. op' = [op EXCEPT ![p] = [op[p] EXCEPT !.ahead = ahead, !.todo = todo]]
  BY <1>2
<1>4. ahead \in SUBSET Ids
  BY <1>1 DEF Read
<1>5. found \in SUBSET Ids /\ found \subseteq {id} /\ (found = {} <=> ~Stored(id))
  BY <1>1 DEF Read
<1>6. [op[p] EXCEPT !.ahead = ahead, !.todo = todo] = Advanced(op[p], ahead, todo, op[p].kept)
  <2> HIDE DEF ahead, todo
  <2> QED
    BY <1>1, <1>4, ListAdvances
<1>7. op' = [op EXCEPT ![p] = Advanced(op[p], ahead, todo, op[p].kept)]
  <2> HIDE DEF ahead, todo
  <2> QED
    BY <1>3, <1>6
<1> HIDE DEF found
<1> QED
  BY <1>1, <1>5, <1>7

LEMMA EndListAdvances ==
  ASSUME TypeOK, NEW p \in Procs, EndList(p)
  PROVE  /\ op[p] \in Read
         /\ op' = [op EXCEPT ![p] = Advanced(op[p], op[p].todo, op[p].todo, op[p].kept)]
<1>1. op[p] \in Read
  BY DEF TypeOK, EndList, Reading
<1>2. op' = [op EXCEPT ![p] = [op[p] EXCEPT !.ahead = op[p].todo]]
  BY DEF EndList
<1> QED
  BY <1>1, <1>2, AdvanceAhead, Zenon

LEMMA TestOneAdvances ==
  ASSUME TypeOK, NEW p \in Procs, TestOne(p)
  PROVE  /\ op[p] \in Read
         /\ \E id \in op[p].ahead, gone \in SUBSET Ids :
              /\ gone \subseteq {id}
              /\ gone = {} <=> Stored(id)
              /\ op' = [op EXCEPT ![p] = Advanced(op[p], op[p].ahead \ {id}, op[p].todo \ gone,
                                                  op[p].kept)]
<1>1. op[p] \in Read
  BY DEF TypeOK, TestOne, Reading
<1>2. PICK id \in op[p].ahead :
        op' = [op EXCEPT ![p] = [op[p] EXCEPT !.ahead = @ \ {id},
                                              !.todo = @ \ (IF Stored(id) THEN {} ELSE {id})]]
  BY DEF TestOne
<1> DEFINE gone == IF Stored(id) THEN {} ELSE {id}
           ahead == op[p].ahead \ {id}
           todo == op[p].todo \ gone
<1>3. op' = [op EXCEPT ![p] = [op[p] EXCEPT !.ahead = ahead, !.todo = todo]]
  BY <1>2
<1>4. ahead \in SUBSET Ids
  BY <1>1 DEF Read
<1>5. gone \in SUBSET Ids /\ gone \subseteq {id} /\ (gone = {} <=> Stored(id))
  BY <1>1 DEF Read
<1>6. [op[p] EXCEPT !.ahead = ahead, !.todo = todo] = Advanced(op[p], ahead, todo, op[p].kept)
  <2> HIDE DEF ahead, todo
  <2> QED
    BY <1>1, <1>4, ListAdvances
<1>7. op' = [op EXCEPT ![p] = Advanced(op[p], ahead, todo, op[p].kept)]
  <2> HIDE DEF ahead, todo
  <2> QED
    BY <1>3, <1>6
<1> HIDE DEF gone
<1> QED
  BY <1>1, <1>5, <1>7

LEMMA ReadOneAdvances ==
  ASSUME TypeOK, NEW p \in Procs, ReadOne(p)
  PROVE  /\ op[p] \in Read /\ Min(op[p].todo) \in op[p].todo
         /\ \/ ~Stored(Min(op[p].todo)) /\ Fail(p)
            \/ /\ UNCHANGED pc
               /\ \E id \in op[p].todo, found \in SUBSET Ids :
                    /\ found \subseteq {id}
                    /\ Stored(id)
                    /\ found = {} <=> ~Matches(id, op[p])
                    /\ op' = [op EXCEPT ![p] = Advanced(op[p], op[p].ahead, op[p].todo \ {id},
                                                        op[p].kept \cup found)]
<1> DEFINE id == Min(op[p].todo)
           found == IF Matches(id, op[p]) THEN {id} ELSE {}
           todo == op[p].todo \ {id}
           kept == op[p].kept \cup found
<1>1. op[p] \in Read
  BY DEF TypeOK, ReadOne, Reading
<1>2. id \in op[p].todo
  BY <1>1, MinIsMember DEF ReadOne, Read
<1>3. CASE Stored(id) /\ UNCHANGED pc
           /\ op' = [op EXCEPT ![p] = [op[p] EXCEPT !.todo = todo, !.kept = kept]]
  <2>1. found \in SUBSET Ids /\ found \subseteq {id} /\ (found = {} <=> ~Matches(id, op[p]))
    BY <1>1, <1>2 DEF Read
  <2>2. todo \in SUBSET Ids
    BY <1>1 DEF Read
  <2>3. op' = [op EXCEPT ![p] = Advanced(op[p], op[p].ahead, todo, kept)]
    <3> HIDE DEF todo, kept
    <3>1. [op[p] EXCEPT !.todo = todo, !.kept = kept] = Advanced(op[p], op[p].ahead, todo, kept)
      BY <1>1, <2>2, ReadAdvances
    <3> QED
      BY <1>3, <3>1
  <2> HIDE DEF id, found
  <2> QED
    BY <1>1, <1>2, <1>3, <2>1, <2>3 DEF id
<1>4. CASE ~Stored(id) /\ Fail(p)
  BY <1>1, <1>2, <1>4
<1> QED
  BY <1>3, <1>4 DEF ReadOne

-----------------------------------------------------------------------------
(* Types *)

LEMMA ReaderTypes ==
  ASSUME TypeOK, NEW p \in Procs, NEW stage \in Reading, op[p] \in Read,
         NEW ahead \in SUBSET Ids, NEW todo \in SUBSET Ids, NEW kept \in SUBSET Ids,
         pc' = [pc EXCEPT ![p] = stage], op' = [op EXCEPT ![p] = Advanced(op[p], ahead, todo, kept)],
         UNCHANGED <<holders, files, temps, clock, acked, outages>>
  PROVE  TypeOK'
<1> DEFINE read == Advanced(op[p], ahead, todo, kept)
<1>1. read \in Read
  BY AdvancedIsRead
<1> HIDE DEF read
<1> QED
  BY <1>1, SMTT(20) DEF read, TypeOK, LockTypeOK, Recording, Reading, Pruning

LEMMA TypesAreKept ==
  ASSUME TypeOK, [Next]_vars PROVE TypeOK'
<1> USE DEF TypeOK, LockTypeOK, TryLock, Unlock, LockIsFree, Holds, Parent, OwnerDies, Record, Read, Prune, Recording,
            Reading, Pruning, Acknowledge
<1>1. CASE Tick
  BY <1>1 DEF Tick
<1>2. ASSUME NEW p \in Procs, NEW id \in Ids, StartRecord(p, id) PROVE TypeOK'
  BY <1>2 DEF StartRecord
<1>3. ASSUME NEW p \in Procs, LockForRecord(p) PROVE TypeOK'
  BY <1>3 DEF LockForRecord
<1>4. ASSUME NEW p \in Procs, FindDuplicate(p) PROVE TypeOK'
  BY <1>4 DEF FindDuplicate, Stored
<1>5. ASSUME NEW p \in Procs, NotThere(p) PROVE TypeOK'
  BY <1>5 DEF NotThere
<1>6. ASSUME NEW p \in Procs, CreateTemp(p) PROVE TypeOK'
  BY <1>6 DEF CreateTemp
<1>7. ASSUME NEW p \in Procs, Rename(p) PROVE TypeOK'
  BY <1>7 DEF Rename
<1>8. ASSUME NEW p \in Procs, SyncDecisions(p) PROVE TypeOK'
  BY <1>8 DEF SyncDecisions
<1>9. ASSUME NEW p \in Procs, NEW least \in MinConfidences, NEW limit \in Limits,
             StartRead(p, least, limit)
      PROVE TypeOK'
  BY <1>9 DEF StartRead, StoredIds
<1>10. ASSUME NEW p \in Procs, ReadOne(p) PROVE TypeOK'
  <2>1. CASE Fail(p)
    BY <1>10, <2>1 DEF ReadOne
  <2>2. CASE ~Fail(p)
    <3> HIDE DEF TypeOK, Read, Reading, Fail
    <3>1. /\ op[p] \in Read /\ pc[p] = "read"
          /\ UNCHANGED <<holders, files, temps, clock, acked, outages>>
      BY <1>10, ReadOneAdvances DEF ReadOne
    <3>2. PICK id \in op[p].todo, found \in SUBSET Ids :
            found \subseteq {id} /\ op' = [op EXCEPT ![p] = Advanced(op[p], op[p].ahead, op[p].todo \ {id}, op[p].kept \cup found)]
      BY <1>10, <2>2, ReadOneAdvances
    <3>3. pc' = [pc EXCEPT ![p] = "read"]
      BY <1>10, <2>2, <3>1, ReadOneAdvances DEF TypeOK
    <3>4. op[p].ahead \in SUBSET Ids /\ op[p].todo \ {id} \in SUBSET Ids
          /\ op[p].kept \cup found \in SUBSET Ids
      BY <3>1 DEF Read
    <3> QED
      BY <3>1, <3>2, <3>3, <3>4, ReaderTypes DEF Reading
  <2> QED
    BY <2>1, <2>2
<1>19. ASSUME NEW p \in Procs, ListOne(p) PROVE TypeOK'
  <2> HIDE DEF TypeOK, Read, Reading
  <2>1. /\ op[p] \in Read /\ pc[p] = "list"
        /\ UNCHANGED <<pc, holders, files, temps, clock, acked, outages>>
    BY <1>19, ListOneAdvances DEF ListOne
  <2>2. PICK id \in op[p].ahead, found \in SUBSET Ids :
          found \subseteq {id} /\ op' = [op EXCEPT ![p] = Advanced(op[p], op[p].ahead \ {id}, op[p].todo \cup found, op[p].kept)]
    BY <1>19, ListOneAdvances
  <2>3. pc' = [pc EXCEPT ![p] = "list"]
    BY <2>1 DEF TypeOK
  <2>4. op[p].ahead \ {id} \in SUBSET Ids /\ op[p].todo \cup found \in SUBSET Ids
        /\ op[p].kept \in SUBSET Ids
    BY <2>1 DEF Read
  <2> QED
    BY <2>1, <2>2, <2>3, <2>4, ReaderTypes DEF Reading
<1>20. ASSUME NEW p \in Procs, EndList(p) PROVE TypeOK'
  <2> HIDE DEF TypeOK, Read, Reading
  <2>1. /\ op[p] \in Read
        /\ op' = [op EXCEPT ![p] = Advanced(op[p], op[p].todo, op[p].todo, op[p].kept)]
    BY <1>20, EndListAdvances
  <2>2. /\ pc' = [pc EXCEPT ![p] = "test"]
        /\ UNCHANGED <<holders, files, temps, clock, acked, outages>>
    BY <1>20 DEF EndList
  <2>3. op[p].todo \in SUBSET Ids /\ op[p].kept \in SUBSET Ids
    BY <2>1 DEF Read
  <2> QED
    BY <2>1, <2>2, <2>3, ReaderTypes DEF Reading
<1>21. ASSUME NEW p \in Procs, TestOne(p) PROVE TypeOK'
  <2> HIDE DEF TypeOK, Read, Reading
  <2>1. /\ op[p] \in Read /\ pc[p] = "test"
        /\ UNCHANGED <<pc, holders, files, temps, clock, acked, outages>>
    BY <1>21, TestOneAdvances DEF TestOne
  <2>2. PICK id \in op[p].ahead, gone \in SUBSET Ids :
          gone \subseteq {id} /\ op' = [op EXCEPT ![p] = Advanced(op[p], op[p].ahead \ {id}, op[p].todo \ gone, op[p].kept)]
    BY <1>21, TestOneAdvances
  <2>3. pc' = [pc EXCEPT ![p] = "test"]
    BY <2>1 DEF TypeOK
  <2>4. op[p].ahead \ {id} \in SUBSET Ids /\ op[p].todo \ gone \in SUBSET Ids
        /\ op[p].kept \in SUBSET Ids
    BY <2>1 DEF Read
  <2> QED
    BY <2>1, <2>2, <2>3, <2>4, ReaderTypes DEF Reading
<1>22. ASSUME NEW p \in Procs, EndTest(p) PROVE TypeOK'
  BY <1>22 DEF EndTest
<1>11. ASSUME NEW p \in Procs, Answer(p) PROVE TypeOK'
  BY <1>11 DEF Answer
<1>12. ASSUME NEW p \in Procs, Forget(p) PROVE TypeOK'
  BY <1>12 DEF Forget
<1>13. ASSUME NEW p \in Procs, NEW dryRun \in BOOLEAN, StartPrune(p, dryRun) PROVE TypeOK'
  <2>1. [now |-> clock, dryRun |-> dryRun, todo |-> StoredIds] \in Prune
    BY DEF StoredIds
  <2> QED
    BY <1>13, <2>1 DEF StartPrune
<1>14. ASSUME NEW p \in Procs, PruneOne(p) PROVE TypeOK'
  <2> DEFINE id == Min(op[p].todo)
             prune == [now |-> op[p].now, dryRun |-> op[p].dryRun, todo |-> op[p].todo \ {id}]
  <2>1. op[p] \in Prune /\ id \in Ids
    BY <1>14, MinIsMember DEF PruneOne
  <2>2. op' = [op EXCEPT ![p] = prune] /\ prune \in Prune
    <3>1. [op[p] EXCEPT !.todo = @ \ {id}] = prune
      BY <2>1, PruneAdvances, Zenon
    <3>2. op' = [op EXCEPT ![p] = [op[p] EXCEPT !.todo = @ \ {id}]]
      BY <1>14 DEF PruneOne
    <3>3. prune \in Prune
      BY <2>1
    <3> QED
      BY <3>1, <3>2, <3>3, Zenon
  <2>3. files' \in [Ids -> Times \cup {None}]
    BY <1>14, <2>1 DEF PruneOne
  <2> QED
    BY <1>14, <2>2, <2>3 DEF PruneOne
<1>15. ASSUME NEW p \in Procs, EndPrune(p) PROVE TypeOK'
  BY <1>15 DEF EndPrune
<1>16. ASSUME NEW p \in Procs, IoError(p) PROVE TypeOK'
  BY <1>16 DEF IoError
<1>17. ASSUME NEW p \in Procs, Crash(p) PROVE TypeOK'
  BY <1>17 DEF Crash
<1>18. CASE UNCHANGED vars
  BY <1>18 DEF vars
<1> HIDE DEF TypeOK, LockTypeOK, TryLock, Unlock, LockIsFree, Holds, Parent, OwnerDies, Record, Read, Prune, Recording,
            Reading, Pruning, Acknowledge
<1> QED
  BY <1>1, <1>2, <1>3, <1>4, <1>5, <1>6, <1>7, <1>8, <1>9, <1>10, <1>11, <1>12, <1>13,
     <1>14, <1>15, <1>16, <1>17, <1>18, <1>19, <1>20, <1>21, <1>22 DEF Next

-----------------------------------------------------------------------------
(* The lock *)

LEMMA LockIsKept ==
  ASSUME Inv, [Next]_vars PROVE Exclusive'
<1> USE DEF Inv, TypeOK, Exclusive, Locked, TryLock, Unlock, LockIsFree, Holds, Parent, OwnerDies
<1>1. CASE Tick
  BY <1>1 DEF Tick
<1>2. ASSUME NEW p \in Procs, NEW id \in Ids, StartRecord(p, id) PROVE Exclusive'
  BY <1>2 DEF StartRecord
<1>3. ASSUME NEW p \in Procs, LockForRecord(p) PROVE Exclusive'
  BY <1>3 DEF LockForRecord
<1>4. ASSUME NEW p \in Procs, FindDuplicate(p) PROVE Exclusive'
  BY <1>4 DEF FindDuplicate
<1>5. ASSUME NEW p \in Procs, NotThere(p) PROVE Exclusive'
  BY <1>5 DEF NotThere
<1>6. ASSUME NEW p \in Procs, CreateTemp(p) PROVE Exclusive'
  BY <1>6 DEF CreateTemp
<1>7. ASSUME NEW p \in Procs, Rename(p) PROVE Exclusive'
  BY <1>7 DEF Rename
<1>8. ASSUME NEW p \in Procs, SyncDecisions(p) PROVE Exclusive'
  BY <1>8 DEF SyncDecisions
<1>9. ASSUME NEW p \in Procs, NEW least \in MinConfidences, NEW limit \in Limits,
             StartRead(p, least, limit)
      PROVE Exclusive'
  BY <1>9 DEF StartRead
<1>10. ASSUME NEW p \in Procs, ReadOne(p) PROVE Exclusive'
  BY <1>10 DEF ReadOne
<1>19. ASSUME NEW p \in Procs, ListOne(p) PROVE Exclusive'
  BY <1>19 DEF ListOne
<1>20. ASSUME NEW p \in Procs, EndList(p) PROVE Exclusive'
  BY <1>20 DEF EndList
<1>21. ASSUME NEW p \in Procs, TestOne(p) PROVE Exclusive'
  BY <1>21 DEF TestOne
<1>22. ASSUME NEW p \in Procs, EndTest(p) PROVE Exclusive'
  BY <1>22 DEF EndTest
<1>11. ASSUME NEW p \in Procs, Answer(p) PROVE Exclusive'
  BY <1>11 DEF Answer
<1>12. ASSUME NEW p \in Procs, Forget(p) PROVE Exclusive'
  BY <1>12 DEF Forget
<1>13. ASSUME NEW p \in Procs, NEW dryRun \in BOOLEAN, StartPrune(p, dryRun) PROVE Exclusive'
  BY <1>13 DEF StartPrune
<1>14. ASSUME NEW p \in Procs, PruneOne(p) PROVE Exclusive'
  BY <1>14 DEF PruneOne
<1>15. ASSUME NEW p \in Procs, EndPrune(p) PROVE Exclusive'
  BY <1>15 DEF EndPrune
<1>16. ASSUME NEW p \in Procs, IoError(p) PROVE Exclusive'
  BY <1>16 DEF IoError
<1>17. ASSUME NEW p \in Procs, Crash(p) PROVE Exclusive'
  BY <1>17 DEF Crash
<1>18. CASE UNCHANGED vars
  BY <1>18 DEF vars
<1> QED
  BY <1>1, <1>2, <1>3, <1>4, <1>5, <1>6, <1>7, <1>8, <1>9, <1>10, <1>11, <1>12, <1>13,
     <1>14, <1>15, <1>16, <1>17, <1>18, <1>19, <1>20, <1>21, <1>22 DEF Next

-----------------------------------------------------------------------------
(* Processes.  A step that leaves the files alone, or is of another process*)
(* that cannot have the lock, keeps what is known of a process.            *)

LEMMA OneIsLocked ==
  ASSUME Exclusive, NEW p \in Procs, NEW q \in Procs, pc[p] \in Locked, pc[q] \in Locked
  PROVE  p = q
<1>1. {Parent(p)} = {Parent(q)}
  BY DEF Exclusive
<1>2. <<p, "parent">> = <<q, "parent">>
  BY <1>1 DEF Parent
<1> QED
  BY <1>2

LEMMA IdleKnowsNothing ==
  ASSUME NEW p \in Procs, pc'[p] \in {"idle", "lock", "check"}
  PROVE  Writing(p)' /\ Reader(p)'
BY DEF Writing, Reader, Reading

LEMMA OthersKnow ==
  ASSUME Inv, NEW q \in Procs, pc'[q] = pc[q], op'[q] = op[q],
         clock' \in Nat, clock <= clock',
         \/ UNCHANGED files
         \/ /\ pc[q] \notin Locked
            /\ \A id \in Ids : files'[id] = files[id] \/ files'[id] # None \/ Expired(id, clock)
  PROVE  Writing(q)' /\ Reader(q)'
<1> USE DEF Inv, TypeOK
<1>1. Writing(q)'
  BY DEF Writing, Locked, Stored, Recording, Record, Pruning, Prune
<1>2. \A id \in Ids : (Expired(id, clock) => Expired(id, clock')) /\ (Lasts(id) => Lasts(id)')
  BY ExpiryIsFinal DEF Lasts, Stored
<1>3. CASE pc[q] \in Reading
  <2>1. op[q].moment \subseteq Ids /\ op[q].todo \subseteq Ids /\ op[q].kept \subseteq Ids
    BY <1>3 DEF Read
  <2>2. \A id : Missed(q, id)' <=> Missed(q, id)
    BY DEF Missed
  <2>3. \A id : Matches(id, op[q])' <=> Matches(id, op[q])
    BY DEF Matches, Expired
  <2>4. /\ \A id \in op[q].moment : Lasts(id)'
        /\ \A id \in op[q].todo : Lasts(id)'
        /\ \A id \in op[q].kept : Lasts(id)' /\ Matches(id, op[q])
    BY <1>2, <1>3, <2>1 DEF Reader
  <2>5. /\ Reader(q)
        /\ op'[q].moment = op[q].moment /\ op'[q].ahead = op[q].ahead
        /\ op'[q].todo = op[q].todo /\ op'[q].kept = op[q].kept
    OBVIOUS
  <2>6. pc'[q] = pc[q] /\ pc[q] # "answered"
    BY <1>3 DEF Reading
  <2> HIDE DEF Inv, TypeOK
  <2>7. /\ At(q, "list") => \A id \in op[q].moment \ op[q].ahead : Missed(q, id) => Expired(id, clock')
        /\ At(q, "test") => \A id \in op[q].moment : Missed(q, id) => Expired(id, clock')
        /\ At(q, "read") =>
             \A id \in op[q].moment : Missed(q, id) /\ Matches(id, op[q]) => Expired(id, clock')
    BY <1>2, <2>1, <2>5 DEF Reader
  <2>8. \A id : Expired(id, clock)' <=> Expired(id, clock')
    BY DEF Expired
  <2> QED
    BY <1>1, <2>2, <2>3, <2>4, <2>5, <2>6, <2>7, <2>8 DEF Reader
<1>4. CASE pc[q] = "answered"
  <2>1. PICK set \in SUBSET Ids : IsAnswer(q, set)
    BY <1>4 DEF Reader
  <2>2. op[q].read.moment \subseteq Ids
    BY <1>4 DEF Read
  <2>3. op'[q] = op[q] /\ pc'[q] = "answered"
    BY <1>4
  <2>4. /\ \A id, r : Matches(id, r)' <=> Matches(id, r)
        /\ \A id : Expired(id, clock)' <=> Expired(id, clock')
    BY DEF Matches, Expired
  <2> HIDE DEF Inv, TypeOK
  <2>5. IsAnswer(q, set)'
    BY <1>2, <2>1, <2>2, <2>3, <2>4 DEF IsAnswer, Lasts
  <2> QED
    BY <1>1, <2>3, <2>5 DEF Reader, Reading
<1>5. CASE pc[q] \notin Reading \cup {"answered"}
  BY <1>1, <1>5 DEF Reader, Reading
<1> QED
  BY <1>1, <1>3, <1>4, <1>5

(* A step of one process that leaves the files alone. *)
LEMMA QuietStep ==
  ASSUME Inv, NEW p \in Procs, UNCHANGED <<files, clock>>,
         pc' = [pc EXCEPT ![p] = pc'[p]], op' = [op EXCEPT ![p] = op'[p]],
         Writing(p)', Reader(p)'
  PROVE  \A q \in Procs : Writing(q)' /\ Reader(q)'
<1>1. ASSUME NEW q \in Procs, q # p PROVE Writing(q)' /\ Reader(q)'
  <2>1. pc'[q] = pc[q] /\ op'[q] = op[q]
    BY <1>1 DEF Inv, TypeOK
  <2>2. clock' \in Nat /\ clock <= clock'
    BY DEF Inv, TypeOK
  <2> QED
    BY <2>1, <2>2, OthersKnow
<1> QED
  BY <1>1

(* What a step of a reader does to its locals. *)
ReaderMoves(p, ahead, todo, kept) ==
  /\ op'[p].ahead = ahead /\ op'[p].todo = todo /\ op'[p].kept = kept
  /\ op'[p].moment = op[p].moment
  /\ \A id : Matches(id, op[p])' <=> Matches(id, op[p])

LEMMA AdvancedMoves ==
  ASSUME TypeOK, NEW p \in Procs, op[p] \in Read, NEW ahead, NEW todo, NEW kept,
         op' = [op EXCEPT ![p] = Advanced(op[p], ahead, todo, kept)]
  PROVE  ReaderMoves(p, ahead, todo, kept)
<1>1. op'[p] = Advanced(op[p], ahead, todo, kept)
  BY DEF TypeOK
<1> QED
  BY <1>1 DEF Advanced, ReaderMoves, Matches, Expired

LEMMA NothingExpires ==
  ASSUME UNCHANGED <<files, clock>>
  PROVE  \A id : (Lasts(id)' <=> Lasts(id)) /\ (Expired(id, clock)' <=> Expired(id, clock))
BY DEF Lasts, Stored, Expired

LEMMA ReaderStep ==
  ASSUME Inv, NEW p \in Procs, UNCHANGED <<files, clock>>, Reader(p)', pc[p] \in Reading,
         NEW stage \in Reading, pc' = [pc EXCEPT ![p] = stage],
         NEW ahead, NEW todo, NEW kept, op' = [op EXCEPT ![p] = Advanced(op[p], ahead, todo, kept)]
  PROVE  \A q \in Procs : Writing(q)' /\ Reader(q)'
<1>1. pc' = [pc EXCEPT ![p] = pc'[p]] /\ op' = [op EXCEPT ![p] = op'[p]] /\ pc'[p] \in Reading
  BY DEF Inv, TypeOK
<1>2. Writing(p)'
  BY <1>1 DEF Writing, Reading
<1> QED
  BY <1>1, <1>2, QuietStep

LEMMA ProcessesKnow ==
  ASSUME Inv, [Next]_vars PROVE \A p \in Procs : Writing(p)' /\ Reader(p)'
<1> USE DEF Inv, TypeOK
<1>1. CASE Tick
  <2>1. UNCHANGED <<pc, op, files>> /\ clock' \in Nat /\ clock <= clock'
    BY <1>1 DEF Tick
  <2> QED
    BY <2>1, OthersKnow
<1>2. ASSUME NEW p \in Procs, NEW id \in Ids, StartRecord(p, id)
      PROVE \A q \in Procs : Writing(q)' /\ Reader(q)'
  <2>1. /\ UNCHANGED <<files, clock>>
        /\ pc' = [pc EXCEPT ![p] = pc'[p]]
        /\ op' = [op EXCEPT ![p] = op'[p]]
        /\ pc'[p] \in {"idle", "lock", "check"}
    BY <1>2 DEF StartRecord
  <2> QED
    BY <2>1, IdleKnowsNothing, QuietStep
<1>3. ASSUME NEW p \in Procs, LockForRecord(p)
      PROVE \A q \in Procs : Writing(q)' /\ Reader(q)'
  <2>1. /\ UNCHANGED <<files, clock>>
        /\ pc' = [pc EXCEPT ![p] = pc'[p]]
        /\ op' = [op EXCEPT ![p] = op'[p]]
        /\ pc'[p] \in {"idle", "lock", "check"}
    BY <1>3 DEF LockForRecord
  <2> QED
    BY <2>1, IdleKnowsNothing, QuietStep
<1>4. ASSUME NEW p \in Procs, FindDuplicate(p)
      PROVE \A q \in Procs : Writing(q)' /\ Reader(q)'
  <2>1. /\ UNCHANGED <<files, clock>>
        /\ pc' = [pc EXCEPT ![p] = pc'[p]]
        /\ op' = [op EXCEPT ![p] = op'[p]]
        /\ pc'[p] \in {"idle", "lock", "check"}
    BY <1>4 DEF FindDuplicate
  <2> QED
    BY <2>1, IdleKnowsNothing, QuietStep
<1>5. ASSUME NEW p \in Procs, NotThere(p)
      PROVE \A q \in Procs : Writing(q)' /\ Reader(q)'
  <2>1. /\ UNCHANGED <<files, clock>>
        /\ pc' = [pc EXCEPT ![p] = pc'[p]]
        /\ op' = [op EXCEPT ![p] = op'[p]]
    BY <1>5 DEF NotThere
  <2>2. Writing(p)' /\ Reader(p)'
    BY <1>5 DEF NotThere, Writing, Reader, Reading, Stored
  <2> QED
    BY <2>1, <2>2, QuietStep
<1>6. ASSUME NEW p \in Procs, CreateTemp(p)
      PROVE \A q \in Procs : Writing(q)' /\ Reader(q)'
  <2>1. /\ UNCHANGED <<files, clock>>
        /\ pc' = [pc EXCEPT ![p] = pc'[p]]
        /\ op' = [op EXCEPT ![p] = op'[p]]
    BY <1>6 DEF CreateTemp
  <2>2. Writing(p)' /\ Reader(p)'
    BY <1>6, SMTT(20) DEF CreateTemp, Writing, Reader, Reading, Stored
  <2> QED
    BY <2>1, <2>2, QuietStep
<1>7. ASSUME NEW p \in Procs, Rename(p)
      PROVE \A q \in Procs : Writing(q)' /\ Reader(q)'
  <2>1. /\ op[p].id \in Ids /\ op[p].now \in Times
        /\ files' = [files EXCEPT ![op[p].id] = op[p].now]
        /\ clock' = clock
        /\ pc' = [pc EXCEPT ![p] = "sync"]
        /\ op' = op
    BY <1>7 DEF Rename, Recording, Record
  <2>2. Writing(p)' /\ Reader(p)'
    BY <2>1 DEF Writing, Reader, Reading
  <2>3. ASSUME NEW q \in Procs, q # p PROVE Writing(q)' /\ Reader(q)'
    <3>1. pc[q] \notin Locked
      BY <1>7, <2>3, OneIsLocked DEF Rename, Locked
    <3>2. pc'[q] = pc[q] /\ op'[q] = op[q]
      BY <2>1, <2>3
    <3>3. \A id \in Ids : files'[id] = files[id] \/ files'[id] # None
      BY <2>1
    <3> QED
      BY <2>1, <3>1, <3>2, <3>3, OthersKnow
  <2> QED
    BY <2>2, <2>3
<1>8. ASSUME NEW p \in Procs, SyncDecisions(p)
      PROVE \A q \in Procs : Writing(q)' /\ Reader(q)'
  <2>1. /\ UNCHANGED <<files, clock>>
        /\ pc' = [pc EXCEPT ![p] = pc'[p]]
        /\ op' = [op EXCEPT ![p] = op'[p]]
        /\ pc'[p] \in {"idle", "lock", "check"}
    BY <1>8 DEF SyncDecisions
  <2> QED
    BY <2>1, IdleKnowsNothing, QuietStep
<1>9. ASSUME NEW p \in Procs, NEW least \in MinConfidences, NEW limit \in Limits, StartRead(p, least, limit)
      PROVE \A q \in Procs : Writing(q)' /\ Reader(q)'
  <2>1. /\ UNCHANGED <<files, clock>>
        /\ pc' = [pc EXCEPT ![p] = pc'[p]]
        /\ op' = [op EXCEPT ![p] = op'[p]]
        /\ pc'[p] = "list"
        /\ op'[p].ahead = Ids /\ op'[p].todo = {} /\ op'[p].kept = {} /\ op'[p].moment = StoredIds
    BY <1>9 DEF StartRead
  <2>2. Writing(p)'
    BY <2>1 DEF Writing
  <2>3. Reader(p)'
    BY <2>1 DEF Reader, StoredIds, Stored, Lasts
  <2> QED
    BY <2>1, <2>2, <2>3, QuietStep
<1>19. ASSUME NEW p \in Procs, ListOne(p)
      PROVE \A q \in Procs : Writing(q)' /\ Reader(q)'
  <2> HIDE DEF Inv, TypeOK
  <2> TypeOK /\ Reader(p)
    BY DEF Inv
  <2>1. /\ op[p] \in Read /\ pc[p] = "list" /\ UNCHANGED <<files, clock>>
        /\ pc' = [pc EXCEPT ![p] = "list"] /\ pc'[p] = "list"
    BY <1>19, ListOneAdvances DEF ListOne, TypeOK
  <2>2. PICK id \in op[p].ahead, found \in SUBSET Ids :
          /\ found \subseteq {id}
          /\ found = {} <=> ~Stored(id)
          /\ op' = [op EXCEPT ![p] = Advanced(op[p], op[p].ahead \ {id}, op[p].todo \cup found, op[p].kept)]
    BY <1>19, ListOneAdvances
  <2>3. ReaderMoves(p, op[p].ahead \ {id}, op[p].todo \cup found, op[p].kept)
    BY <2>1, <2>2, AdvancedMoves
  <2>4. Reader(p)'
    BY <2>1, <2>2, <2>3, NothingExpires DEF Reader, Reading, ReaderMoves, Missed, Lasts
  <2> QED
    BY <2>1, <2>2, <2>4, ReaderStep DEF Reading
<1>20. ASSUME NEW p \in Procs, EndList(p)
      PROVE \A q \in Procs : Writing(q)' /\ Reader(q)'
  <2> HIDE DEF Inv, TypeOK
  <2> TypeOK /\ Reader(p)
    BY DEF Inv
  <2>1. /\ op[p] \in Read /\ pc[p] = "list" /\ op[p].ahead = {} /\ UNCHANGED <<files, clock>>
        /\ pc' = [pc EXCEPT ![p] = "test"] /\ pc'[p] = "test"
        /\ op' = [op EXCEPT ![p] = Advanced(op[p], op[p].todo, op[p].todo, op[p].kept)]
    BY <1>20, EndListAdvances DEF EndList, TypeOK
  <2>2. ReaderMoves(p, op[p].todo, op[p].todo, op[p].kept)
    BY <2>1, AdvancedMoves
  <2>3. Reader(p)'
    BY <2>1, <2>2, NothingExpires DEF Reader, Reading, ReaderMoves, Missed
  <2> QED
    BY <2>1, <2>3, ReaderStep DEF Reading
<1>21. ASSUME NEW p \in Procs, TestOne(p)
      PROVE \A q \in Procs : Writing(q)' /\ Reader(q)'
  <2> HIDE DEF Inv, TypeOK
  <2> TypeOK /\ Reader(p)
    BY DEF Inv
  <2>1. /\ op[p] \in Read /\ pc[p] = "test" /\ UNCHANGED <<files, clock>>
        /\ pc' = [pc EXCEPT ![p] = "test"] /\ pc'[p] = "test"
    BY <1>21, TestOneAdvances DEF TestOne, TypeOK
  <2>2. PICK id \in op[p].ahead, gone \in SUBSET Ids :
          /\ gone \subseteq {id}
          /\ gone = {} <=> Stored(id)
          /\ op' = [op EXCEPT ![p] = Advanced(op[p], op[p].ahead \ {id}, op[p].todo \ gone, op[p].kept)]
    BY <1>21, TestOneAdvances
  <2>3. ReaderMoves(p, op[p].ahead \ {id}, op[p].todo \ gone, op[p].kept)
    BY <2>1, <2>2, AdvancedMoves
  <2>4. Reader(p)'
    BY <2>1, <2>2, <2>3, NothingExpires DEF Reader, Reading, ReaderMoves, Missed, Lasts
  <2> QED
    BY <2>1, <2>2, <2>4, ReaderStep DEF Reading
<1>22. ASSUME NEW p \in Procs, EndTest(p)
      PROVE \A q \in Procs : Writing(q)' /\ Reader(q)'
  <2>1. /\ pc[p] = "test" /\ UNCHANGED <<op, files, clock>>
        /\ pc' = [pc EXCEPT ![p] = "read"]
        /\ op' = [op EXCEPT ![p] = op'[p]]
    BY <1>22 DEF EndTest
  <2>2. pc'[p] = "read" /\ op'[p] = op[p]
    BY <2>1
  <2>3. \A id : Missed(p, id)' <=> Missed(p, id)
    BY <2>1 DEF Missed
  <2>4. \A id : Matches(id, op[p])' <=> Matches(id, op[p])
    BY <2>1 DEF Matches, Expired
  <2>5. Reader(p)
    OBVIOUS
  <2> HIDE DEF Inv, TypeOK
  <2>6. Writing(p)' /\ Reader(p)'
    BY <2>1, <2>2, <2>3, <2>4, <2>5, NothingExpires DEF Writing, Reader, Reading
  <2> QED
    BY <2>1, <2>6, QuietStep
<1>10. ASSUME NEW p \in Procs, ReadOne(p)
      PROVE \A q \in Procs : Writing(q)' /\ Reader(q)'
  <2> HIDE DEF Inv, TypeOK
  <2> TypeOK /\ Reader(p)
    BY DEF Inv
  <2>1. /\ op[p] \in Read /\ pc[p] = "read" /\ UNCHANGED <<files, clock>>
    BY <1>10, ReadOneAdvances DEF ReadOne
  <2>2. CASE Fail(p)
    <3>1. /\ pc' = [pc EXCEPT ![p] = pc'[p]] /\ op' = [op EXCEPT ![p] = op'[p]]
          /\ pc'[p] = "idle"
      BY <2>2 DEF TypeOK
    <3> QED
      BY <2>1, <3>1, IdleKnowsNothing, QuietStep
  <2>3. CASE ~Fail(p)
    <3>1. PICK id \in op[p].todo, found \in SUBSET Ids :
            /\ found \subseteq {id}
            /\ Stored(id)
            /\ found = {} <=> ~Matches(id, op[p])
            /\ op' = [op EXCEPT ![p] = Advanced(op[p], op[p].ahead, op[p].todo \ {id}, op[p].kept \cup found)]
      BY <1>10, <2>3, ReadOneAdvances
    <3>2. pc' = [pc EXCEPT ![p] = "read"] /\ pc'[p] = "read"
      BY <1>10, <2>1, <2>3, ReadOneAdvances DEF TypeOK
    <3>3. ReaderMoves(p, op[p].ahead, op[p].todo \ {id}, op[p].kept \cup found)
      BY <2>1, <3>1, AdvancedMoves
    <3>4. Reader(p)'
      BY <2>1, <3>1, <3>2, <3>3, NothingExpires DEF Reader, Reading, ReaderMoves, Missed, Lasts
    <3> QED
      BY <2>1, <3>1, <3>2, <3>4, ReaderStep DEF Reading
  <2> QED
    BY <2>2, <2>3
<1>11. ASSUME NEW p \in Procs, Answer(p)
      PROVE \A q \in Procs : Writing(q)' /\ Reader(q)'
  <2>1. /\ UNCHANGED <<files, clock>>
        /\ pc' = [pc EXCEPT ![p] = pc'[p]]
        /\ op' = [op EXCEPT ![p] = op'[p]]
        /\ pc[p] = "read" /\ op[p].todo = {} /\ op[p] \in Read
        /\ pc'[p] = "answered"
        /\ op'[p].read = op[p]
        /\ op'[p].answer = Best(op[p].kept, op[p].limit)
        /\ op'[p].truncated <=> Cardinality(op[p].kept) > op[p].limit
    BY <1>11 DEF Answer, Reading
  <2>2. Reader(p)
    OBVIOUS
  <2>3. PICK set : set = op[p].kept
    OBVIOUS
  <2>4. set \in SUBSET Ids
    BY <2>1, <2>3 DEF Read
  <2> HIDE DEF Inv, TypeOK
  <2>5. /\ \A id \in set : Matches(id, op[p]) /\ Lasts(id)
        /\ \A id \in op[p].moment : Matches(id, op[p]) /\ ~Expired(id, clock) => id \in set
    BY <2>1, <2>2, <2>3 DEF Reader, Reading, Missed
  <2>6. IsAnswer(p, set)'
    <3>1. \A id, r : Matches(id, r)' <=> Matches(id, r)
      BY DEF Matches, Expired
    <3> QED
      BY <2>1, <2>3, <2>5, <3>1, NothingExpires DEF IsAnswer, Lasts
  <2>7. Writing(p)' /\ Reader(p)'
    BY <2>1, <2>4, <2>6 DEF Writing, Reader, Reading
  <2> QED
    BY <2>1, <2>7, QuietStep
<1>12. ASSUME NEW p \in Procs, Forget(p)
      PROVE \A q \in Procs : Writing(q)' /\ Reader(q)'
  <2>1. /\ UNCHANGED <<files, clock>>
        /\ pc' = [pc EXCEPT ![p] = pc'[p]]
        /\ op' = [op EXCEPT ![p] = op'[p]]
        /\ pc'[p] \in {"idle", "lock", "check"}
    BY <1>12 DEF Forget
  <2> QED
    BY <2>1, IdleKnowsNothing, QuietStep
<1>13. ASSUME NEW p \in Procs, NEW dryRun \in BOOLEAN, StartPrune(p, dryRun)
      PROVE \A q \in Procs : Writing(q)' /\ Reader(q)'
  <2>1. /\ UNCHANGED <<files, clock>>
        /\ pc' = [pc EXCEPT ![p] = pc'[p]]
        /\ op' = [op EXCEPT ![p] = op'[p]]
        /\ pc'[p] = "prune" /\ op'[p].now = clock
    BY <1>13 DEF StartPrune
  <2>2. Writing(p)' /\ Reader(p)'
    BY <2>1 DEF Writing, Reader, Reading
  <2> QED
    BY <2>1, <2>2, QuietStep
<1>14. ASSUME NEW p \in Procs, PruneOne(p)
      PROVE \A q \in Procs : Writing(q)' /\ Reader(q)'
  <2> DEFINE id == Min(op[p].todo)
             prune == [now |-> op[p].now, dryRun |-> op[p].dryRun, todo |-> op[p].todo \ {id}]
  <2>1. op[p] \in Prune /\ id \in Ids /\ pc[p] = "prune" /\ op[p].now <= clock
    BY <1>14, MinIsMember DEF PruneOne, Pruning, Prune, Writing
  <2>2. UNCHANGED <<pc, clock>> /\ op' = [op EXCEPT ![p] = prune]
    <3>1. [op[p] EXCEPT !.todo = @ \ {id}] = prune
      BY <2>1, PruneAdvances, Zenon
    <3>2. op' = [op EXCEPT ![p] = [op[p] EXCEPT !.todo = @ \ {id}]] /\ UNCHANGED <<pc, clock>>
      BY <1>14 DEF PruneOne
    <3> QED
      BY <3>1, <3>2, Zenon
  <2>3. \A i \in Ids : files'[i] = files[i] \/ Expired(i, clock)
    <3>1. CASE UNCHANGED files
      BY <3>1
    <3>2. CASE Expired(id, op[p].now) /\ files' = [files EXCEPT ![id] = None]
      <4>1. Expired(id, clock)
        BY <2>1, <3>2, ExpiryIsFinal DEF Prune
      <4> QED
        BY <3>2, <4>1
    <3> QED
      BY <1>14, <3>1, <3>2 DEF PruneOne
  <2>4. Writing(p)' /\ Reader(p)'
    BY <2>1, <2>2 DEF Writing, Reader, Reading
  <2>5. ASSUME NEW q \in Procs, q # p PROVE Writing(q)' /\ Reader(q)'
    <3>1. pc[q] \notin Locked
      BY <2>1, <2>5, OneIsLocked DEF Locked
    <3>2. pc'[q] = pc[q] /\ op'[q] = op[q] /\ clock' \in Nat /\ clock <= clock'
      BY <2>2, <2>5
    <3> QED
      BY <2>3, <3>1, <3>2, OthersKnow
  <2> QED
    BY <2>4, <2>5
<1>15. ASSUME NEW p \in Procs, EndPrune(p)
      PROVE \A q \in Procs : Writing(q)' /\ Reader(q)'
  <2>1. /\ UNCHANGED <<files, clock>>
        /\ pc' = [pc EXCEPT ![p] = pc'[p]]
        /\ op' = [op EXCEPT ![p] = op'[p]]
        /\ pc'[p] \in {"idle", "lock", "check"}
    BY <1>15 DEF EndPrune
  <2> QED
    BY <2>1, IdleKnowsNothing, QuietStep
<1>16. ASSUME NEW p \in Procs, IoError(p)
      PROVE \A q \in Procs : Writing(q)' /\ Reader(q)'
  <2>1. /\ UNCHANGED <<files, clock>>
        /\ pc' = [pc EXCEPT ![p] = pc'[p]]
        /\ op' = [op EXCEPT ![p] = op'[p]]
        /\ pc'[p] \in {"idle", "lock", "check"}
    BY <1>16 DEF IoError
  <2> QED
    BY <2>1, IdleKnowsNothing, QuietStep
<1>17. ASSUME NEW p \in Procs, Crash(p)
      PROVE \A q \in Procs : Writing(q)' /\ Reader(q)'
  <2>1. /\ UNCHANGED <<files, clock>>
        /\ pc' = [pc EXCEPT ![p] = pc'[p]]
        /\ op' = [op EXCEPT ![p] = op'[p]]
        /\ pc'[p] \in {"idle", "lock", "check"}
    BY <1>17 DEF Crash
  <2> QED
    BY <2>1, IdleKnowsNothing, QuietStep
<1>18. CASE UNCHANGED vars
  <2>1. UNCHANGED <<pc, op, files, clock>> /\ clock' \in Nat /\ clock <= clock'
    BY <1>18 DEF vars
  <2> QED
    BY <2>1, OthersKnow
<1> QED
  BY <1>1, <1>2, <1>3, <1>4, <1>5, <1>6, <1>7, <1>8, <1>9, <1>10, <1>11, <1>12, <1>13,
     <1>14, <1>15, <1>16, <1>17, <1>18, <1>19, <1>20, <1>21, <1>22 DEF Next

-----------------------------------------------------------------------------
(* What was acknowledged *)

LEMMA RememberedIsKept ==
  ASSUME Inv, [Next]_vars PROVE RememberedUntilExpired'
<1> USE DEF Inv, TypeOK
<1>1. ASSUME NEW i \in Ids, ~Expired(i, clock'), clock' \in Nat, clock <= clock'
      PROVE  ~Expired(i, clock)
  BY <1>1, ExpiryIsFinal
<1>2. CASE UNCHANGED <<files, acked>> /\ clock' \in Nat /\ clock <= clock'
  BY <1>1, <1>2 DEF RememberedUntilExpired
<1>3. ASSUME NEW p \in Procs, FindDuplicate(p) PROVE RememberedUntilExpired'
  BY <1>3 DEF FindDuplicate, Acknowledge, RememberedUntilExpired, Recording, Record, Stored
<1>4. ASSUME NEW p \in Procs, Rename(p) PROVE RememberedUntilExpired'
  BY <1>4 DEF Rename, RememberedUntilExpired, Recording, Record, Stored, Writing
<1>5. ASSUME NEW p \in Procs, SyncDecisions(p) PROVE RememberedUntilExpired'
  BY <1>5 DEF SyncDecisions, Acknowledge, RememberedUntilExpired, Recording, Record, Writing
<1>6. ASSUME NEW p \in Procs, PruneOne(p) PROVE RememberedUntilExpired'
  <2> DEFINE id == Min(op[p].todo)
  <2>1. op[p] \in Prune /\ id \in Ids /\ op[p].now <= clock
    BY <1>6, MinIsMember DEF PruneOne, Pruning, Prune, Writing
  <2>2. UNCHANGED <<acked, clock>>
    BY <1>6 DEF PruneOne
  <2>3. CASE UNCHANGED files
    BY <2>2, <2>3 DEF RememberedUntilExpired
  <2>4. CASE Expired(id, op[p].now) /\ files' = [files EXCEPT ![id] = None]
    <3>1. Expired(id, clock)
      BY <2>1, <2>4, ExpiryIsFinal DEF Prune
    <3> QED
      BY <2>2, <2>4, <3>1 DEF RememberedUntilExpired
  <2> QED
    BY <1>6, <2>3, <2>4 DEF PruneOne
<1>7. ASSUME UNCHANGED <<files, acked, clock>> PROVE RememberedUntilExpired'
  BY <1>2, <1>7
<1>8. ASSUME NEW p \in Procs, NEW id \in Ids, StartRecord(p, id) PROVE RememberedUntilExpired'
  BY <1>7, <1>8 DEF StartRecord
<1>9. ASSUME NEW p \in Procs, LockForRecord(p) PROVE RememberedUntilExpired'
  BY <1>7, <1>9 DEF LockForRecord
<1>10. ASSUME NEW p \in Procs, NotThere(p) PROVE RememberedUntilExpired'
  BY <1>7, <1>10 DEF NotThere
<1>11. ASSUME NEW p \in Procs, CreateTemp(p) PROVE RememberedUntilExpired'
  BY <1>7, <1>11 DEF CreateTemp
<1>12. ASSUME NEW p \in Procs, NEW least \in MinConfidences, NEW limit \in Limits, StartRead(p, least, limit) PROVE RememberedUntilExpired'
  BY <1>7, <1>12 DEF StartRead
<1>13. ASSUME NEW p \in Procs, ReadOne(p) PROVE RememberedUntilExpired'
  BY <1>7, <1>13 DEF ReadOne
<1>14. ASSUME NEW p \in Procs, Answer(p) PROVE RememberedUntilExpired'
  BY <1>7, <1>14 DEF Answer
<1>15. ASSUME NEW p \in Procs, Forget(p) PROVE RememberedUntilExpired'
  BY <1>7, <1>15 DEF Forget
<1>16. ASSUME NEW p \in Procs, NEW dryRun \in BOOLEAN, StartPrune(p, dryRun) PROVE RememberedUntilExpired'
  BY <1>7, <1>16 DEF StartPrune
<1>17. ASSUME NEW p \in Procs, EndPrune(p) PROVE RememberedUntilExpired'
  BY <1>7, <1>17 DEF EndPrune
<1>18. ASSUME NEW p \in Procs, IoError(p) PROVE RememberedUntilExpired'
  BY <1>7, <1>18 DEF IoError
<1>19. ASSUME NEW p \in Procs, Crash(p) PROVE RememberedUntilExpired'
  BY <1>7, <1>19 DEF Crash
<1>20. CASE Tick
  BY <1>2, <1>20 DEF Tick
<1>22. ASSUME NEW p \in Procs, ListOne(p) \/ EndList(p) \/ TestOne(p) \/ EndTest(p) PROVE RememberedUntilExpired'
  BY <1>7, <1>22 DEF ListOne, EndList, TestOne, EndTest
<1>21. CASE UNCHANGED vars
  BY <1>7, <1>21 DEF vars
<1> QED
  BY <1>3, <1>4, <1>5, <1>6, <1>8, <1>9, <1>10, <1>11, <1>12, <1>13,
     <1>14, <1>15, <1>16, <1>17, <1>18, <1>19, <1>20, <1>21, <1>22 DEF Next

-----------------------------------------------------------------------------
(* The theorems *)

LEMMA InitHasInv == Init => Inv
BY DEF Init, LockInit, Inv, TypeOK, LockTypeOK, Exclusive, Locked, Writing, Reader, RememberedUntilExpired,
       Recording, Reading, Pruning

LEMMA NextKeepsInv == Inv /\ [Next]_vars => Inv'
BY TypesAreKept, LockIsKept, ProcessesKnow, RememberedIsKept DEF Inv

LEMMA InvIsInvariant == Spec => []Inv
BY InitHasInv, NextKeepsInv, PTL DEF Spec

(* Variables keep their types, and a call the locals of its stage. *)
THEOREM TypesHold == Spec => []TypeOK
<1>1. Inv => TypeOK
  BY DEF Inv
<1> QED
  BY <1>1, InvIsInvariant, PTL

(* MemoryStore: what record said it had stored is there, as it was first   *)
(* stored, until its deadline.                                             *)
THEOREM DecisionsAreRemembered == Spec => []RememberedUntilExpired
<1>1. Inv => RememberedUntilExpired
  BY DEF Inv
<1> QED
  BY <1>1, InvIsInvariant, PTL

(* MemoryStore::recall: an answer passes over no decision that was there   *)
(* when the call began and is still valid, though the reader has no lock   *)
(* and leaves out files that vanish.                                       *)
THEOREM RecallsMissNothingValid == Spec => []RecallMissesNothingValid
<1>1. Inv => RecallMissesNothingValid
  BY DEF Inv, Reader, IsAnswer, RecallMissesNothingValid
<1> QED
  BY <1>1, InvIsInvariant, PTL

(* MemoryStore::recall: only a decision that expired can vanish under a    *)
(* reader.                                                                 *)
THEOREM RecallsFailOnlyOfExpiry == Spec => ReadsFailOnlyOfExpiry
<1>1. ASSUME Inv, NEW p \in Procs, ReadOne(p), pc'[p] = "idle"
      PROVE  Expired(Min(op[p].todo), clock)
  <2>1. Min(op[p].todo) \in op[p].todo /\ pc[p] = "read"
    BY <1>1, ReadOneAdvances DEF Inv, ReadOne
  <2>2. ~Stored(Min(op[p].todo))
    BY <1>1, <2>1, ReadOneAdvances DEF Inv
  <2> QED
    BY <1>1, <2>1, <2>2 DEF Inv, Reader, Reading, Lasts
<1>2. ASSUME Inv, [Next]_vars, NEW p \in Procs, pc[p] = "read", pc'[p] = "idle", outages' = outages
      PROVE  ReadOne(p)
  <2>1. SUFFICES ASSUME ~ReadOne(p) PROVE FALSE
    OBVIOUS
  <2> USE DEF Inv, TypeOK
  <2>2. ASSUME NEW q \in Procs, NEW id \in Ids, StartRecord(q, id) PROVE FALSE
    BY <1>2, <2>2 DEF StartRecord
  <2>3. ASSUME NEW q \in Procs, LockForRecord(q) PROVE FALSE
    BY <1>2, <2>3 DEF LockForRecord
  <2>4. ASSUME NEW q \in Procs, FindDuplicate(q) PROVE FALSE
    BY <1>2, <2>4 DEF FindDuplicate
  <2>5. ASSUME NEW q \in Procs, NotThere(q) PROVE FALSE
    BY <1>2, <2>5 DEF NotThere
  <2>6. ASSUME NEW q \in Procs, CreateTemp(q) PROVE FALSE
    BY <1>2, <2>6 DEF CreateTemp
  <2>7. ASSUME NEW q \in Procs, Rename(q) PROVE FALSE
    BY <1>2, <2>7 DEF Rename
  <2>8. ASSUME NEW q \in Procs, SyncDecisions(q) PROVE FALSE
    BY <1>2, <2>8 DEF SyncDecisions
  <2>9. ASSUME NEW q \in Procs, NEW least \in MinConfidences, NEW limit \in Limits, StartRead(q, least, limit) PROVE FALSE
    BY <1>2, <2>9 DEF StartRead
  <2>10. ASSUME NEW q \in Procs, Answer(q) PROVE FALSE
    BY <1>2, <2>10 DEF Answer
  <2>11. ASSUME NEW q \in Procs, Forget(q) PROVE FALSE
    BY <1>2, <2>11 DEF Forget
  <2>12. ASSUME NEW q \in Procs, NEW dryRun \in BOOLEAN, StartPrune(q, dryRun) PROVE FALSE
    BY <1>2, <2>12 DEF StartPrune
  <2>13. ASSUME NEW q \in Procs, PruneOne(q) PROVE FALSE
    BY <1>2, <2>13 DEF PruneOne
  <2>14. ASSUME NEW q \in Procs, EndPrune(q) PROVE FALSE
    BY <1>2, <2>14 DEF EndPrune
  <2>15. ASSUME NEW q \in Procs, IoError(q) PROVE FALSE
    BY <1>2, <2>15 DEF IoError
  <2>16. ASSUME NEW q \in Procs, Crash(q) PROVE FALSE
    BY <1>2, <2>16 DEF Crash
  <2>17. ASSUME NEW q \in Procs, ReadOne(q) PROVE FALSE
    BY <1>2, <2>1, <2>17 DEF ReadOne
  <2>18. CASE Tick \/ UNCHANGED vars
    BY <1>2, <2>18 DEF Tick, vars
  <2>19. ASSUME NEW q \in Procs, ListOne(q) \/ EndList(q) \/ TestOne(q) \/ EndTest(q) PROVE FALSE
    BY <1>2, <2>19 DEF ListOne, EndList, TestOne, EndTest
  <2> QED
    BY <1>2, <2>2, <2>3, <2>4, <2>5, <2>6, <2>7, <2>8, <2>9,
       <2>10, <2>11, <2>12, <2>13, <2>14, <2>15, <2>16, <2>17, <2>18, <2>19 DEF Next
<1>3. Inv /\ [Next]_vars =>
        [\A p \in Procs :
           /\ At(p, "read")
           /\ pc'[p] = "idle"
           /\ outages' = outages
           => Expired(Min(op[p].todo), clock)]_vars
  BY <1>1, <1>2
<1> QED
  BY <1>3, InvIsInvariant, PTL DEF Spec, ReadsFailOnlyOfExpiry
=============================================================================
