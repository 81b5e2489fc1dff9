------------------------- MODULE ObservationStoreProofs -------------------------
(***************************************************************************)
(* Proofs about the runtime evidence store for any processes, batches,     *)
(* revisions, graphs and number of failures: what the snapshots count is   *)
(* what the batches on disk say, only a prune forgets, and what is told of *)
(* a graph is of this graph.                                               *)
(***************************************************************************)
EXTENDS RuntimeEvidence, FiniteSetTheorems, FunctionTheorems, WellFoundedInduction, TLAPS

(* One process at a time has the lock, whatever it is doing. *)
LockInv ==
  /\ OneDescription
  /\ \A p \in Procs : pc[p] # "idle" => Holds(p)

FilesInv == IsFiniteSet(files)

(* The files of one revision were resolved against one graph. *)
OneTreeEach(F) == \A f, g \in F : Revision[f.id] = Revision[g.id] => f.tree = g.tree

(* What a process knows at its stage, whatever failed before. *)
Stage(p) ==
  LET id == op[p].id
      seen == op[p].seen
  IN
  /\ pc[p] \in {"check", "write", "rename", "merge"} =>
       /\ seen = snaps[Revision[id]]
       /\ seen # None => seen.tree = op[p].tree
  /\ pc[p] \in {"write", "rename"} =>
       /\ Published(id) = {}
       /\ Own(p, id) = {[id |-> id, pid |-> p, tree |-> op[p].tree, whole |-> pc[p] = "rename"]}
  /\ pc[p] = "merge" =>
       /\ [id |-> id, pid |-> None, tree |-> op[p].tree, whole |-> TRUE] \in files
       /\ ~pruned /\ seen # None => \A t \in Trees : seen.merged[<<id, t>>] = 0
  /\ pc[p] \in Pruning => IsFiniteSet(op[p].kept)
  /\ pc[p] \in {"clear", "rebuild", "republish"} => pruned
  /\ pc[p] = "republish" => OneTreeEach(op[p].kept)

StageInv == \A p \in Procs : Stage(p)

(* The snapshot of a revision counts the files F, each once. *)
CountsAll(r, F) ==
  /\ snaps[r] = None <=> \A f \in F : Revision[f.id] # r
  /\ snaps[r] # None => snaps[r].merged = CountedOnRebuild(F, r)

Whole(F) ==
  /\ \A r \in Revs : CountsAll(r, F)
  /\ \A f \in F : f.pid = None

(* What it knows, too, where nothing failed.  An import adds one file to   *)
(* what is counted, then counts it; a prune takes files away, then counts  *)
(* the rest anew.                                                          *)
Undisturbed(p) ==
  /\ pc[p] \in {"load", "check", "scan"} => Whole(files)
  /\ pc[p] \in {"write", "rename"} => Whole(files \ Own(p, op[p].id))
  /\ pc[p] = "merge" =>
       Whole(files \ {[id |-> op[p].id, pid |-> None, tree |-> op[p].tree, whole |-> TRUE]})
  /\ pc[p] \in {"remove", "clear", "rebuild", "republish"} =>
       /\ files = op[p].kept \cup op[p].doomed
       /\ op[p].kept \cap op[p].doomed = {}
       /\ pc[p] # "remove" => op[p].doomed = {}
       /\ \A f \in files : f.pid = None
       /\ OneTreeEach(op[p].kept)
  /\ pc[p] = "rebuild" => \A r \in Revs : snaps[r] = None
  /\ pc[p] = "republish" =>
       /\ op[p].revs \subseteq {Revision[f.id] : f \in op[p].kept}
       /\ \A r \in Revs \ op[p].revs : CountsAll(r, op[p].kept)

UndisturbedInv ==
  outages = 0 =>
    /\ \A p \in Procs : Undisturbed(p)
    /\ LockIsFree => Whole(files)

IInv ==
  /\ TypeOK
  /\ LockInv
  /\ FilesInv
  /\ StageInv
  /\ CountsOnlyKeptBatches
  /\ OneTreePerSnapshot
  /\ UndisturbedInv

(* The part of TypeOK that is about the data. *)
DataOK ==
  /\ files \subseteq File
  /\ snaps \in [Revs -> Snapshot \cup {None}]
  /\ astray \subseteq Ids
  /\ pruned \in BOOLEAN
  /\ outages \in 0 .. MaxOutages

USE DataAssumption, NoneAssumption, PidAssumption

-----------------------------------------------------------------------------
(* Counting batches *)

(* A rebuild counts each file of its revision. *)
LEMMA CountsAreTyped ==
  ASSUME NEW F, IsFiniteSet(F), NEW r
  PROVE  /\ CountedOnRebuild(F, r) \in [Ids \X Trees -> Nat]
         /\ \A id \in Ids, t \in Trees :
              CountedOnRebuild(F, r)[<<id, t>>] > 0 => \E f \in F : Revision[f.id] = r /\ f.id = id /\ f.tree = t
<1>1. ASSUME NEW k \in Ids \X Trees
      PROVE  Cardinality({f \in F : Revision[f.id] = r /\ f.id = k[1] /\ f.tree = k[2]}) \in Nat
  <2>1. IsFiniteSet({f \in F : Revision[f.id] = r /\ f.id = k[1] /\ f.tree = k[2]})
    BY FS_Subset
  <2> QED
    BY <2>1, FS_CardinalityType
<1>2. ASSUME NEW id \in Ids, NEW t \in Trees, CountedOnRebuild(F, r)[<<id, t>>] > 0
      PROVE  \E f \in F : Revision[f.id] = r /\ f.id = id /\ f.tree = t
  <2> DEFINE S == {f \in F : Revision[f.id] = r /\ f.id = id /\ f.tree = t}
  <2>1. Cardinality(S) > 0
    BY <1>2 DEF CountedOnRebuild
  <2> HIDE DEF S
  <2>2. S # {}
    BY <2>1, FS_EmptySet
  <2> QED
    BY <2>2 DEF S
<1>3. CountedOnRebuild(F, r) \in [Ids \X Trees -> Nat]
  BY <1>1 DEF CountedOnRebuild
<1> QED
  BY <1>2, <1>3

(* Without a file of the revision nothing is counted. *)
LEMMA CountsNothing ==
  ASSUME NEW F, NEW r, \A f \in F : Revision[f.id] # r
  PROVE  CountedOnRebuild(F, r) = [k \in Ids \X Trees |-> 0]
<1>1. ASSUME NEW k \in Ids \X Trees
      PROVE  Cardinality({f \in F : Revision[f.id] = r /\ f.id = k[1] /\ f.tree = k[2]}) = 0
  <2>1. {f \in F : Revision[f.id] = r /\ f.id = k[1] /\ f.tree = k[2]} = {}
    OBVIOUS
  <2> QED
    BY <2>1, FS_EmptySet
<1> QED
  BY <1>1 DEF CountedOnRebuild

(* One more file of the revision counts once more. *)
LEMMA CountsOneMore ==
  ASSUME NEW F, IsFiniteSet(F), NEW f \in File, f \notin F, NEW r
  PROVE  CountedOnRebuild(F \cup {f}, r) =
           IF Revision[f.id] = r
           THEN [CountedOnRebuild(F, r) EXCEPT ![<<f.id, f.tree>>] = @ + 1]
           ELSE CountedOnRebuild(F, r)
<1> DEFINE Of(S, k) == {g \in S : Revision[g.id] = r /\ g.id = k[1] /\ g.tree = k[2]}
<1>1. ASSUME NEW k \in Ids \X Trees
      PROVE  Cardinality(Of(F \cup {f}, k)) =
               IF Revision[f.id] = r /\ k = <<f.id, f.tree>> THEN Cardinality(Of(F, k)) + 1
               ELSE Cardinality(Of(F, k))
  <2>1. IsFiniteSet(Of(F, k)) /\ f \notin Of(F, k)
    BY FS_Subset
  <2>2. CASE Revision[f.id] = r /\ k = <<f.id, f.tree>>
    <3>1. Of(F \cup {f}, k) = Of(F, k) \cup {f}
      BY <2>2
    <3> QED
      BY <3>1, <2>1, <2>2, FS_AddElement
  <2>3. CASE ~(Revision[f.id] = r /\ k = <<f.id, f.tree>>)
    <3>1. ~(Revision[f.id] = r /\ f.id = k[1] /\ f.tree = k[2])
      BY <2>3
    <3>2. Of(F \cup {f}, k) = Of(F, k)
      BY <3>1
    <3> QED
      BY <3>2, <2>3
  <2> QED
    BY <2>2, <2>3
<1>2. CountedOnRebuild(F, r) = [k \in Ids \X Trees |-> Cardinality(Of(F, k))]
  BY DEF CountedOnRebuild
<1>3. CountedOnRebuild(F \cup {f}, r) = [k \in Ids \X Trees |-> Cardinality(Of(F \cup {f}, k))]
  BY DEF CountedOnRebuild
<1>4. <<f.id, f.tree>> \in Ids \X Trees
  BY DEF File
<1>5. CASE Revision[f.id] = r
  <2>1. \A k \in Ids \X Trees :
          Cardinality(Of(F \cup {f}, k)) = IF k = <<f.id, f.tree>> THEN Cardinality(Of(F, k)) + 1
                                           ELSE Cardinality(Of(F, k))
    BY <1>1, <1>5
  <2> HIDE DEF Of
  <2>2. CountedOnRebuild(F \cup {f}, r) = [CountedOnRebuild(F, r) EXCEPT ![<<f.id, f.tree>>] = @ + 1]
    BY <2>1, <1>2, <1>3, <1>4
  <2> QED
    BY <2>2, <1>5
<1>6. CASE Revision[f.id] # r
  <2>1. \A k \in Ids \X Trees : Cardinality(Of(F \cup {f}, k)) = Cardinality(Of(F, k))
    BY <1>1, <1>6
  <2> HIDE DEF Of
  <2>2. CountedOnRebuild(F \cup {f}, r) = CountedOnRebuild(F, r)
    BY <2>1, <1>2, <1>3
  <2> QED
    BY <2>2, <1>6
<1> QED
  BY <1>5, <1>6

-----------------------------------------------------------------------------
(* Who is at work *)

(* A rename changes the pid of a file and nothing else. *)
LEMMA RenamedFile ==
  ASSUME NEW f \in File
  PROVE  [f EXCEPT !.pid = None] = [id |-> f.id, pid |-> None, tree |-> f.tree, whole |-> f.whole]
  BY DEF File

(* While one process works, no other does. *)
LEMMA Alone ==
  ASSUME LockInv, NEW p \in Procs, pc[p] # "idle"
  PROVE  \A q \in Procs : q # p => pc[q] = "idle"
  BY DEF LockInv, OneDescription, Holds, Parent

(* Nobody does while the lock is free. *)
LEMMA NobodyWorks ==
  ASSUME LockInv, LockIsFree
  PROVE  \A q \in Procs : pc[q] = "idle"
  BY DEF LockInv, LockIsFree, Holds

(* A step of one process, while no other works, into a stage of its call. *)
LEMMA EnterKeepsInv ==
  ASSUME IInv, NEW p \in Procs, NEW stage \in Importing \cup Pruning, NEW local,
         \A q \in Procs : q # p => pc[q] = "idle",
         (holders' = holders /\ pc[p] # "idle") \/ holders' = {Parent(p)},
         pc' = [pc EXCEPT ![p] = stage],
         op' = [op EXCEPT ![p] = local],
         stage \in Importing => local \in Import,
         stage \in Pruning => local \in Prune,
         DataOK', FilesInv', Stage(p)', outages' = 0 => Undisturbed(p)',
         CountsOnlyKeptBatches', OneTreePerSnapshot'
  PROVE  IInv'
<1>1. \A q \in Procs : pc'[q] = IF q = p THEN stage ELSE "idle"
  BY DEF IInv, TypeOK
<1>2. stage # "idle"
  BY DEF Importing, Pruning
<1>3. Parent(p) \in holders' /\ \A h, k \in holders' : h[1] = k[1]
  BY DEF IInv, LockInv, OneDescription, Holds
<1>4. LockInv'
  BY <1>1, <1>3 DEF LockInv, OneDescription, Holds
<1>5. TypeOK'
  <2>1. holders' \subseteq Procs \X {"parent", "child"}
    BY DEF IInv, TypeOK, LockTypeOK, Parent
  <2>2. pc' \in [Procs -> Importing \cup Pruning \cup {"idle"}]
    BY DEF IInv, TypeOK
  <2>3. op' \in [Procs -> Import \cup Prune \cup {None}]
    BY DEF IInv, TypeOK
  <2>4. \A q \in Procs : op'[q] = IF q = p THEN local ELSE None
    BY DEF IInv, TypeOK
  <2>5. "idle" \notin Importing \cup Pruning
    BY DEF Importing, Pruning
  <2> QED
    BY <1>1, <1>2, <1>3, <2>1, <2>2, <2>3, <2>4, <2>5 DEF TypeOK, LockTypeOK, DataOK, Holds
<1>6. ASSUME NEW q \in Procs, q # p
      PROVE  Stage(q)' /\ Undisturbed(q)'
  BY <1>1, <1>6 DEF Stage, Undisturbed, Pruning
<1>7. ~LockIsFree'
  BY <1>3 DEF LockIsFree
<1> QED
  BY <1>4, <1>5, <1>6, <1>7 DEF IInv, StageInv, UndisturbedInv

(* A call returns. *)
LEMMA ReturnKeepsInv ==
  ASSUME IInv, NEW p \in Procs, pc[p] # "idle", Return(p),
         DataOK', FilesInv', outages' = 0 => Whole(files)',
         CountsOnlyKeptBatches', OneTreePerSnapshot'
  PROVE  IInv'
<1>1. \A q \in Procs : pc'[q] = "idle" /\ op'[q] = None
  BY Alone DEF IInv, TypeOK, Return, Goto
<1>2. holders' = {}
  BY DEF Return, Unlock
<1>3. /\ pc' \in [Procs -> Importing \cup Pruning \cup {"idle"}]
      /\ op' \in [Procs -> Import \cup Prune \cup {None}]
  BY DEF Return, Goto, IInv, TypeOK
<1>4. "idle" \notin Importing \cup Pruning
  BY DEF Importing, Pruning
<1>5. TypeOK'
  BY <1>1, <1>2, <1>3, <1>4 DEF TypeOK, LockTypeOK, DataOK
<1>6. LockInv'
  BY <1>1, <1>2 DEF LockInv, OneDescription
<1>7. \A q \in Procs : Stage(q)' /\ Undisturbed(q)'
  BY <1>1 DEF Stage, Undisturbed, Pruning
<1> QED
  BY <1>5, <1>6, <1>7 DEF IInv, StageInv, UndisturbedInv

(* The state of a process at work. *)
LEMMA ImportIsTyped ==
  ASSUME IInv, NEW p \in Procs, pc[p] \in Importing
  PROVE  /\ op[p] \in Import
         /\ op[p].id \in Ids /\ op[p].tree \in Trees /\ op[p].seen \in Snapshot \cup {None}
         /\ Revision[op[p].id] \in Revs
         /\ pc[p] # "idle" /\ pc[p] \notin Pruning
         /\ op = [op EXCEPT ![p] = op[p]]
  BY DEF IInv, TypeOK, Import, Importing, Pruning

LEMMA PruneIsTyped ==
  ASSUME IInv, NEW p \in Procs, pc[p] \in Pruning
  PROVE  /\ op[p] \in Prune
         /\ op[p].cutoff \in Cutoffs /\ op[p].doomed \subseteq File /\ op[p].kept \subseteq File
         /\ op[p].revs \subseteq Revs
         /\ pc[p] # "idle" /\ pc[p] \notin Importing
         /\ op = [op EXCEPT ![p] = op[p]]
  BY DEF IInv, TypeOK, Prune, Importing, Pruning

-----------------------------------------------------------------------------
(* Imports *)

(* The data is as it was. *)
LEMMA DataUntouched ==
  ASSUME IInv, UNCHANGED <<files, snaps, pruned, outages>>, astray' \subseteq Ids
  PROVE  DataOK' /\ FilesInv' /\ CountsOnlyKeptBatches' /\ OneTreePerSnapshot'
  BY DEF IInv, TypeOK, DataOK, FilesInv, CountsOnlyKeptBatches, Published, OneTreePerSnapshot, Counted

LEMMA StartImportKeepsInv ==
  ASSUME IInv, NEW p \in Procs, NEW id \in Ids, NEW tree \in Trees, StartImport(p, id, tree)
  PROVE  IInv'
<1> DEFINE local == [id |-> id, tree |-> tree, seen |-> None]
<1>1. \A q \in Procs : pc[q] = "idle"
  BY NobodyWorks DEF StartImport, TryLock, IInv
<1>2. /\ holders' = {Parent(p)}
      /\ pc' = [pc EXCEPT ![p] = "load"]
      /\ op' = [op EXCEPT ![p] = local]
  BY DEF StartImport, TryLock, Goto
<1>3. local \in Import
  BY DEF Import
<1>4. DataOK' /\ FilesInv' /\ CountsOnlyKeptBatches' /\ OneTreePerSnapshot'
  BY DataUntouched DEF StartImport, IInv, TypeOK
<1>5. pc'[p] = "load"
  BY <1>2 DEF IInv, TypeOK
<1>6. Stage(p)'
  BY <1>5 DEF Stage, Pruning
<1>7. outages' = 0 => Undisturbed(p)'
  BY <1>5 DEF StartImport, TryLock, IInv, UndisturbedInv, Undisturbed, Whole, CountsAll
<1> QED
  BY <1>1, <1>2, <1>3, <1>4, <1>6, <1>7, EnterKeepsInv DEF Importing, Pruning

LEMMA LoadExistingKeepsInv ==
  ASSUME IInv, NEW p \in Procs, LoadExisting(p)
  PROVE  IInv'
<1> DEFINE found == snaps[Revision[op[p].id]]
           local == [op[p] EXCEPT !.seen = found]
<1>1. pc[p] = "load" /\ pc[p] \in Importing
  BY DEF LoadExisting, At, Importing
<1>2. /\ op[p] \in Import /\ op[p].id \in Ids /\ op[p].tree \in Trees /\ Revision[op[p].id] \in Revs
      /\ pc[p] # "idle"
  BY <1>1, ImportIsTyped
<1>3. DataOK' /\ FilesInv' /\ CountsOnlyKeptBatches' /\ OneTreePerSnapshot'
  BY DataUntouched DEF LoadExisting, IInv, TypeOK
<1>4. outages = 0 => Whole(files) /\ Whole(files)'
  BY <1>1 DEF LoadExisting, IInv, UndisturbedInv, Undisturbed, Whole, CountsAll
<1>5. CASE found # None /\ found.tree # op[p].tree
  <2>1. Return(p)
    BY <1>5 DEF LoadExisting
  <2> QED
    BY <2>1, <1>2, <1>3, <1>4, ReturnKeepsInv DEF LoadExisting
<1>6. CASE ~(found # None /\ found.tree # op[p].tree)
  <2>1. holders' = holders /\ pc' = [pc EXCEPT ![p] = "check"] /\ op' = [op EXCEPT ![p] = local]
    BY <1>6 DEF LoadExisting, Goto
  <2>2. found \in Snapshot \cup {None}
    BY <1>2 DEF IInv, TypeOK
  <2>3. local \in Import /\ local.id = op[p].id /\ local.tree = op[p].tree /\ local.seen = found
    BY <1>2, <2>2 DEF Import
  <2>4. pc'[p] = "check" /\ op'[p] = local
    BY <2>1 DEF IInv, TypeOK
  <2>5. Stage(p)'
    BY <2>3, <2>4, <1>6 DEF Stage, Pruning, LoadExisting
  <2>6. outages' = 0 => Undisturbed(p)'
    BY <1>4, <2>4 DEF Undisturbed, LoadExisting
  <2>7. \A q \in Procs : q # p => pc[q] = "idle"
    BY <1>2, Alone DEF IInv
  <2> QED
    BY <2>1, <2>3, <2>5, <2>6, <2>7, <1>2, <1>3, EnterKeepsInv DEF Importing, Pruning
<1> QED
  BY <1>5, <1>6

LEMMA FindDuplicateKeepsInv ==
  ASSUME IInv, NEW p \in Procs, FindDuplicate(p)
  PROVE  IInv'
<1>1. pc[p] = "check" /\ pc[p] # "idle"
  BY DEF FindDuplicate, At
<1>3. DataOK' /\ FilesInv' /\ CountsOnlyKeptBatches' /\ OneTreePerSnapshot'
  BY DataUntouched DEF FindDuplicate, IInv, TypeOK
<1>4. outages' = 0 => Whole(files)'
  BY <1>1 DEF FindDuplicate, IInv, UndisturbedInv, Undisturbed, Whole, CountsAll
<1> QED
  BY <1>1, <1>3, <1>4, ReturnKeepsInv DEF FindDuplicate

LEMMA CreateBatchKeepsInv ==
  ASSUME IInv, NEW p \in Procs, CreateBatch(p)
  PROVE  IInv'
<1> DEFINE id == op[p].id
           tree == op[p].tree
           new == [id |-> id, pid |-> p, tree |-> tree, whole |-> FALSE]
<1>1. pc[p] = "check" /\ pc[p] \in Importing
  BY DEF CreateBatch, At, Importing
<1>2. /\ op[p] \in Import /\ id \in Ids /\ tree \in Trees /\ Revision[id] \in Revs
      /\ pc[p] # "idle" /\ op = [op EXCEPT ![p] = op[p]]
  BY <1>1, ImportIsTyped
<1>3. CASE Own(p, id) # {}
  <2>1. Return(p) /\ UNCHANGED <<files, snaps, astray, pruned, outages>>
    BY <1>3 DEF CreateBatch
  <2>2. DataOK' /\ FilesInv' /\ CountsOnlyKeptBatches' /\ OneTreePerSnapshot'
    BY <2>1, DataUntouched DEF IInv, TypeOK
  <2>3. outages' = 0 => Whole(files)'
    BY <1>1, <2>1 DEF IInv, UndisturbedInv, Undisturbed, Whole, CountsAll
  <2> QED
    BY <2>1, <2>2, <2>3, <1>2, ReturnKeepsInv
<1>4. CASE Own(p, id) = {}
  <2>1. /\ files' = files \cup {new}
        /\ pc' = [pc EXCEPT ![p] = "write"]
        /\ UNCHANGED <<holders, op, snaps, astray, pruned, outages>>
        /\ Published(id) = {}
    BY <1>4 DEF CreateBatch, Goto
  <2>2. p # None /\ new \in File /\ new.pid = p /\ new.id = id /\ new.tree = tree
    BY <1>2 DEF File, Pids
  <2>3. new \notin files /\ Own(p, id)' = {new} /\ Published(id)' = {}
    BY <1>4, <2>1, <2>2 DEF Own, Published
  <2>4. DataOK'
    BY <2>1, <2>2 DEF IInv, TypeOK, DataOK
  <2>5. FilesInv'
    BY <2>1, FS_AddElement DEF IInv, FilesInv
  <2>6. CountsOnlyKeptBatches' /\ OneTreePerSnapshot'
    BY <2>1 DEF IInv, CountsOnlyKeptBatches, Published, OneTreePerSnapshot, Counted
  <2>7. pc'[p] = "write"
    BY <2>1 DEF IInv, TypeOK
  <2>8. Stage(p)'
    BY <2>1, <2>3, <2>7, <1>1, <1>2 DEF IInv, StageInv, Stage, Pruning
  <2>9. outages' = 0 => Undisturbed(p)'
    <3>1. files' \ Own(p, id)' = files
      BY <2>1, <2>3
    <3>2. outages = 0 => Whole(files)
      BY <1>1 DEF IInv, UndisturbedInv, Undisturbed
    <3>3. outages' = 0 => Whole(files \ Own(p, id))'
      BY <2>1, <3>1, <3>2 DEF Whole, CountsAll
    <3> QED
      BY <2>1, <2>7, <3>3 DEF Undisturbed
  <2>10. \A q \in Procs : q # p => pc[q] = "idle"
    BY <1>2, Alone DEF IInv
  <2> QED
    BY <2>1, <2>4, <2>5, <2>6, <2>8, <2>9, <2>10, <1>2, EnterKeepsInv DEF Importing, Pruning
<1> QED
  BY <1>3, <1>4

LEMMA WriteBatchKeepsInv ==
  ASSUME IInv, NEW p \in Procs, WriteBatch(p)
  PROVE  IInv'
<1> DEFINE id == op[p].id
           tree == op[p].tree
           old == [id |-> id, pid |-> p, tree |-> tree, whole |-> FALSE]
           new == [id |-> id, pid |-> p, tree |-> tree, whole |-> TRUE]
<1>1. pc[p] = "write" /\ pc[p] \in Importing
  BY DEF WriteBatch, At, Importing
<1>2. /\ op[p] \in Import /\ id \in Ids /\ tree \in Trees /\ Revision[id] \in Revs
      /\ pc[p] # "idle" /\ op = [op EXCEPT ![p] = op[p]]
  BY <1>1, ImportIsTyped
<1>3. Own(p, id) = {old} /\ Published(id) = {}
  BY <1>1 DEF IInv, StageInv, Stage
<1>4. {[f EXCEPT !.whole = TRUE] : f \in Own(p, id)} = {new}
  BY <1>3
<1>5. /\ files' = (files \ {old}) \cup {new}
      /\ pc' = [pc EXCEPT ![p] = "rename"]
      /\ UNCHANGED <<holders, op, snaps, astray, pruned, outages>>
  BY <1>3, <1>4 DEF WriteBatch, Goto
<1>6. p # None /\ new \in File /\ new.pid = p /\ new.id = id /\ new.tree = tree /\ new \notin Own(p, id)
  BY <1>2, <1>3 DEF File, Pids
<1>7. new \notin files /\ Own(p, id)' = {new} /\ Published(id)' = {} /\ \A i : Published(i)' = Published(i)
  BY <1>3, <1>5, <1>6 DEF Own, Published
<1>8. DataOK'
  BY <1>5, <1>6 DEF IInv, TypeOK, DataOK
<1>9. FilesInv'
  <2>1. IsFiniteSet(files \ {old})
    BY FS_Subset DEF IInv, FilesInv
  <2> QED
    BY <2>1, <1>5, FS_AddElement DEF FilesInv
<1>10. CountsOnlyKeptBatches' /\ OneTreePerSnapshot'
  BY <1>5, <1>7 DEF IInv, CountsOnlyKeptBatches, OneTreePerSnapshot, Counted
<1>11. pc'[p] = "rename"
  BY <1>5 DEF IInv, TypeOK
<1>12. Stage(p)'
  BY <1>1, <1>2, <1>5, <1>7, <1>11 DEF IInv, StageInv, Stage, Pruning
<1>13. outages' = 0 => Undisturbed(p)'
  <2>1. files' \ Own(p, id)' = files \ Own(p, id)
    BY <1>3, <1>5, <1>7
  <2>2. outages = 0 => Whole(files \ Own(p, id))
    BY <1>1 DEF IInv, UndisturbedInv, Undisturbed
  <2>3. outages' = 0 => Whole(files \ Own(p, id))'
    BY <1>5, <2>1, <2>2 DEF Whole, CountsAll
  <2> QED
    BY <1>5, <1>11, <2>3 DEF Undisturbed
<1>14. \A q \in Procs : q # p => pc[q] = "idle"
  BY <1>2, Alone DEF IInv
<1> QED
  BY <1>2, <1>5, <1>8, <1>9, <1>10, <1>12, <1>13, <1>14, EnterKeepsInv DEF Importing, Pruning

LEMMA RenameBatchKeepsInv ==
  ASSUME IInv, NEW p \in Procs, RenameBatch(p)
  PROVE  IInv'
<1> DEFINE id == op[p].id
           tree == op[p].tree
           old == [id |-> id, pid |-> p, tree |-> tree, whole |-> TRUE]
           new == [id |-> id, pid |-> None, tree |-> tree, whole |-> TRUE]
<1>1. pc[p] = "rename" /\ pc[p] \in Importing
  BY DEF RenameBatch, At, Importing
<1>2. /\ op[p] \in Import /\ id \in Ids /\ tree \in Trees /\ Revision[id] \in Revs
      /\ op[p].seen \in Snapshot \cup {None}
      /\ pc[p] # "idle" /\ op = [op EXCEPT ![p] = op[p]]
  BY <1>1, ImportIsTyped
<1>3. Own(p, id) = {old} /\ Published(id) = {} /\ op[p].seen = snaps[Revision[id]]
  BY <1>1 DEF IInv, StageInv, Stage
<1>4. {[f EXCEPT !.pid = None] : f \in Own(p, id)} = {new}
  <2>1. old \in File /\ old.id = id /\ old.tree = tree /\ old.whole = TRUE
    BY <1>2 DEF File, Pids
  <2>2. [old EXCEPT !.pid = None] = new
    <3> HIDE DEF old
    <3> QED
      BY <2>1, RenamedFile
  <2> HIDE DEF old, new
  <2> QED
    BY <1>3, <2>2
<1>5. /\ files' = (files \ {old}) \cup {new}
      /\ pc' = [pc EXCEPT ![p] = "merge"]
      /\ UNCHANGED <<holders, op, snaps, astray, pruned, outages>>
  BY <1>3, <1>4 DEF RenameBatch, Goto
<1>6. p # None /\ new \in File /\ new.pid = None /\ new.id = id /\ new.tree = tree /\ new \notin files
  BY <1>2, <1>3 DEF File, Published
<1>7. \A i : Published(i) \subseteq Published(i)'
  BY <1>5, <1>6 DEF Published
<1>8. DataOK'
  BY <1>5, <1>6 DEF IInv, TypeOK, DataOK
<1>9. FilesInv'
  <2>1. IsFiniteSet(files \ {old})
    BY FS_Subset DEF IInv, FilesInv
  <2> QED
    BY <2>1, <1>5, FS_AddElement DEF FilesInv
<1>10. CountsOnlyKeptBatches' /\ OneTreePerSnapshot'
  BY <1>5, <1>7 DEF IInv, CountsOnlyKeptBatches, OneTreePerSnapshot, Counted
<1>11. pc'[p] = "merge"
  BY <1>5 DEF IInv, TypeOK
<1>12. ~pruned /\ op[p].seen # None => \A t \in Trees : op[p].seen.merged[<<id, t>>] = 0
  <2> SUFFICES ASSUME ~pruned, op[p].seen # None, NEW t \in Trees, op[p].seen.merged[<<id, t>>] # 0
               PROVE  FALSE
    OBVIOUS
  <2>1. op[p].seen.merged[<<id, t>>] \in Nat
    BY <1>2 DEF Snapshot
  <2>2. \E f \in Published(id) : f.tree = t
    BY <1>2, <1>3, <2>1 DEF IInv, CountsOnlyKeptBatches
  <2> QED
    BY <1>3, <2>2
<1>13. Stage(p)'
  BY <1>1, <1>2, <1>5, <1>11, <1>12 DEF IInv, StageInv, Stage, Pruning
<1>14. outages' = 0 => Undisturbed(p)'
  <2>1. files' \ {new} = files \ Own(p, id)
    BY <1>3, <1>5, <1>6
  <2>2. outages = 0 => Whole(files \ Own(p, id))
    BY <1>1 DEF IInv, UndisturbedInv, Undisturbed
  <2>3. outages' = 0 => Whole(files \ {[id |-> op[p].id, pid |-> None, tree |-> op[p].tree, whole |-> TRUE]})'
    BY <1>5, <2>1, <2>2 DEF Whole, CountsAll
  <2> QED
    BY <1>5, <1>11, <2>3 DEF Undisturbed
<1>15. \A q \in Procs : q # p => pc[q] = "idle"
  BY <1>2, Alone DEF IInv
<1> QED
  BY <1>2, <1>5, <1>8, <1>9, <1>10, <1>13, <1>14, <1>15, EnterKeepsInv DEF Importing, Pruning

(* The merge counts the batch once more, and nothing else. *)
LEMMA MergeAddsOne ==
  ASSUME IInv, NEW p \in Procs, MergeIntoSnapshot(p)
  PROVE  LET id == op[p].id
             tree == op[p].tree
             base == IF op[p].seen = None THEN EmptySnapshot(tree) ELSE op[p].seen
         IN /\ base \in Snapshot /\ base.tree = tree
            /\ Merged(base, id, tree) \in Snapshot
            /\ Merged(base, id, tree).tree = tree
            /\ Merged(base, id, tree).merged = [base.merged EXCEPT ![<<id, tree>>] = @ + 1]
            /\ op[p].seen = snaps[Revision[id]]
            /\ \A k \in Ids \X Trees : base.merged[k] \in Nat
<1> DEFINE id == op[p].id
           tree == op[p].tree
           base == IF op[p].seen = None THEN EmptySnapshot(tree) ELSE op[p].seen
<1>1. pc[p] = "merge" /\ pc[p] \in Importing
  BY DEF MergeIntoSnapshot, At, Importing
<1>2. id \in Ids /\ tree \in Trees /\ op[p].seen \in Snapshot \cup {None}
  BY <1>1, ImportIsTyped
<1>3. op[p].seen = snaps[Revision[id]] /\ (op[p].seen # None => op[p].seen.tree = tree)
  BY <1>1 DEF IInv, StageInv, Stage
<1>4. base \in Snapshot /\ base.tree = tree
  BY <1>2, <1>3 DEF EmptySnapshot, Snapshot
<1> HIDE DEF base
<1>5. \A k \in Ids \X Trees : base.merged[k] \in Nat
  BY <1>4 DEF Snapshot
<1>6. /\ Merged(base, id, tree) \in Snapshot
      /\ Merged(base, id, tree).tree = tree
      /\ Merged(base, id, tree).merged = [base.merged EXCEPT ![<<id, tree>>] = @ + 1]
  <2> DEFINE counts == [base.merged EXCEPT ![<<id, tree>>] = @ + 1]
  <2>1. base.merged \in [Ids \X Trees -> Nat] /\ base = [tree |-> base.tree, merged |-> base.merged]
    BY <1>4 DEF Snapshot
  <2>2. counts \in [Ids \X Trees -> Nat]
    BY <1>2, <2>1
  <2>3. Merged(base, id, tree) = [base EXCEPT !.merged = counts]
    BY DEF Merged
  <2> HIDE DEF counts
  <2>4. [base EXCEPT !.merged = counts] = [tree |-> base.tree, merged |-> counts]
    BY <2>1
  <2>5. [tree |-> base.tree, merged |-> counts] \in Snapshot
    BY <1>4, <2>2 DEF Snapshot
  <2> QED
    BY <1>4, <2>3, <2>4, <2>5 DEF counts
<1> QED
  BY <1>3, <1>4, <1>5, <1>6 DEF base

LEMMA MergeKeepsInv ==
  ASSUME IInv, NEW p \in Procs, MergeIntoSnapshot(p)
  PROVE  IInv'
<1> DEFINE id == op[p].id
           tree == op[p].tree
           rev == Revision[id]
           seen == op[p].seen
           base == IF seen = None THEN EmptySnapshot(tree) ELSE seen
           new == Merged(base, id, tree)
           file == [id |-> id, pid |-> None, tree |-> tree, whole |-> TRUE]
<1>1. pc[p] = "merge" /\ pc[p] \in Importing
  BY DEF MergeIntoSnapshot, At, Importing
<1>2. id \in Ids /\ tree \in Trees /\ rev \in Revs /\ pc[p] # "idle" /\ seen \in Snapshot \cup {None}
  BY <1>1, ImportIsTyped
<1>3. /\ base \in Snapshot /\ base.tree = tree
      /\ new \in Snapshot /\ new.tree = tree
      /\ new.merged = [base.merged EXCEPT ![<<id, tree>>] = @ + 1]
      /\ seen = snaps[rev]
      /\ \A k \in Ids \X Trees : base.merged[k] \in Nat
  BY MergeAddsOne
<1>4. /\ file \in files
      /\ ~pruned /\ seen # None => \A t \in Trees : seen.merged[<<id, t>>] = 0
  BY <1>1 DEF IInv, StageInv, Stage
<1>5. snaps' = [snaps EXCEPT ![rev] = new] /\ Return(p) /\ UNCHANGED <<files, pruned, outages>>
      /\ astray' \subseteq Ids
  BY <1>2 DEF MergeIntoSnapshot, IInv, TypeOK
<1>6. \A k \in Ids \X Trees :
        /\ new.merged[k] = IF k = <<id, tree>> THEN base.merged[k] + 1 ELSE base.merged[k]
        /\ seen = None => base.merged[k] = 0
  BY <1>2, <1>3 DEF EmptySnapshot, Snapshot
<1>7. seen # None => base = seen
  OBVIOUS
<1>8. \A r \in Revs : snaps'[r] = IF r = rev THEN new ELSE snaps[r]
  BY <1>5 DEF IInv, TypeOK
<1>9. new # None
  BY <1>3
<1>15. CountsOnlyKeptBatches /\ OneTreePerSnapshot
  BY DEF IInv
<1> HIDE DEF new, base, file
<1>10. DataOK'
  BY <1>2, <1>3, <1>5 DEF IInv, TypeOK, DataOK
<1>11. FilesInv'
  BY <1>5 DEF IInv, FilesInv
<1>12. CountsOnlyKeptBatches'
  <2> SUFFICES ASSUME ~pruned, NEW r \in Revs, NEW i \in Ids, NEW t \in Trees,
                      snaps'[r] # None, snaps'[r].merged[<<i, t>>] > 0
               PROVE  /\ Revision[i] = r
                      /\ snaps'[r].merged[<<i, t>>] = 1
                      /\ \E f \in Published(i) : f.tree = t
    BY <1>5 DEF CountsOnlyKeptBatches, Published
  <2>1. CASE r # rev
    BY <2>1, <1>8 DEF IInv, CountsOnlyKeptBatches
  <2>2. CASE r = rev /\ <<i, t>> # <<id, tree>>
    <3>1. base.merged[<<i, t>>] > 0 /\ snaps'[r].merged[<<i, t>>] = base.merged[<<i, t>>]
      BY <2>2, <1>6, <1>8
    <3>2. seen # None /\ base = seen
      BY <3>1, <1>6, <1>7
    <3>3. snaps[r] # None /\ snaps[r].merged[<<i, t>>] > 0 /\ snaps'[r].merged[<<i, t>>] = snaps[r].merged[<<i, t>>]
      BY <2>2, <3>1, <3>2, <1>3
    <3> QED
      BY <3>3, <1>15 DEF CountsOnlyKeptBatches
  <2>3. CASE r = rev /\ <<i, t>> = <<id, tree>>
    <3>1. base.merged[<<id, tree>>] = 0
      BY <1>2, <1>4, <1>6, <1>7
    <3>2. snaps'[r].merged[<<i, t>>] = 1
      BY <2>3, <3>1, <1>2, <1>6, <1>8
    <3> QED
      BY <2>3, <3>2, <1>4 DEF Published, file
  <2> QED
    BY <2>1, <2>2, <2>3
<1>13. OneTreePerSnapshot'
  <2> SUFFICES ASSUME NEW r \in Revs, NEW i \in Ids, NEW t \in Trees,
                      snaps'[r] # None, snaps'[r].merged[<<i, t>>] > 0
               PROVE  t = snaps'[r].tree
    BY DEF OneTreePerSnapshot, Counted
  <2>1. CASE r # rev
    BY <2>1, <1>8 DEF IInv, OneTreePerSnapshot, Counted
  <2>2. CASE r = rev /\ <<i, t>> # <<id, tree>>
    <3>1. base.merged[<<i, t>>] > 0
      BY <2>2, <1>6, <1>8
    <3>2. seen # None /\ base = seen
      BY <3>1, <1>6, <1>7
    <3>3. snaps[r] # None /\ snaps[r].merged[<<i, t>>] > 0 /\ snaps'[r].tree = snaps[r].tree
      BY <2>2, <3>1, <3>2, <1>3, <1>8
    <3> QED
      BY <3>3, <1>15 DEF OneTreePerSnapshot, Counted
  <2>3. CASE r = rev /\ <<i, t>> = <<id, tree>>
    BY <2>3, <1>3, <1>8
  <2> QED
    BY <2>1, <2>2, <2>3
<1>14. outages' = 0 => Whole(files)'
  <2> SUFFICES ASSUME outages = 0
               PROVE  Whole(files)'
    BY <1>5
  <2> DEFINE rest == files \ {file}
  <2>1. Whole(rest)
    BY <1>1 DEF IInv, UndisturbedInv, Undisturbed, file
  <2>2. files = rest \cup {file} /\ file \notin rest /\ IsFiniteSet(rest) /\ file \in File
    BY <1>4, FS_Subset DEF IInv, FilesInv, TypeOK
  <2>3. file.id = id /\ file.tree = tree /\ file.pid = None
    BY DEF file
  <2> HIDE DEF rest
  <2>4. \A r : CountedOnRebuild(files, r) =
                IF rev = r THEN [CountedOnRebuild(rest, r) EXCEPT ![<<id, tree>>] = @ + 1]
                ELSE CountedOnRebuild(rest, r)
    BY <2>2, <2>3, CountsOneMore
  <2>5. ASSUME NEW r \in Revs, r # rev
        PROVE  CountsAll(r, files)'
    <3>1. CountsAll(r, rest) /\ snaps'[r] = snaps[r] /\ files' = files
      BY <2>1, <2>5, <1>5, <1>8 DEF Whole
    <3>2. CountedOnRebuild(files, r) = CountedOnRebuild(rest, r)
      BY <2>4, <2>5
    <3>3. (\A f \in files : Revision[f.id] # r) <=> \A f \in rest : Revision[f.id] # r
      BY <2>2, <2>3, <2>5
    <3> QED
      BY <3>1, <3>2, <3>3 DEF CountsAll
  <2>6. ASSUME NEW r \in Revs, r = rev
        PROVE  CountsAll(r, files)'
    <3>1. base.merged = CountedOnRebuild(rest, rev)
      <4>1. CASE seen = None
        <5>1. \A f \in rest : Revision[f.id] # rev
          BY <4>1, <2>1, <1>2, <1>3 DEF Whole, CountsAll
        <5>2. CountedOnRebuild(rest, rev) = [k \in Ids \X Trees |-> 0]
          BY <5>1, CountsNothing
        <5> QED
          BY <4>1, <5>2 DEF base, EmptySnapshot
      <4>2. CASE seen # None
        BY <4>2, <2>1, <1>2, <1>3, <1>7 DEF Whole, CountsAll
      <4> QED
        BY <4>1, <4>2
    <3>2. new.merged = CountedOnRebuild(files, rev)
      BY <3>1, <2>4, <1>3
    <3>3. snaps'[rev] = new /\ files' = files
      BY <1>2, <1>5, <1>8
    <3>4. file \in files /\ Revision[file.id] = rev
      BY <1>4, <2>3
    <3> QED
      BY <2>6, <3>2, <3>3, <3>4, <1>9 DEF CountsAll
  <2>7. \A r \in Revs : CountsAll(r, files)'
    BY <2>5, <2>6
  <2>8. \A f \in files : f.pid = None
    BY <2>1, <2>2, <2>3 DEF Whole
  <2> QED
    BY <2>7, <2>8, <1>5 DEF Whole
<1> QED
  BY <1>2, <1>5, <1>10, <1>11, <1>12, <1>13, <1>14, ReturnKeepsInv

-----------------------------------------------------------------------------
(* Prunes *)

LEMMA StartPruneKeepsInv ==
  ASSUME IInv, NEW p \in Procs, NEW cutoff \in Cutoffs, StartPrune(p, cutoff)
  PROVE  IInv'
<1> DEFINE local == [cutoff |-> cutoff, doomed |-> {}, kept |-> {}, revs |-> {}]
<1>1. \A q \in Procs : pc[q] = "idle"
  BY NobodyWorks DEF StartPrune, TryLock, IInv
<1>2. /\ holders' = {Parent(p)}
      /\ pc' = [pc EXCEPT ![p] = "scan"]
      /\ op' = [op EXCEPT ![p] = local]
  BY DEF StartPrune, TryLock, Goto
<1>3. local \in Prune
  BY DEF Prune
<1>4. DataOK' /\ FilesInv' /\ CountsOnlyKeptBatches' /\ OneTreePerSnapshot'
  BY DataUntouched DEF StartPrune, IInv, TypeOK
<1>5. pc'[p] = "scan" /\ op'[p] = local
  BY <1>2 DEF IInv, TypeOK
<1>6. Stage(p)'
  BY <1>5, FS_EmptySet DEF Stage, Pruning
<1>7. outages' = 0 => Undisturbed(p)'
  BY <1>5 DEF StartPrune, TryLock, IInv, UndisturbedInv, Undisturbed, Whole, CountsAll
<1> QED
  BY <1>1, <1>2, <1>3, <1>4, <1>6, <1>7, EnterKeepsInv DEF Importing, Pruning

(* Where nothing failed the files of a revision are of the graph of its    *)
(* snapshot.                                                               *)
LEMMA WholeHasOneTreeEach ==
  ASSUME IInv, Whole(files)
  PROVE  OneTreeEach(files)
<1> SUFFICES ASSUME NEW f \in files, NEW g \in files, Revision[f.id] = Revision[g.id]
             PROVE  f.tree = g.tree
  BY DEF OneTreeEach
<1> DEFINE r == Revision[f.id]
<1>1. r \in Revs /\ IsFiniteSet(files) /\ files \subseteq File
  BY DEF IInv, FilesInv, TypeOK, File
<1>2. snaps[r] # None /\ snaps[r].merged = CountedOnRebuild(files, r)
  BY <1>1 DEF Whole, CountsAll
<1>3. ASSUME NEW h \in files, Revision[h.id] = r
      PROVE  h.tree = snaps[r].tree
  <2>1. h.id \in Ids /\ h.tree \in Trees /\ h \in File
    BY <1>1 DEF File
  <2> DEFINE rest == files \ {h}
  <2>2. IsFiniteSet(rest) /\ files = rest \cup {h} /\ h \notin rest
    BY <1>1, FS_Subset
  <2> HIDE DEF rest, r
  <2>3. CountedOnRebuild(files, r) = [CountedOnRebuild(rest, r) EXCEPT ![<<h.id, h.tree>>] = @ + 1]
    BY <1>3, <2>1, <2>2, CountsOneMore
  <2>4. CountedOnRebuild(rest, r) \in [Ids \X Trees -> Nat]
    BY <2>2, CountsAreTyped
  <2>5. CountedOnRebuild(files, r)[<<h.id, h.tree>>] > 0
    BY <2>1, <2>3, <2>4
  <2> QED
    BY <1>1, <1>2, <2>1, <2>5 DEF IInv, OneTreePerSnapshot, Counted
<1> QED
  BY <1>3

(* A scan fills in two fields. *)
LEMMA ScannedPrune ==
  ASSUME NEW o \in Prune, NEW d, NEW k
  PROVE  [o EXCEPT !.doomed = d, !.kept = k] = [cutoff |-> o.cutoff, doomed |-> d, kept |-> k, revs |-> o.revs]
<1>1. PICK c, e, l, R : o = [cutoff |-> c, doomed |-> e, kept |-> l, revs |-> R]
  BY DEF Prune
<1>2. [o EXCEPT !.doomed = d] = [cutoff |-> c, doomed |-> d, kept |-> l, revs |-> R]
  BY <1>1
<1> DEFINE half == [o EXCEPT !.doomed = d]
<1> HIDE DEF half
<1>3. [half EXCEPT !.kept = k] = [cutoff |-> c, doomed |-> d, kept |-> k, revs |-> R]
  <2>1. half = [cutoff |-> c, doomed |-> d, kept |-> l, revs |-> R]
    BY <1>2 DEF half
  <2> QED
    BY <2>1
<1> QED
  BY <1>1, <1>3 DEF half

LEMMA ScanKeepsInv ==
  ASSUME IInv, NEW p \in Procs, Scan(p)
  PROVE  IInv'
<1> DEFINE old == {f \in files : LastSeen[f.id] < op[p].cutoff}
           local == [op[p] EXCEPT !.doomed = old, !.kept = files \ old]
<1>1. pc[p] = "scan" /\ pc[p] \in Pruning
  BY DEF Scan, At, Pruning
<1>2. op[p] \in Prune /\ pc[p] # "idle"
  BY <1>1, PruneIsTyped
<1>3. UNCHANGED <<files, snaps, astray, pruned, outages>>
  BY DEF Scan
<1>4. DataOK' /\ FilesInv' /\ CountsOnlyKeptBatches' /\ OneTreePerSnapshot'
  BY <1>3, DataUntouched DEF IInv, TypeOK
<1>5. outages = 0 => Whole(files) /\ Whole(files)'
  BY <1>1, <1>3 DEF IInv, UndisturbedInv, Undisturbed, Whole, CountsAll
<1>6. CASE Return(p)
  BY <1>2, <1>3, <1>4, <1>5, <1>6, ReturnKeepsInv
<1>7. CASE ~Return(p)
  <2>1. holders' = holders /\ pc' = [pc EXCEPT ![p] = "remove"] /\ op' = [op EXCEPT ![p] = local]
    BY ONLY Scan(p), <1>7 DEF Scan, Goto
  <2>2. old \subseteq File /\ files \ old \subseteq File
    BY DEF IInv, TypeOK
  <2>3. local = [cutoff |-> op[p].cutoff, doomed |-> old, kept |-> files \ old, revs |-> op[p].revs]
    <3> HIDE DEF old
    <3> QED
      BY <1>2, ScannedPrune
  <2>4. local \in Prune
    BY <1>2, <2>2, <2>3 DEF Prune
  <2>5. pc'[p] = "remove" /\ op'[p] = local
    BY <2>1 DEF IInv, TypeOK
  <2>6. op'[p].doomed = old /\ op'[p].kept = files \ old
    BY <2>3, <2>5
  <2>7. IsFiniteSet(files \ old)
    BY FS_Subset DEF IInv, FilesInv
  <2> HIDE DEF old, local
  <2>8. Stage(p)'
    BY <2>5, <2>6, <2>7 DEF Stage, Pruning
  <2>9. outages' = 0 => Undisturbed(p)'
    <3> SUFFICES ASSUME outages = 0
                 PROVE  Undisturbed(p)'
      BY <1>3
    <3>1. OneTreeEach(files) /\ \A f \in files : f.pid = None
      BY <1>5, WholeHasOneTreeEach DEF Whole
    <3>2. OneTreeEach(files \ old)
      BY <3>1 DEF OneTreeEach
    <3>3. files' = op'[p].kept \cup op'[p].doomed /\ op'[p].kept \cap op'[p].doomed = {}
      BY <1>3, <2>6 DEF old
    <3> QED
      BY <1>3, <2>5, <2>6, <3>1, <3>2, <3>3 DEF Undisturbed
  <2>10. \A q \in Procs : q # p => pc[q] = "idle"
    BY <1>2, Alone DEF IInv
  <2>11. "remove" \in Pruning /\ "remove" \notin Importing
    BY DEF Pruning, Importing
  <2> QED
    BY <2>1, <2>4, <2>8, <2>9, <2>10, <2>11, <1>2, <1>4, EnterKeepsInv
<1> QED
  BY <1>6, <1>7

(* A record of a prune with other files to remove. *)
LEMMA DoomedReplaced ==
  ASSUME NEW o \in Prune, NEW d
  PROVE  [o EXCEPT !.doomed = d] = [cutoff |-> o.cutoff, doomed |-> d, kept |-> o.kept, revs |-> o.revs]
  BY DEF Prune

LEMMA RemoveBatchKeepsInv ==
  ASSUME IInv, NEW p \in Procs, RemoveBatch(p)
  PROVE  IInv'
<1>1. pc[p] = "remove" /\ pc[p] \in Pruning
  BY DEF RemoveBatch, At, Pruning
<1>2. op[p] \in Prune /\ pc[p] # "idle" /\ op[p].doomed \subseteq File
  BY <1>1, PruneIsTyped
<1>3. PICK f \in op[p].doomed :
        /\ files' = files \ {f}
        /\ op' = [op EXCEPT ![p].doomed = @ \ {f}]
        /\ IF op[p].doomed = {f} THEN Goto(p, "clear") ELSE UNCHANGED pc
  BY DEF RemoveBatch
<1> DEFINE local == [op[p] EXCEPT !.doomed = @ \ {f}]
           stage == IF op[p].doomed = {f} THEN "clear" ELSE "remove"
<1>4. /\ UNCHANGED <<holders, snaps, astray, outages>>
      /\ pruned' = TRUE
      /\ op' = [op EXCEPT ![p] = local]
      /\ pc' = [pc EXCEPT ![p] = stage]
  <2>1. UNCHANGED <<holders, snaps, astray, outages>> /\ pruned' = TRUE
    BY DEF RemoveBatch
  <2>2. pc' = [pc EXCEPT ![p] = stage]
    BY <1>1, <1>3 DEF Goto, IInv, TypeOK
  <2> QED
    BY <1>3, <2>1, <2>2
<1>5. local = [cutoff |-> op[p].cutoff, doomed |-> op[p].doomed \ {f}, kept |-> op[p].kept, revs |-> op[p].revs]
  BY <1>2, DoomedReplaced
<1>6. local \in Prune
  BY <1>2, <1>5 DEF Prune
<1>7. stage \in Pruning /\ stage \notin Importing
  BY DEF Pruning, Importing
<1>8. /\ pc'[p] = stage /\ op'[p] = local
      /\ op'[p].doomed = op[p].doomed \ {f} /\ op'[p].kept = op[p].kept
  BY <1>4, <1>5 DEF IInv, TypeOK
<1> HIDE DEF local
<1>9. DataOK'
  BY <1>3, <1>4 DEF IInv, TypeOK, DataOK
<1>10. FilesInv'
  BY <1>3, FS_Subset DEF IInv, FilesInv
<1>11. CountsOnlyKeptBatches' /\ OneTreePerSnapshot'
  BY <1>4 DEF IInv, CountsOnlyKeptBatches, OneTreePerSnapshot, Counted
<1>12. Stage(p)'
  <2>1. IsFiniteSet(op[p].kept)
    BY <1>1 DEF IInv, StageInv, Stage
  <2>2. pc'[p] \in {"clear", "remove"} /\ IsFiniteSet(op'[p].kept)
    BY <1>8, <2>1
  <2> QED
    BY <1>4, <2>2 DEF Stage
<1>13. outages' = 0 => Undisturbed(p)'
  <2> SUFFICES ASSUME outages = 0
               PROVE  Undisturbed(p)'
    BY <1>4
  <2>1. /\ files = op[p].kept \cup op[p].doomed
        /\ op[p].kept \cap op[p].doomed = {}
        /\ \A g \in files : g.pid = None
        /\ OneTreeEach(op[p].kept)
    BY <1>1 DEF IInv, UndisturbedInv, Undisturbed
  <2>2. /\ files' = op'[p].kept \cup op'[p].doomed
        /\ op'[p].kept \cap op'[p].doomed = {}
        /\ pc'[p] # "remove" => op'[p].doomed = {}
        /\ \A g \in files' : g.pid = None
        /\ OneTreeEach(op'[p].kept)
    BY <1>3, <1>8, <2>1
  <2> QED
    BY <1>8, <2>2 DEF Undisturbed
<1>14. \A q \in Procs : q # p => pc[q] = "idle"
  BY <1>2, Alone DEF IInv
<1> QED
  BY <1>2, <1>4, <1>6, <1>7, <1>9, <1>10, <1>11, <1>12, <1>13, <1>14, EnterKeepsInv

LEMMA ClearSnapshotsKeepsInv ==
  ASSUME IInv, NEW p \in Procs, ClearSnapshots(p)
  PROVE  IInv'
<1> DEFINE stage == pc'[p]
<1>1. pc[p] = "clear" /\ pc[p] \in Pruning
  BY DEF ClearSnapshots, At, Pruning
<1>2. op[p] \in Prune /\ pc[p] # "idle" /\ op = [op EXCEPT ![p] = op[p]]
  BY <1>1, PruneIsTyped
<1>3. /\ UNCHANGED <<holders, op, files, astray, pruned, outages>>
      /\ \A r \in Revs : snaps'[r] \in {snaps[r], None}
      /\ snaps' \in [Revs -> Snapshot \cup {None}]
  BY DEF ClearSnapshots, IInv, TypeOK
<1>4. /\ stage \in {"clear", "rebuild"}
      /\ pc' = [pc EXCEPT ![p] = stage]
      /\ stage = "rebuild" => \A r \in Revs : snaps'[r] = None
  BY <1>1 DEF ClearSnapshots, Goto, IInv, TypeOK
<1>5. stage \in Pruning /\ stage \notin Importing
  BY <1>4 DEF Pruning, Importing
<1>6. DataOK' /\ FilesInv'
  BY <1>3 DEF IInv, TypeOK, DataOK, FilesInv
<1>7. pruned
  BY <1>1 DEF IInv, StageInv, Stage
<1>8. CountsOnlyKeptBatches'
  BY <1>3, <1>7 DEF CountsOnlyKeptBatches
<1>9. OneTreePerSnapshot'
  BY <1>3 DEF IInv, OneTreePerSnapshot, Counted
<1>10. Stage(p)'
  BY <1>1, <1>3, <1>4, <1>7 DEF IInv, StageInv, Stage, Pruning
<1>11. outages' = 0 => Undisturbed(p)'
  BY <1>1, <1>3, <1>4 DEF IInv, UndisturbedInv, Undisturbed
<1>12. \A q \in Procs : q # p => pc[q] = "idle"
  BY <1>2, Alone DEF IInv
<1>13. op' = [op EXCEPT ![p] = op[p]]
  BY <1>2, <1>3
<1> QED
  BY <1>2, <1>3, <1>4, <1>5, <1>6, <1>8, <1>9, <1>10, <1>11, <1>12, <1>13, EnterKeepsInv

LEMMA RebuildKeepsInv ==
  ASSUME IInv, NEW p \in Procs, Rebuild(p)
  PROVE  IInv'
<1> DEFINE kept == op[p].kept
           local == [op[p] EXCEPT !.revs = {Revision[f.id] : f \in kept}]
<1>1. pc[p] = "rebuild" /\ pc[p] \in Pruning
  BY DEF Rebuild, At, Pruning
<1>2. op[p] \in Prune /\ pc[p] # "idle" /\ kept \subseteq File
  BY <1>1, PruneIsTyped
<1>3. UNCHANGED <<files, snaps, pruned, outages>> /\ astray' \subseteq Ids
  BY DEF Rebuild, Spoilt, IInv, TypeOK
<1>4. DataOK' /\ FilesInv' /\ CountsOnlyKeptBatches' /\ OneTreePerSnapshot'
  BY <1>3, DataUntouched DEF IInv, TypeOK
<1>5. pruned /\ IsFiniteSet(kept)
  BY <1>1 DEF IInv, StageInv, Stage
<1>6. outages = 0 => /\ files = kept \cup op[p].doomed
                     /\ op[p].doomed = {}
                     /\ \A f \in files : f.pid = None
                     /\ OneTreeEach(kept)
                     /\ \A r \in Revs : snaps[r] = None
  BY <1>1 DEF IInv, UndisturbedInv, Undisturbed
<1>7. CASE ~OneTreeEach(kept)
  <2>1. Return(p)
    BY <1>7 DEF Rebuild, OneTreeEach
  <2>2. outages' # 0
    BY <1>3, <1>6, <1>7
  <2> QED
    BY <1>2, <1>4, <2>1, <2>2, ReturnKeepsInv
<1>8. CASE OneTreeEach(kept)
  <2>1. holders' = holders /\ pc' = [pc EXCEPT ![p] = "republish"] /\ op' = [op EXCEPT ![p] = local]
    BY <1>8 DEF Rebuild, OneTreeEach, Goto
  <2>2. local = [cutoff |-> op[p].cutoff, doomed |-> op[p].doomed, kept |-> kept,
                 revs |-> {Revision[f.id] : f \in kept}]
    BY <1>2 DEF Prune
  <2>3. {Revision[f.id] : f \in kept} \subseteq Revs
    BY <1>2 DEF File
  <2>4. local \in Prune
    BY <1>2, <2>2, <2>3 DEF Prune
  <2>5. pc'[p] = "republish" /\ op'[p] = local
    BY <2>1 DEF IInv, TypeOK
  <2>6. op'[p].kept = kept /\ op'[p].doomed = op[p].doomed /\ op'[p].revs = {Revision[f.id] : f \in kept}
    BY <2>2, <2>5
  <2> HIDE DEF local
  <2>7. Stage(p)'
    BY <1>3, <1>5, <1>8, <2>5, <2>6 DEF Stage, Pruning
  <2>8. outages' = 0 => Undisturbed(p)'
    <3> SUFFICES ASSUME outages = 0
                 PROVE  Undisturbed(p)'
      BY <1>3
    <3>1. ASSUME NEW r \in Revs \ op'[p].revs
          PROVE  CountsAll(r, op[p].kept)'
      BY <1>3, <1>6, <2>6 DEF CountsAll
    <3>2. /\ files' = op'[p].kept \cup op'[p].doomed
          /\ op'[p].doomed = {}
          /\ \A g \in files' : g.pid = None
          /\ OneTreeEach(op'[p].kept)
      BY <1>3, <1>6, <1>8, <2>6
    <3> QED
      BY <2>5, <2>6, <3>1, <3>2 DEF Undisturbed
  <2>9. \A q \in Procs : q # p => pc[q] = "idle"
    BY <1>2, Alone DEF IInv
  <2>10. "republish" \in Pruning /\ "republish" \notin Importing
    BY DEF Pruning, Importing
  <2> QED
    BY <2>1, <2>4, <2>7, <2>8, <2>9, <2>10, <1>2, <1>4, EnterKeepsInv
<1> QED
  BY <1>7, <1>8

LEMMA RepublishKeepsInv ==
  ASSUME IInv, NEW p \in Procs, Republish(p)
  PROVE  IInv'
<1> DEFINE kept == op[p].kept
<1>1. pc[p] = "republish" /\ pc[p] \in Pruning
  BY DEF Republish, At, Pruning
<1>2. /\ op[p] \in Prune /\ pc[p] # "idle" /\ kept \subseteq File /\ op[p].revs \subseteq Revs
      /\ pc[p] \notin Importing
  BY <1>1, PruneIsTyped
<1>3. pruned /\ IsFiniteSet(kept) /\ OneTreeEach(kept)
  BY <1>1 DEF IInv, StageInv, Stage
<1>4. outages = 0 => /\ files = kept
                     /\ op[p].doomed = {}
                     /\ \A f \in files : f.pid = None
                     /\ op[p].revs \subseteq {Revision[f.id] : f \in kept}
                     /\ \A r \in Revs \ op[p].revs : CountsAll(r, kept)
  <2>1. outages = 0 => Undisturbed(p)
    BY DEF IInv, UndisturbedInv
  <2>2. outages = 0 => /\ files = kept \cup op[p].doomed
                       /\ op[p].doomed = {}
                       /\ \A f \in files : f.pid = None
    BY <1>1, <2>1 DEF Undisturbed
  <2>3. outages = 0 => /\ op[p].revs \subseteq {Revision[f.id] : f \in kept}
                       /\ \A r \in Revs \ op[p].revs : CountsAll(r, kept)
    BY <1>1, <2>1 DEF Undisturbed
  <2> HIDE DEF kept
  <2> QED
    BY <2>2, <2>3
<1>5. UNCHANGED <<files, pruned, outages>> /\ astray' \subseteq Ids
  BY DEF Republish, IInv, TypeOK, File
<1>6. CASE op[p].revs = {} /\ Return(p) /\ UNCHANGED snaps
  <2>1. DataOK' /\ FilesInv' /\ CountsOnlyKeptBatches' /\ OneTreePerSnapshot'
    BY <1>5, <1>6, DataUntouched DEF IInv, TypeOK
  <2>2. outages' = 0 => Whole(files)'
    BY <1>4, <1>5, <1>6 DEF Whole, CountsAll
  <2> QED
    BY <1>2, <1>6, <2>1, <2>2, ReturnKeepsInv
<1>7. ASSUME NEW r \in op[p].revs, NEW f \in kept, Revision[f.id] = r,
             snaps' = [snaps EXCEPT ![r] = [tree |-> f.tree, merged |-> CountedOnRebuild(kept, r)]],
             op' = [op EXCEPT ![p].revs = @ \ {r}],
             UNCHANGED <<holders, pc>>
      PROVE  IInv'
  <2> DEFINE new == [tree |-> f.tree, merged |-> CountedOnRebuild(kept, r)]
             local == [op[p] EXCEPT !.revs = @ \ {r}]
  <2>1. local = [cutoff |-> op[p].cutoff, doomed |-> op[p].doomed, kept |-> kept, revs |-> op[p].revs \ {r}]
    BY <1>2, SMTT(20) DEF Prune
  <2>2. local \in Prune
    BY <1>2, <2>1 DEF Prune
  <2>3. op' = [op EXCEPT ![p] = local] /\ pc' = [pc EXCEPT ![p] = "republish"]
    BY <1>1, <1>7 DEF IInv, TypeOK
  <2>4. pc'[p] = "republish" /\ op'[p].kept = kept /\ op'[p].doomed = op[p].doomed /\ op'[p].revs = op[p].revs \ {r}
    BY <1>1, <1>7, <2>1, <2>3 DEF IInv, TypeOK
  <2>5. new \in Snapshot /\ new.tree = f.tree /\ new.merged = CountedOnRebuild(kept, r) /\ new # None
    <3>1. CountedOnRebuild(kept, r) \in [Ids \X Trees -> Nat]
      BY <1>3, CountsAreTyped
    <3>2. f.tree \in Trees
      BY <1>2 DEF File
    <3>3. new \in Snapshot
      BY <3>1, <3>2 DEF Snapshot
    <3>4. new # None
      BY <3>3
    <3> QED
      BY <3>3, <3>4
  <2>6. \A x \in Revs : snaps'[x] = IF x = r THEN new ELSE snaps[x]
    BY <1>7 DEF IInv, TypeOK
  <2> HIDE DEF new, local
  <2>7. DataOK'
    BY <1>2, <1>5, <1>7, <2>5 DEF IInv, TypeOK, DataOK, new
  <2>8. FilesInv' /\ CountsOnlyKeptBatches'
    BY <1>3, <1>5 DEF IInv, FilesInv, CountsOnlyKeptBatches
  <2>9. OneTreePerSnapshot'
    <3> SUFFICES ASSUME NEW x \in Revs, NEW i \in Ids, NEW t \in Trees,
                        snaps'[x] # None, snaps'[x].merged[<<i, t>>] > 0
                 PROVE  t = snaps'[x].tree
      BY DEF OneTreePerSnapshot, Counted
    <3>1. CASE x # r
      BY <3>1, <2>6 DEF IInv, OneTreePerSnapshot, Counted
    <3>2. CASE x = r
      <4>1. PICK g \in kept : Revision[g.id] = r /\ g.id = i /\ g.tree = t
        BY <3>2, <1>3, <2>5, <2>6, CountsAreTyped
      <4> QED
        BY <3>2, <4>1, <1>3, <1>7, <2>5, <2>6 DEF OneTreeEach
    <3> QED
      BY <3>1, <3>2
  <2>10. Stage(p)'
    BY <1>3, <1>5, <2>4 DEF Stage, Pruning
  <2>11. outages' = 0 => Undisturbed(p)'
    <3> SUFFICES ASSUME outages = 0
                 PROVE  Undisturbed(p)'
      BY <1>5
    <3>1. ASSUME NEW x \in Revs \ op'[p].revs
          PROVE  CountsAll(x, op[p].kept)'
      <4>1. op'[p].kept = kept
        BY <2>4
      <4>2. CASE x # r
        <5>1. CountsAll(x, kept) /\ snaps'[x] = snaps[x]
          BY <4>2, <1>4, <2>4, <2>6
        <5> QED
          BY <4>1, <5>1 DEF CountsAll
      <4>3. CASE x = r
        BY <4>1, <4>3, <1>7, <2>5, <2>6 DEF CountsAll
      <4> QED
        BY <4>2, <4>3
    <3>2. op'[p].revs \subseteq {Revision[g.id] : g \in op'[p].kept}
      BY <1>4, <2>4
    <3>3. /\ files' = op'[p].kept \cup op'[p].doomed
          /\ op'[p].kept \cap op'[p].doomed = {}
          /\ op'[p].doomed = {}
          /\ \A g \in files' : g.pid = None
          /\ OneTreeEach(op'[p].kept)
      BY <1>3, <1>4, <1>5, <2>4
    <3> QED
      BY <2>4, <3>1, <3>2, <3>3 DEF Undisturbed
  <2>12. \A q \in Procs : q # p => pc[q] = "idle"
    BY <1>2, Alone DEF IInv
  <2>13. "republish" \in Pruning /\ "republish" \notin Importing
    BY DEF Pruning, Importing
  <2> QED
    BY <2>2, <2>3, <2>7, <2>8, <2>9, <2>10, <2>11, <2>12, <2>13, <1>2, <1>7, EnterKeepsInv
<1> QED
  BY <1>6, <1>7 DEF Republish

-----------------------------------------------------------------------------
(* Failures *)

LEMMA IoErrorKeepsInv ==
  ASSUME IInv, NEW p \in Procs, IoError(p)
  PROVE  IInv'
<1>1. /\ pc[p] # "idle" /\ Return(p) /\ outages' = outages + 1 /\ outages < MaxOutages
      /\ UNCHANGED <<files, snaps, pruned>> /\ astray' \subseteq Ids
  BY DEF IoError, Spoilt, IInv, TypeOK
<1>2. outages' # 0 /\ outages' \in 0 .. MaxOutages
  BY <1>1 DEF IInv, TypeOK
<1>3. DataOK' /\ FilesInv' /\ CountsOnlyKeptBatches' /\ OneTreePerSnapshot'
  BY <1>1, <1>2 DEF IInv, TypeOK, DataOK, FilesInv, CountsOnlyKeptBatches, Published, OneTreePerSnapshot, Counted
<1> QED
  BY <1>1, <1>2, <1>3, ReturnKeepsInv

(* A crash renames the temporary files of one process and drops its lock;  *)
(* the process at work, if it is another, is not disturbed.                *)
LEMMA CrashKeepsInv ==
  ASSUME IInv, NEW p \in Procs, Crash(p)
  PROVE  IInv'
<1> DEFINE moved(f) == IF f.pid = p THEN [f EXCEPT !.pid = outages + 1] ELSE f
<1>1. /\ outages < MaxOutages /\ outages' = outages + 1
      /\ holders' = holders \ {Parent(p)}
      /\ files' = {moved(f) : f \in files}
      /\ pc' = [pc EXCEPT ![p] = "idle"]
      /\ op' = [op EXCEPT ![p] = None]
      /\ UNCHANGED <<snaps, pruned>> /\ astray' \subseteq Ids
  BY DEF Crash, OwnerDies, Goto, Spoilt, IInv, TypeOK
<1>2. outages' # 0 /\ outages' \in 0 .. MaxOutages /\ outages + 1 \in Pids /\ outages + 1 # None /\ outages + 1 \notin Procs
  BY <1>1 DEF IInv, TypeOK, Pids
<1>3. p # None
  OBVIOUS
<1>4. ASSUME NEW f \in files
      PROVE  /\ moved(f) \in File
             /\ moved(f).id = f.id /\ moved(f).tree = f.tree /\ moved(f).whole = f.whole
             /\ f.pid # p => moved(f) = f
             /\ f.pid = p => moved(f).pid = outages + 1
  <2>1. f \in File
    BY DEF IInv, TypeOK
  <2> QED
    BY <1>2, <2>1 DEF File
<1>5. files' \subseteq File /\ IsFiniteSet(files')
  <2>1. files' \subseteq File
    BY <1>1, <1>4
  <2> HIDE DEF moved
  <2>2. [f \in files |-> moved(f)] \in Surjection(files, {moved(f) : f \in files})
    BY DEF Surjection
  <2>3. IsFiniteSet({moved(f) : f \in files})
    BY <2>2, FS_Surjection DEF IInv, FilesInv
  <2> QED
    BY <1>1, <2>1, <2>3
<1> HIDE DEF moved
<1>6. \A i : Published(i)' = Published(i)
  BY <1>1, <1>2, <1>3, <1>4 DEF Published
<1>7. ASSUME NEW q \in Procs, q # p, NEW i
      PROVE  Own(q, i)' = Own(q, i)
  BY <1>1, <1>2, <1>4, <1>7 DEF Own
<1>8. \A q \in Procs : /\ pc'[q] = IF q = p THEN "idle" ELSE pc[q]
                       /\ op'[q] = IF q = p THEN None ELSE op[q]
  <2>1. pc \in [Procs -> Importing \cup Pruning \cup {"idle"}] /\ op \in [Procs -> Import \cup Prune \cup {None}]
    BY DEF IInv, TypeOK
  <2> QED
    BY <1>1, <2>1
<1>9. /\ LockInv'
      /\ \A q \in Procs : pc'[q] # "idle" => Holds(q)'
  BY <1>1, <1>8 DEF IInv, LockInv, OneDescription, Holds, Parent
<1>10. TypeOK'
  <2>1. /\ pc' \in [Procs -> Importing \cup Pruning \cup {"idle"}]
        /\ op' \in [Procs -> Import \cup Prune \cup {None}]
        /\ "idle" \notin Importing \cup Pruning
    BY <1>1 DEF IInv, TypeOK, Importing, Pruning
  <2>2. holders' \subseteq Procs \X {"parent", "child"}
    BY <1>1 DEF IInv, TypeOK, LockTypeOK
  <2>3. \A q \in Procs : /\ pc'[q] = "idle" => op'[q] = None
                         /\ pc'[q] \in Importing => op'[q] \in Import
                         /\ pc'[q] \in Pruning => op'[q] \in Prune
    BY <1>8, <2>1 DEF IInv, TypeOK
  <2>4. snaps' \in [Revs -> Snapshot \cup {None}] /\ astray' \subseteq Ids /\ pruned' \in BOOLEAN
    BY <1>1 DEF IInv, TypeOK
  <2>5. files' \subseteq File /\ outages' \in 0 .. MaxOutages
    BY <1>2, <1>5
  <2> QED
    BY <1>9, <2>1, <2>2, <2>3, <2>4, <2>5 DEF TypeOK, LockTypeOK
<1>11. CountsOnlyKeptBatches' /\ OneTreePerSnapshot'
  BY <1>1, <1>6 DEF IInv, CountsOnlyKeptBatches, OneTreePerSnapshot, Counted
<1>12. ASSUME NEW q \in Procs
       PROVE  Stage(q)'
  <2>1. CASE q = p
    BY <1>8, <2>1 DEF Stage, Pruning
  <2>2. CASE q # p
    <3>1. pc'[q] = pc[q] /\ op'[q] = op[q]
      BY <1>8, <2>2
    <3>2. Own(q, op[q].id)' = Own(q, op[q].id) /\ Published(op[q].id)' = Published(op[q].id)
      BY <1>6, <1>7, <2>2, <3>1
    <3>3. ASSUME NEW f \in files, f.pid = None
          PROVE  f \in files'
      BY <1>1, <1>3, <1>4, <3>3
    <3>4. Stage(q)
      BY DEF IInv, StageInv
    <3> QED
      BY <1>1, <3>1, <3>2, <3>3, <3>4 DEF Stage
  <2> QED
    BY <2>1, <2>2
<1> QED
  BY <1>2, <1>5, <1>9, <1>10, <1>11, <1>12 DEF IInv, FilesInv, StageInv, UndisturbedInv

-----------------------------------------------------------------------------
(* The invariant *)

LEMMA InitInv ==
  Init => IInv
<1> SUFFICES ASSUME Init
             PROVE  IInv
  OBVIOUS
<1> USE DEF Init, LockInit
<1>1. TypeOK
  <2>1. pc \in [Procs -> Importing \cup Pruning \cup {"idle"}] /\ op \in [Procs -> Import \cup Prune \cup {None}]
    OBVIOUS
  <2>2. \A p \in Procs : pc[p] = "idle" /\ op[p] = None
    OBVIOUS
  <2>3. "idle" \notin Importing \cup Pruning
    BY DEF Importing, Pruning
  <2>4. snaps \in [Revs -> Snapshot \cup {None}] /\ outages \in 0 .. MaxOutages
    OBVIOUS
  <2> QED
    BY <2>1, <2>2, <2>3, <2>4 DEF TypeOK, LockTypeOK
<1>2. LockInv
  BY DEF LockInv, OneDescription
<1>3. FilesInv
  BY FS_EmptySet DEF FilesInv
<1>4. StageInv
  BY DEF StageInv, Stage, Pruning
<1>5. CountsOnlyKeptBatches /\ OneTreePerSnapshot
  BY DEF CountsOnlyKeptBatches, OneTreePerSnapshot
<1>6. UndisturbedInv
  BY DEF UndisturbedInv, Undisturbed, Whole, CountsAll
<1> QED
  BY <1>1, <1>2, <1>3, <1>4, <1>5, <1>6 DEF IInv

LEMMA StutterKeepsInv ==
  ASSUME IInv, UNCHANGED vars
  PROVE  IInv'
<1> USE DEF vars
<1>1. TypeOK'
  BY DEF IInv, TypeOK, LockTypeOK, Holds
<1>2. LockInv' /\ FilesInv'
  BY DEF IInv, LockInv, OneDescription, Holds, FilesInv
<1>3. StageInv'
  BY DEF IInv, StageInv, Stage, Published, Own
<1>4. CountsOnlyKeptBatches' /\ OneTreePerSnapshot'
  BY DEF IInv, CountsOnlyKeptBatches, Published, OneTreePerSnapshot, Counted
<1>5. UndisturbedInv'
  <2>1. ASSUME NEW p \in Procs, Undisturbed(p)
        PROVE  Undisturbed(p)'
    <3> DEFINE file == [id |-> op[p].id, pid |-> None, tree |-> op[p].tree, whole |-> TRUE]
    <3>1. Whole(files) => Whole(files)'
      BY DEF Whole, CountsAll
    <3>2. Whole(files \ Own(p, op[p].id)) => Whole(files \ Own(p, op[p].id))'
      BY DEF Whole, CountsAll, Own
    <3>3. Whole(files \ {file}) => Whole(files \ {file})'
      BY DEF Whole, CountsAll
    <3>4. \A r \in Revs : CountsAll(r, op[p].kept) => CountsAll(r, op[p].kept)'
      BY DEF CountsAll
    <3> QED
      BY <2>1, <3>1, <3>2, <3>3, <3>4 DEF Undisturbed
  <2>2. Whole(files) => Whole(files)'
    BY DEF Whole, CountsAll
  <2> QED
    BY <2>1, <2>2 DEF IInv, UndisturbedInv, LockIsFree
<1> QED
  BY <1>1, <1>2, <1>3, <1>4, <1>5 DEF IInv

LEMMA NextKeepsInv ==
  IInv /\ [Next]_vars => IInv'
<1> SUFFICES ASSUME IInv, [Next]_vars
             PROVE  IInv'
  OBVIOUS
<1>1. ASSUME NEW p \in Procs, ImportStep(p)
      PROVE  IInv'
  BY <1>1, LoadExistingKeepsInv, FindDuplicateKeepsInv, CreateBatchKeepsInv, WriteBatchKeepsInv,
     RenameBatchKeepsInv, MergeKeepsInv DEF ImportStep
<1>2. ASSUME NEW p \in Procs, PruneStep(p)
      PROVE  IInv'
  BY <1>2, ScanKeepsInv, RemoveBatchKeepsInv, ClearSnapshotsKeepsInv, RebuildKeepsInv,
     RepublishKeepsInv DEF PruneStep
<1> QED
  BY <1>1, <1>2, StartImportKeepsInv, StartPruneKeepsInv, IoErrorKeepsInv, CrashKeepsInv,
     StutterKeepsInv DEF Next

LEMMA Invariance ==
  Spec => []IInv
  BY InitInv, NextKeepsInv, PTL DEF Spec

(* Types hold, a call in progress has its locals, and only the owner of    *)
(* the lock has one in progress: publish and prune_before take the lock    *)
(* first and return through one drop of it.                                *)
THEOREM TypesHold ==
  Spec => []TypeOK
<1>1. IInv => TypeOK
  BY DEF IInv
<1> QED
  BY <1>1, Invariance, PTL

-----------------------------------------------------------------------------
(* What is counted, whatever failed *)

PublishedIsWhole == \A f \in files : f.pid = None => f.whole

LEMMA StaysWhole ==
  IInv /\ PublishedIsWhole /\ [Next]_vars => PublishedIsWhole'
<1> SUFFICES ASSUME IInv, PublishedIsWhole, [Next]_vars
             PROVE  PublishedIsWhole'
  OBVIOUS
<1>1. ASSUME files' \subseteq files
      PROVE  PublishedIsWhole'
  BY <1>1 DEF PublishedIsWhole
<1>2. ASSUME NEW p \in Procs, CreateBatch(p)
      PROVE  PublishedIsWhole'
  BY <1>2 DEF CreateBatch, PublishedIsWhole
<1>3. ASSUME NEW p \in Procs, WriteBatch(p)
      PROVE  PublishedIsWhole'
  <2>1. \A f \in Own(p, op[p].id) : f \in File /\ f.pid = p /\ [f EXCEPT !.whole = TRUE].pid = p
    BY DEF Own, IInv, TypeOK, File
  <2> QED
    BY <1>3, <2>1 DEF WriteBatch, PublishedIsWhole
<1>4. ASSUME NEW p \in Procs, RenameBatch(p)
      PROVE  PublishedIsWhole'
  <2> DEFINE own == [id |-> op[p].id, pid |-> p, tree |-> op[p].tree, whole |-> pc[p] = "rename"]
  <2>1. Own(p, op[p].id) = {own} /\ pc[p] = "rename"
    BY <1>4 DEF IInv, StageInv, Stage, RenameBatch, At
  <2>2. own.whole /\ [own EXCEPT !.pid = None].whole
    BY <2>1
  <2> HIDE DEF own
  <2> QED
    BY <1>4, <2>1, <2>2 DEF RenameBatch, PublishedIsWhole
<1>5. ASSUME NEW p \in Procs, Crash(p)
      PROVE  PublishedIsWhole'
  <2>1. \A f \in files : f \in File /\ [f EXCEPT !.pid = outages + 1].pid = outages + 1 /\ outages + 1 \in Nat
    BY DEF IInv, TypeOK, File
  <2> QED
    BY <1>5, <2>1 DEF Crash, PublishedIsWhole
<1>6. ASSUME NEW p \in Procs, ImportStep(p) \/ PruneStep(p)
      PROVE  PublishedIsWhole'
  BY <1>1, <1>2, <1>3, <1>4, <1>6
  DEF ImportStep, LoadExisting, FindDuplicate, MergeIntoSnapshot,
      PruneStep, Scan, RemoveBatch, ClearSnapshots, Rebuild, Republish
<1> QED
  BY <1>1, <1>5, <1>6 DEF Next, StartImport, StartPrune, IoError, vars

(* The snapshots count a batch once if it is on disk and not otherwise.    *)
Exact(id) ==
  \A r \in Revs, t \in Trees :
    TimesCounted(r, id, t) = IF Revision[id] = r /\ \E f \in Published(id) : f.tree = t THEN 1 ELSE 0

Old(p, id) == LastSeen[id] < op[p].cutoff

(* What a process at work may rely on.  While it counts, the directory     *)
(* holds what it kept, and nobody else changes it.                         *)
Known(p) ==
  /\ pc[p] \in {"load", "check", "write", "rename", "scan"} => \A id \in Ids \ astray : Exact(id)
  /\ pc[p] = "merge" =>
       /\ \A id \in Ids \ (astray \cup {op[p].id}) : Exact(id)
       /\ op[p].id \notin astray => \A r \in Revs, t \in Trees : TimesCounted(r, op[p].id, t) = 0
       /\ \A f \in Published(op[p].id) : f.tree = op[p].tree
  /\ pc[p] = "remove" => \A id \in Ids \ astray : ~Old(p, id) => Exact(id)
  /\ pc[p] \in {"remove", "clear", "rebuild", "republish"} =>
       /\ files = op[p].kept \cup op[p].doomed
       /\ \A f \in op[p].kept : ~Old(p, f.id)
       /\ \A f \in op[p].doomed : Old(p, f.id)
       /\ pc[p] # "remove" => op[p].doomed = {}
  /\ pc[p] = "rebuild" => \A r \in Revs : snaps[r] = None
  /\ pc[p] = "republish" => \A r \in Revs \ op[p].revs : CountsAll(r, op[p].kept)

Quiescent == \A p \in Procs : pc[p] = "idle"

ExactInv ==
  /\ PublishedIsWhole
  /\ \A p \in Procs : Known(p)
  /\ Quiescent => \A id \in Ids \ astray : Exact(id)

LEMMA ExactStays ==
  ASSUME NEW id, Exact(id), UNCHANGED snaps, Published(id)' = Published(id)
  PROVE  Exact(id)'
  BY DEF Exact, TimesCounted

LEMMA SameFiles ==
  ASSUME UNCHANGED <<files, snaps>>, NEW id, Exact(id)
  PROVE  Exact(id)'
  BY ExactStays DEF Published

(* A step into a stage of a call, while nobody else works. *)
LEMMA EnterKeepsExact ==
  ASSUME IInv, NEW p \in Procs, NEW stage, stage # "idle",
         \A q \in Procs : q # p => pc[q] = "idle",
         pc' = [pc EXCEPT ![p] = stage],
         PublishedIsWhole', Known(p)'
  PROVE  ExactInv'
<1>1. \A q \in Procs : pc'[q] = IF q = p THEN stage ELSE "idle"
  BY DEF IInv, TypeOK
<1>2. ASSUME NEW q \in Procs, q # p
      PROVE  Known(q)'
  BY <1>1, <1>2 DEF Known
<1> QED
  BY <1>1, <1>2 DEF ExactInv, Quiescent

(* A call ends. *)
LEMMA EndKeepsExact ==
  ASSUME \A q \in Procs : pc'[q] = "idle", PublishedIsWhole', \A id \in Ids \ astray' : Exact(id)'
  PROVE  ExactInv'
  BY DEF ExactInv, Known

LEMMA ReturnEnds ==
  ASSUME IInv, NEW p \in Procs, pc[p] # "idle", Return(p)
  PROVE  \A q \in Procs : pc'[q] = "idle"
  BY Alone DEF IInv, TypeOK, Return, Goto

(* What a call that is cut short does not spoil stays exact. *)
LEMMA CutShort ==
  ASSUME IInv, ExactInv, NEW p \in Procs, pc[p] # "idle", NEW id \in Ids \ (astray \cup Spoilt(p))
  PROVE  Exact(id)
<1>1. Known(p) /\ pc[p] \in Importing \cup Pruning
  BY DEF ExactInv, IInv, TypeOK
<1>2. CASE pc[p] \in {"load", "check", "write", "rename", "scan"}
  BY <1>1, <1>2 DEF Known
<1>3. CASE pc[p] = "merge"
  BY <1>1, <1>3 DEF Known, Spoilt, At
<1>4. CASE pc[p] = "remove"
  BY <1>1, <1>4 DEF Known, Spoilt, At, Old
<1>5. CASE pc[p] \in {"clear", "rebuild", "republish"}
  BY <1>5 DEF Spoilt
<1> QED
  BY <1>1, <1>2, <1>3, <1>4, <1>5 DEF Importing, Pruning

(* A rebuild that counted all files counts a batch without temporary files *)
(* as often as it is on disk.                                              *)
LEMMA RecountIsExact ==
  ASSUME IInv, PublishedIsWhole, \A r \in Revs : CountsAll(r, files),
         NEW id \in Ids, \A f \in files : f.id = id => f.pid = None
  PROVE  Exact(id)
<1> SUFFICES ASSUME NEW r \in Revs, NEW t \in Trees
             PROVE  TimesCounted(r, id, t)
                      = IF Revision[id] = r /\ \E f \in Published(id) : f.tree = t THEN 1 ELSE 0
  BY DEF Exact
<1> DEFINE X == {f \in files : Revision[f.id] = r /\ f.id = id /\ f.tree = t}
           file == [id |-> id, pid |-> None, tree |-> t, whole |-> TRUE]
<1>1. CASE snaps[r] = None
  <2>1. \A f \in files : Revision[f.id] # r
    BY <1>1 DEF CountsAll
  <2> QED
    BY <1>1, <2>1 DEF TimesCounted, Published
<1>2. CASE snaps[r] # None
  <2>1. TimesCounted(r, id, t) = Cardinality(X)
    <3>1. snaps[r].merged = CountedOnRebuild(files, r)
      BY <1>2 DEF CountsAll
    <3>2. <<id, t>> \in Ids \X Trees /\ <<id, t>>[1] = id /\ <<id, t>>[2] = t
      OBVIOUS
    <3> QED
      BY <1>2, <3>1, <3>2 DEF TimesCounted, CountedOnRebuild
  <2>2. \A f \in X : f = file
    BY DEF PublishedIsWhole, IInv, TypeOK, File
  <2>3. X # {} <=> Revision[id] = r /\ \E f \in Published(id) : f.tree = t
    BY DEF Published
  <2>4. CASE X = {}
    BY <2>1, <2>3, <2>4, FS_EmptySet
  <2>5. CASE X # {}
    <3>1. X = {file}
      BY <2>2, <2>5
    <3> HIDE DEF file
    <3>2. Cardinality(X) = 1
      BY ONLY <3>1, FS_Singleton
    <3> QED
      BY <2>1, <2>3, <2>5, <3>2
  <2> QED
    BY <2>4, <2>5
<1> QED
  BY <1>1, <1>2

LEMMA StartKeepsExact ==
  ASSUME IInv, ExactInv, PublishedIsWhole', NEW p \in Procs,
         \/ \E id \in Ids, tree \in Trees : StartImport(p, id, tree)
         \/ \E cutoff \in Cutoffs : StartPrune(p, cutoff)
  PROVE  ExactInv'
<1>1. PICK stage \in {"load", "scan"} : pc' = [pc EXCEPT ![p] = stage]
  BY DEF StartImport, StartPrune, Goto
<1>2. LockIsFree /\ UNCHANGED <<files, snaps, astray>>
  BY DEF StartImport, StartPrune, TryLock
<1>3. Quiescent
  BY <1>2, NobodyWorks DEF IInv, Quiescent
<1>4. \A id \in Ids \ astray : Exact(id)'
  BY <1>2, <1>3, SameFiles DEF ExactInv
<1>5. pc'[p] = stage
  BY <1>1 DEF IInv, TypeOK
<1>6. Known(p)'
  BY <1>2, <1>4, <1>5 DEF Known
<1> QED
  BY <1>1, <1>3, <1>6, EnterKeepsExact DEF Quiescent

LEMMA EarlyImportKeepsExact ==
  ASSUME IInv, ExactInv, PublishedIsWhole', NEW p \in Procs, LoadExisting(p) \/ FindDuplicate(p)
  PROVE  ExactInv'
<1>1. pc[p] \in {"load", "check"} /\ UNCHANGED <<files, snaps, astray>>
  BY DEF LoadExisting, FindDuplicate, At
<1>2. \A id \in Ids \ astray' : Exact(id)'
  BY <1>1, SameFiles DEF ExactInv, Known
<1>3. CASE Return(p)
  BY <1>1, <1>2, <1>3, ReturnEnds, EndKeepsExact
<1>4. CASE ~Return(p)
  <2>1. pc' = [pc EXCEPT ![p] = "check"]
    BY <1>4 DEF LoadExisting, FindDuplicate, Goto
  <2>2. pc'[p] = "check"
    BY <2>1 DEF IInv, TypeOK
  <2>3. Known(p)'
    BY <1>2, <2>2 DEF Known
  <2>4. \A q \in Procs : q # p => pc[q] = "idle"
    BY <1>1, Alone DEF IInv
  <2> QED
    BY <2>1, <2>3, <2>4, EnterKeepsExact
<1> QED
  BY <1>3, <1>4

(* A temporary file is no batch yet. *)
LEMMA CreateKeepsExact ==
  ASSUME IInv, ExactInv, PublishedIsWhole', NEW p \in Procs, CreateBatch(p)
  PROVE  ExactInv'
<1>1. pc[p] = "check" /\ UNCHANGED <<snaps, astray>>
  BY DEF CreateBatch, At
<1>2. \A id : Published(id)' = Published(id)
  BY DEF CreateBatch, Published
<1>3. \A id \in Ids \ astray' : Exact(id)'
  BY <1>1, <1>2, ExactStays DEF ExactInv, Known
<1>4. CASE Return(p)
  BY <1>1, <1>3, <1>4, ReturnEnds, EndKeepsExact
<1>5. CASE ~Return(p)
  <2>1. pc' = [pc EXCEPT ![p] = "write"]
    BY <1>5 DEF CreateBatch, Goto
  <2>2. pc'[p] = "write"
    BY <2>1 DEF IInv, TypeOK
  <2>3. Known(p)'
    BY <1>3, <2>2 DEF Known
  <2>4. \A q \in Procs : q # p => pc[q] = "idle"
    BY <1>1, Alone DEF IInv
  <2> QED
    BY <2>1, <2>3, <2>4, EnterKeepsExact
<1> QED
  BY <1>4, <1>5

LEMMA WriteKeepsExact ==
  ASSUME IInv, ExactInv, PublishedIsWhole', NEW p \in Procs, WriteBatch(p)
  PROVE  ExactInv'
<1> DEFINE id == op[p].id
           new == [id |-> id, pid |-> p, tree |-> op[p].tree, whole |-> TRUE]
<1>1. pc[p] = "write" /\ UNCHANGED <<snaps, astray>> /\ pc' = [pc EXCEPT ![p] = "rename"]
  BY DEF WriteBatch, At, Goto
<1>2. Own(p, id) = {[id |-> id, pid |-> p, tree |-> op[p].tree, whole |-> FALSE]}
  BY <1>1 DEF IInv, StageInv, Stage
<1>3. files' = (files \ Own(p, id)) \cup {new}
  <2>1. {[f EXCEPT !.whole = TRUE] : f \in Own(p, id)} = {new}
    BY <1>2
  <2> QED
    BY <2>1 DEF WriteBatch
<1>4. \A i : Published(i)' = Published(i)
  BY <1>3 DEF Published, Own
<1>5. \A i \in Ids \ astray' : Exact(i)'
  BY <1>1, <1>4, ExactStays DEF ExactInv, Known
<1>6. pc'[p] = "rename"
  BY <1>1 DEF IInv, TypeOK
<1>7. Known(p)'
  BY <1>5, <1>6 DEF Known
<1>8. \A q \in Procs : q # p => pc[q] = "idle"
  BY <1>1, Alone DEF IInv
<1> QED
  BY <1>1, <1>7, <1>8, EnterKeepsExact

(* The batch is on disk now and in no snapshot.  It was in none before.    *)
LEMMA RenameKeepsExact ==
  ASSUME IInv, ExactInv, PublishedIsWhole', NEW p \in Procs, RenameBatch(p)
  PROVE  ExactInv'
<1> DEFINE id == op[p].id
           tree == op[p].tree
           old == [id |-> id, pid |-> p, tree |-> tree, whole |-> TRUE]
           new == [id |-> id, pid |-> None, tree |-> tree, whole |-> TRUE]
<1>1. /\ pc[p] = "rename" /\ pc[p] \in Importing
      /\ UNCHANGED <<op, snaps, astray>> /\ pc' = [pc EXCEPT ![p] = "merge"]
  BY DEF RenameBatch, At, Goto, Importing
<1>2. id \in Ids /\ tree \in Trees
  BY <1>1, ImportIsTyped
<1>3. Own(p, id) = {old} /\ Published(id) = {}
  BY <1>1 DEF IInv, StageInv, Stage
<1>4. {[f EXCEPT !.pid = None] : f \in Own(p, id)} = {new}
  <2>1. old \in File /\ old.id = id /\ old.tree = tree /\ old.whole = TRUE
    BY <1>2 DEF File, Pids
  <2>2. [old EXCEPT !.pid = None] = new
    <3> HIDE DEF old
    <3> QED
      BY <2>1, RenamedFile
  <2> HIDE DEF old, new
  <2> QED
    BY <1>3, <2>2
<1>5. files' = (files \ {old}) \cup {new}
  BY <1>3, <1>4 DEF RenameBatch
<1>6. /\ \A i : i # id => Published(i)' = Published(i)
      /\ Published(id)' = {new}
  <2>1. old.id = id /\ new.id = id /\ new.pid = None /\ id' = id
    BY <1>1
  <2> HIDE DEF id, old, new
  <2>2. \A i : i # id => Published(i)' = Published(i)
    BY <1>5, <2>1 DEF Published
  <2>3. \A f \in files' : f.id = id /\ f.pid = None => f = new
    BY <1>3, <1>5 DEF Published
  <2>4. new \in files'
    BY <1>5
  <2>5. \A f : f \in Published(id)' <=> f \in files' /\ f.id = id /\ f.pid = None
    BY <2>1 DEF Published
  <2>6. \A f : f \in Published(id)' <=> f = new
    BY <2>1, <2>3, <2>4, <2>5
  <2>7. Published(id)' = {new}
    BY ONLY <2>6
  <2> QED
    BY <2>2, <2>7
<1>7. \A i \in Ids \ (astray \cup {id}) : Exact(i)'
  BY <1>1, <1>6, ExactStays DEF ExactInv, Known
<1>8. id \notin astray => \A r \in Revs, t \in Trees : TimesCounted(r, id, t)' = 0
  <2>1. id \notin astray => Exact(id)
    BY <1>1, <1>2 DEF ExactInv, Known
  <2> QED
    BY <1>1, <1>3, <2>1 DEF Exact, TimesCounted
<1>9. pc'[p] = "merge" /\ op'[p] = op[p]
  BY <1>1 DEF IInv, TypeOK
<1>10. Known(p)'
  <2>1. \A f \in Published(id)' : f.tree = tree
    BY <1>6
  <2> HIDE DEF old, new
  <2> QED
    BY <1>1, <1>7, <1>8, <1>9, <2>1 DEF Known
<1>11. \A q \in Procs : q # p => pc[q] = "idle"
  BY <1>1, Alone DEF IInv
<1> QED
  BY <1>1, <1>10, <1>11, EnterKeepsExact

LEMMA MergeKeepsExact ==
  ASSUME IInv, ExactInv, PublishedIsWhole', NEW p \in Procs, MergeIntoSnapshot(p)
  PROVE  ExactInv'
<1> DEFINE id == op[p].id
           tree == op[p].tree
           rev == Revision[id]
           seen == op[p].seen
           base == IF seen = None THEN EmptySnapshot(tree) ELSE seen
           new == Merged(base, id, tree)
<1>1. /\ pc[p] = "merge" /\ pc[p] \in Importing /\ pc[p] # "idle" /\ Return(p)
      /\ UNCHANGED <<files, astray>> /\ snaps' = [snaps EXCEPT ![rev] = new]
  BY DEF MergeIntoSnapshot, At, Importing
<1>2. id \in Ids /\ tree \in Trees /\ rev \in Revs
  BY <1>1, ImportIsTyped
<1>3. /\ base \in Snapshot /\ new \in Snapshot /\ seen = snaps[rev]
      /\ new.merged = [base.merged EXCEPT ![<<id, tree>>] = @ + 1]
      /\ \A k \in Ids \X Trees : base.merged[k] \in Nat
  BY MergeAddsOne
<1>4. \A i \in Ids, t \in Trees : base.merged[<<i, t>>] = TimesCounted(rev, i, t)
  <2>1. CASE seen = None
    BY <1>3, <2>1 DEF TimesCounted, EmptySnapshot
  <2>2. CASE seen # None
    BY <1>3, <2>2 DEF TimesCounted
  <2> QED
    BY <2>1, <2>2
<1>5. \A k \in Ids \X Trees : new.merged[k] = IF k = <<id, tree>> THEN base.merged[k] + 1 ELSE base.merged[k]
  <2>1. base.merged \in [Ids \X Trees -> Nat]
    BY <1>3 DEF Snapshot
  <2> HIDE DEF base, new
  <2> QED
    BY <1>2, <1>3, <2>1
<1>6. new # None /\ \A r \in Revs : snaps'[r] = IF r = rev THEN new ELSE snaps[r]
  BY <1>1, <1>3 DEF IInv, TypeOK
<1> HIDE DEF base, new
<1>7. \A r \in Revs, i \in Ids, t \in Trees :
        TimesCounted(r, i, t)' = IF r = rev /\ i = id /\ t = tree THEN TimesCounted(r, i, t) + 1
                                 ELSE TimesCounted(r, i, t)
  <2> SUFFICES ASSUME NEW r \in Revs, NEW i \in Ids, NEW t \in Trees
               PROVE  TimesCounted(r, i, t)' = IF r = rev /\ i = id /\ t = tree THEN TimesCounted(r, i, t) + 1
                                               ELSE TimesCounted(r, i, t)
    OBVIOUS
  <2>1. CASE r # rev
    BY <1>6, <2>1 DEF TimesCounted
  <2>2. CASE r = rev
    <3>1. TimesCounted(r, i, t)' = new.merged[<<i, t>>]
      BY <1>6, <2>2 DEF TimesCounted
    <3>2. base.merged[<<i, t>>] = TimesCounted(r, i, t)
      BY <1>4, <2>2
    <3>3. new.merged[<<i, t>>] = IF <<i, t>> = <<id, tree>> THEN base.merged[<<i, t>>] + 1 ELSE base.merged[<<i, t>>]
      BY <1>5
    <3> QED
      BY <2>2, <3>1, <3>2, <3>3
  <2> QED
    BY <2>1, <2>2
<1>8. Known(p)
  BY DEF ExactInv
<1>9. \A i : Published(i)' = Published(i)
  BY <1>1 DEF Published
<1>10. ASSUME NEW i \in Ids \ astray'
       PROVE  Exact(i)'
  <2>1. CASE i # id
    <3>1. Exact(i)
      BY <1>1, <1>8, <2>1 DEF Known
    <3> QED
      BY <1>7, <1>9, <2>1, <3>1 DEF Exact
  <2>2. CASE i = id
    <3>1. \A r \in Revs, t \in Trees : TimesCounted(r, id, t) = 0
      BY <1>1, <1>8, <1>10, <2>2 DEF Known
    <3>2. \A f \in Published(id) : f.tree = tree
      BY <1>1, <1>8 DEF Known
    <3>3. [id |-> id, pid |-> None, tree |-> tree, whole |-> TRUE] \in files
      BY <1>1 DEF IInv, StageInv, Stage
    <3>4. \A t : (\E f \in Published(id) : f.tree = t) <=> t = tree
      BY <3>2, <3>3 DEF Published
    <3> QED
      BY <1>2, <1>7, <1>9, <2>2, <3>1, <3>4 DEF Exact
  <2> QED
    BY <2>1, <2>2
<1> QED
  BY <1>1, <1>10, ReturnEnds, EndKeepsExact

LEMMA ScanKeepsExact ==
  ASSUME IInv, ExactInv, PublishedIsWhole', NEW p \in Procs, Scan(p)
  PROVE  ExactInv'
<1> DEFINE old == {f \in files : LastSeen[f.id] < op[p].cutoff}
<1>1. pc[p] = "scan" /\ pc[p] \in Pruning /\ UNCHANGED <<files, snaps, astray>>
  BY DEF Scan, At, Pruning
<1>2. \A id \in Ids \ astray' : Exact(id)'
  BY <1>1, SameFiles DEF ExactInv, Known
<1>3. CASE Return(p)
  BY <1>1, <1>2, <1>3, ReturnEnds, EndKeepsExact
<1>4. CASE ~Return(p)
  <2>1. /\ pc' = [pc EXCEPT ![p] = "remove"]
        /\ op' = [op EXCEPT ![p] = [op[p] EXCEPT !.doomed = old, !.kept = files \ old]]
    BY ONLY Scan(p), <1>4 DEF Scan, Goto
  <2>2. op[p] \in Prune
    BY <1>1, PruneIsTyped
  <2>3. [op[p] EXCEPT !.doomed = old, !.kept = files \ old]
          = [cutoff |-> op[p].cutoff, doomed |-> old, kept |-> files \ old, revs |-> op[p].revs]
    <3> HIDE DEF old
    <3> QED
      BY <2>2, ScannedPrune
  <2>4. /\ pc'[p] = "remove"
        /\ op'[p].doomed = old /\ op'[p].kept = files \ old /\ op'[p].cutoff = op[p].cutoff
    BY <2>1, <2>3 DEF IInv, TypeOK
  <2>5. Known(p)'
    BY <1>1, <1>2, <2>4 DEF Known, Old
  <2>6. \A q \in Procs : q # p => pc[q] = "idle"
    BY <1>1, Alone DEF IInv, Pruning
  <2> QED
    BY <2>1, <2>5, <2>6, EnterKeepsExact
<1> QED
  BY <1>3, <1>4

LEMMA RemoveKeepsExact ==
  ASSUME IInv, ExactInv, PublishedIsWhole', NEW p \in Procs, RemoveBatch(p)
  PROVE  ExactInv'
<1>1. pc[p] = "remove" /\ pc[p] \in Pruning /\ pc[p] # "idle" /\ UNCHANGED <<snaps, astray>>
  BY DEF RemoveBatch, At, Pruning
<1>2. op[p] \in Prune
  BY <1>1, PruneIsTyped
<1>3. PICK f \in op[p].doomed :
        /\ files' = files \ {f}
        /\ op' = [op EXCEPT ![p].doomed = @ \ {f}]
        /\ IF op[p].doomed = {f} THEN Goto(p, "clear") ELSE UNCHANGED pc
  BY DEF RemoveBatch
<1> DEFINE stage == IF op[p].doomed = {f} THEN "clear" ELSE "remove"
<1>4. pc' = [pc EXCEPT ![p] = stage]
  BY <1>1, <1>3 DEF Goto, IInv, TypeOK
<1>5. /\ op'[p].doomed = op[p].doomed \ {f} /\ op'[p].kept = op[p].kept /\ op'[p].cutoff = op[p].cutoff
  <2>1. [op[p] EXCEPT !.doomed = @ \ {f}]
          = [cutoff |-> op[p].cutoff, doomed |-> op[p].doomed \ {f}, kept |-> op[p].kept, revs |-> op[p].revs]
    BY <1>2, DoomedReplaced
  <2>2. op'[p] = [op[p] EXCEPT !.doomed = @ \ {f}]
    BY <1>3 DEF IInv, TypeOK
  <2> QED
    BY <2>1, <2>2
<1>6. pc'[p] = stage
  BY <1>4 DEF IInv, TypeOK
<1>7. /\ files = op[p].kept \cup op[p].doomed
      /\ \A g \in op[p].kept : ~Old(p, g.id)
      /\ \A g \in op[p].doomed : Old(p, g.id)
      /\ \A id \in Ids \ astray : ~Old(p, id) => Exact(id)
  BY <1>1 DEF ExactInv, Known
<1>8. /\ files' = op'[p].kept \cup op'[p].doomed
      /\ \A g \in op'[p].kept : ~Old(p, g.id)
      /\ \A g \in op'[p].doomed : Old(p, g.id)
      /\ stage # "remove" => op'[p].doomed = {}
  BY <1>3, <1>5, <1>7
<1>9. \A id : ~Old(p, id) => Published(id)' = Published(id)
  BY <1>3, <1>7 DEF Published
<1>10. \A id \in Ids \ astray : ~Old(p, id) => Exact(id)'
  BY <1>1, <1>7, <1>9, ExactStays
<1>11. \A id : Old(p, id)' <=> Old(p, id)
  BY <1>5 DEF Old
<1>12. Known(p)'
  BY <1>1, <1>6, <1>8, <1>10, <1>11 DEF Known
<1>13. \A q \in Procs : q # p => pc[q] = "idle"
  BY <1>1, Alone DEF IInv
<1> QED
  BY <1>4, <1>12, <1>13, EnterKeepsExact

LEMMA ClearKeepsExact ==
  ASSUME IInv, ExactInv, PublishedIsWhole', NEW p \in Procs, ClearSnapshots(p)
  PROVE  ExactInv'
<1>1. pc[p] = "clear" /\ pc[p] # "idle" /\ UNCHANGED <<op, files, astray>>
  BY DEF ClearSnapshots, At
<1>2. PICK stage \in {"clear", "rebuild"} :
        /\ pc' = [pc EXCEPT ![p] = stage]
        /\ stage = "rebuild" => \A r \in Revs : snaps'[r] = None
  BY <1>1 DEF ClearSnapshots, Goto, IInv, TypeOK
<1>3. pc'[p] = stage
  BY <1>2 DEF IInv, TypeOK
<1>4. Known(p)'
  BY <1>1, <1>2, <1>3 DEF ExactInv, Known, Old
<1>5. \A q \in Procs : q # p => pc[q] = "idle"
  BY <1>1, Alone DEF IInv
<1> QED
  BY <1>2, <1>4, <1>5, EnterKeepsExact

LEMMA RebuildKeepsExact ==
  ASSUME IInv, ExactInv, PublishedIsWhole', NEW p \in Procs, Rebuild(p)
  PROVE  ExactInv'
<1>1. pc[p] = "rebuild" /\ pc[p] \in Pruning /\ pc[p] # "idle" /\ UNCHANGED <<files, snaps>>
  BY DEF Rebuild, At, Pruning
<1>2. op[p] \in Prune
  BY <1>1, PruneIsTyped
<1>3. CASE Return(p) /\ astray' = astray \cup Spoilt(p)
  <2>1. \A id \in Ids \ astray' : Exact(id)'
    BY <1>1, <1>3, CutShort, SameFiles
  <2> QED
    BY <1>1, <1>3, <2>1, ReturnEnds, EndKeepsExact
<1>4. CASE /\ op' = [op EXCEPT ![p].revs = {Revision[f.id] : f \in op[p].kept}]
           /\ Goto(p, "republish")
           /\ UNCHANGED <<holders, astray>>
  <2> DEFINE all == {Revision[f.id] : f \in op[p].kept}
  <2>1. op'[p] = [op[p] EXCEPT !.revs = all]
    BY <1>4 DEF IInv, TypeOK
  <2>2. op[p] = [cutoff |-> op[p].cutoff, doomed |-> op[p].doomed, kept |-> op[p].kept,
                 revs |-> op[p].revs]
    BY <1>2 DEF Prune
  <2>3. /\ op'[p].kept = op[p].kept /\ op'[p].doomed = op[p].doomed /\ op'[p].cutoff = op[p].cutoff
        /\ op'[p].revs = all
    <3> HIDE DEF all
    <3> QED
      BY <2>1, <2>2
  <2>4. pc'[p] = "republish" /\ pc' = [pc EXCEPT ![p] = "republish"]
    BY <1>4 DEF IInv, TypeOK, Goto
  <2>5. \A r \in Revs \ op'[p].revs : CountsAll(r, op[p].kept)'
    BY <1>1, <2>3 DEF ExactInv, Known, CountsAll
  <2>6. Known(p)'
    BY <1>1, <2>3, <2>4, <2>5 DEF ExactInv, Known, Old
  <2>7. \A q \in Procs : q # p => pc[q] = "idle"
    BY <1>1, Alone DEF IInv
  <2> QED
    BY <2>4, <2>6, <2>7, EnterKeepsExact
<1> QED
  BY <1>3, <1>4 DEF Rebuild

LEMMA RepublishKeepsExact ==
  ASSUME IInv, ExactInv, PublishedIsWhole', NEW p \in Procs, Republish(p)
  PROVE  ExactInv'
<1> DEFINE kept == op[p].kept
<1>1. pc[p] = "republish" /\ pc[p] \in Pruning /\ pc[p] # "idle" /\ UNCHANGED files
  BY DEF Republish, At, Pruning
<1>2. op[p] \in Prune
  BY <1>1, PruneIsTyped
<1>3. /\ files = kept \cup op[p].doomed /\ op[p].doomed = {} /\ files = kept
      /\ \A f \in kept : ~Old(p, f.id)
      /\ \A r \in Revs \ op[p].revs : CountsAll(r, kept)
  <2>1. Known(p)
    BY DEF ExactInv
  <2>2. /\ files = kept \cup op[p].doomed /\ op[p].doomed = {}
        /\ \A f \in kept : ~Old(p, f.id)
    BY <1>1, <2>1 DEF Known
  <2>3. \A r \in Revs \ op[p].revs : CountsAll(r, kept)
    BY <1>1, <2>1 DEF Known
  <2> QED
    BY <2>2, <2>3
<1>4. CASE /\ op[p].revs = {} /\ Return(p) /\ UNCHANGED snaps
           /\ astray' = {f.id : f \in {f \in files : f.pid # None}}
  <2>1. \A r \in Revs : CountsAll(r, files)
    BY <1>3, <1>4
  <2>2. ASSUME NEW id \in Ids \ astray'
        PROVE  Exact(id)'
    <3>1. \A f \in files : f.id = id => f.pid = None
      BY <1>4, <2>2
    <3>2. Exact(id)
      BY <2>1, <2>2, <3>1, RecountIsExact DEF ExactInv
    <3> QED
      BY <1>1, <1>4, <3>2, SameFiles
  <2> QED
    BY <1>1, <1>4, <2>2, ReturnEnds, EndKeepsExact
<1>5. ASSUME NEW r \in op[p].revs, NEW f \in kept, Revision[f.id] = r,
             snaps' = [snaps EXCEPT ![r] = [tree |-> f.tree, merged |-> CountedOnRebuild(kept, r)]],
             op' = [op EXCEPT ![p].revs = @ \ {r}],
             UNCHANGED <<holders, pc, astray>>
      PROVE  ExactInv'
  <2> DEFINE new == [tree |-> f.tree, merged |-> CountedOnRebuild(kept, r)]
  <2>1. [op[p] EXCEPT !.revs = @ \ {r}]
          = [cutoff |-> op[p].cutoff, doomed |-> op[p].doomed, kept |-> kept, revs |-> op[p].revs \ {r}]
    BY <1>2, SMTT(20) DEF Prune
  <2>2. op'[p] = [op[p] EXCEPT !.revs = @ \ {r}]
    BY <1>5 DEF IInv, TypeOK
  <2>3. /\ op'[p].kept = kept /\ op'[p].doomed = op[p].doomed /\ op'[p].cutoff = op[p].cutoff
        /\ op'[p].revs = op[p].revs \ {r}
    BY <2>1, <2>2
  <2>4. pc' = [pc EXCEPT ![p] = "republish"] /\ pc'[p] = "republish"
    BY <1>1, <1>5 DEF IInv, TypeOK
  <2>5. new.merged = CountedOnRebuild(kept, r)
    OBVIOUS
  <2>6. new # None
    <3>1. CountedOnRebuild(kept, r) \in [Ids \X Trees -> Nat]
      BY <1>1, CountsAreTyped DEF IInv, StageInv, Stage
    <3>2. f.tree \in Trees
      BY <1>3, <1>5 DEF IInv, TypeOK, File
    <3>3. new \in Snapshot
      BY <3>1, <3>2 DEF Snapshot
    <3> QED
      BY <3>3
  <2>7. \A x \in Revs : snaps'[x] = IF x = r THEN new ELSE snaps[x]
    BY <1>5 DEF IInv, TypeOK
  <2> HIDE DEF new
  <2>8. ASSUME NEW x \in Revs \ op'[p].revs
        PROVE  CountsAll(x, op[p].kept)'
    <3>1. CASE x # r
      <4>1. CountsAll(x, kept) /\ snaps'[x] = snaps[x]
        BY <1>3, <2>3, <2>7, <3>1
      <4> QED
        BY <2>3, <4>1 DEF CountsAll
    <3>2. CASE x = r
      BY <1>5, <2>3, <2>5, <2>6, <2>7, <3>2 DEF CountsAll
    <3> QED
      BY <3>1, <3>2
  <2>9. files' = op'[p].kept \cup op'[p].doomed /\ op'[p].doomed = {} /\ \A g \in op'[p].kept : ~Old(p, g.id)'
    BY <1>1, <1>3, <2>3 DEF Old
  <2>10. Known(p)'
    BY <2>4, <2>8, <2>9 DEF Known
  <2>11. \A q \in Procs : q # p => pc[q] = "idle"
    BY <1>1, Alone DEF IInv
  <2> QED
    BY <2>4, <2>10, <2>11, EnterKeepsExact
<1> QED
  BY <1>4, <1>5 DEF Republish

LEMMA FailureKeepsExact ==
  ASSUME IInv, ExactInv, PublishedIsWhole', NEW p \in Procs, IoError(p) \/ Crash(p)
  PROVE  ExactInv'
<1>1. UNCHANGED snaps /\ astray' = astray \cup Spoilt(p)
  BY DEF IoError, Crash
<1>2. \A q \in Procs : pc'[q] = "idle"
  <2>1. CASE IoError(p)
    BY <2>1, ReturnEnds DEF IoError
  <2>2. CASE Crash(p)
    <3>1. \A q \in Procs : q # p => pc[q] = "idle"
      BY <2>2, Alone, NobodyWorks DEF IInv, Crash
    <3> QED
      BY <2>2, <3>1 DEF Crash, Goto, IInv, TypeOK
  <2> QED
    BY <2>1, <2>2
<1>3. \A i : Published(i)' = Published(i)
  <2>1. CASE IoError(p)
    BY <2>1 DEF IoError, Published
  <2>2. CASE Crash(p)
    <3>1. \A f \in files : f \in File /\ (f.pid = p => [f EXCEPT !.pid = outages + 1].pid = outages + 1)
      BY DEF IInv, TypeOK, File
    <3>2. outages + 1 # None /\ p # None
      BY DEF IInv, TypeOK
    <3> QED
      BY <2>2, <3>1, <3>2 DEF Crash, Published
  <2> QED
    BY <2>1, <2>2
<1>4. ASSUME NEW id \in Ids \ astray'
      PROVE  Exact(id)
  <2>1. CASE pc[p] # "idle"
    BY <1>1, <1>4, <2>1, CutShort
  <2>2. CASE pc[p] = "idle"
    <3>1. Quiescent
      BY <2>2, NobodyWorks DEF IInv, IoError, Crash, Quiescent
    <3> QED
      BY <1>1, <1>4, <3>1 DEF ExactInv
  <2> QED
    BY <2>1, <2>2
<1>5. \A id \in Ids \ astray' : Exact(id)'
  BY <1>1, <1>3, <1>4, ExactStays
<1> QED
  BY <1>2, <1>5, EndKeepsExact

LEMMA ExactInvariance ==
  Spec => []ExactInv
<1>1. Init => ExactInv
  <2> SUFFICES ASSUME Init
               PROVE  ExactInv
    OBVIOUS
  <2>1. \A id \in Ids : Exact(id)
    BY DEF Init, Exact, TimesCounted, Published
  <2> QED
    BY <2>1 DEF Init, ExactInv, Known, PublishedIsWhole
<1>2. IInv /\ ExactInv /\ [Next]_vars => ExactInv'
  <2> SUFFICES ASSUME IInv, ExactInv, [Next]_vars
               PROVE  ExactInv'
    OBVIOUS
  <2>1. PublishedIsWhole'
    BY StaysWhole DEF ExactInv
  <2>2. CASE UNCHANGED vars
    <3>1. \A id : Exact(id) => Exact(id)'
      BY <2>2, SameFiles DEF vars
    <3>2. \A p \in Procs : Known(p)'
      BY <2>2, <3>1 DEF vars, ExactInv, Known, Old, CountsAll, TimesCounted, Published
    <3> QED
      BY <2>1, <2>2, <3>1, <3>2 DEF vars, ExactInv, Quiescent
  <2>3. ASSUME NEW p \in Procs, ImportStep(p)
        PROVE  ExactInv'
    BY <2>1, <2>3, EarlyImportKeepsExact, CreateKeepsExact, WriteKeepsExact, RenameKeepsExact,
       MergeKeepsExact DEF ImportStep
  <2>4. ASSUME NEW p \in Procs, PruneStep(p)
        PROVE  ExactInv'
    BY <2>1, <2>4, ScanKeepsExact, RemoveKeepsExact, ClearKeepsExact, RebuildKeepsExact,
       RepublishKeepsExact DEF PruneStep
  <2> QED
    BY <2>1, <2>2, <2>3, <2>4, StartKeepsExact, FailureKeepsExact DEF Next
<1> QED
  BY <1>1, <1>2, Invariance, PTL DEF Spec

(* Snapshots and batches agree, in whatever order imports, prunes, errors  *)
(* and crashes came: what publish merges and rebuild_revision_snapshots    *)
(* counts is what the directory holds, but for the batches of the calls    *)
(* that were cut short.                                                    *)
THEOREM SnapshotsStayMatched ==
  Spec => []SnapshotsMatchBatches
<1>1. IInv /\ ExactInv => SnapshotsAreExact
  BY NobodyWorks DEF IInv, ExactInv, Quiescent, Exact, SnapshotsAreExact
<1>2. IInv /\ ExactInv => SnapshotsMatchBatches
  BY <1>1 DEF IInv, SnapshotsMatchBatches
<1> QED
  BY <1>2, Invariance, ExactInvariance, PTL

(* A step outside a prune leaves a reader everything it could count: an    *)
(* import replaces the snapshot it read by one with its batch added, and a *)
(* failure replaces none.                                                  *)
THEOREM PruneAloneForgets ==
  Spec => OnlyPruneForgets
<1> DEFINE Quiet == \A p \in Procs : pc[p] \notin Pruning
           Remembered == \A r \in Revs, id \in Ids : Counted(r, id) \subseteq Counted(r, id)'
<1>1. ASSUME IInv, Next, Quiet
      PROVE  Remembered
  <2>1. ASSUME UNCHANGED snaps
        PROVE  Remembered
    BY <2>1 DEF Counted
  <2>2. ASSUME NEW p \in Procs, MergeIntoSnapshot(p)
        PROVE  Remembered
    <3> DEFINE id == op[p].id
               tree == op[p].tree
               rev == Revision[id]
               base == IF op[p].seen = None THEN EmptySnapshot(tree) ELSE op[p].seen
               new == Merged(base, id, tree)
    <3>1. /\ new \in Snapshot
          /\ new.merged = [base.merged EXCEPT ![<<id, tree>>] = @ + 1]
          /\ op[p].seen = snaps[rev]
          /\ base \in Snapshot
          /\ \A k \in Ids \X Trees : base.merged[k] \in Nat
      BY <1>1, <2>2, MergeAddsOne
    <3>2. snaps' = [snaps EXCEPT ![rev] = new]
      BY <2>2 DEF MergeIntoSnapshot
    <3>3. snaps[rev] # None => base = snaps[rev]
      BY <3>1
    <3> HIDE DEF new, base
    <3>4. new # None /\ base.merged \in [Ids \X Trees -> Nat]
      BY <3>1 DEF Snapshot
    <3>5. \A k \in Ids \X Trees : new.merged[k] >= base.merged[k]
      BY <3>1, <3>4
    <3>6. \A r \in Revs : snaps'[r] = IF r = rev THEN new ELSE snaps[r]
      BY <1>1, <3>2 DEF IInv, TypeOK
    <3> SUFFICES ASSUME NEW r \in Revs, NEW i \in Ids, NEW t \in Trees,
                        snaps[r] # None, snaps[r].merged[<<i, t>>] > 0
                 PROVE  snaps'[r] # None /\ snaps'[r].merged[<<i, t>>] > 0
      BY DEF Counted
    <3>7. CASE r # rev
      BY <3>6, <3>7
    <3>8. CASE r = rev
      <4>1. <<i, t>> \in Ids \X Trees /\ base = snaps[rev] /\ base.merged[<<i, t>>] > 0
        BY <3>3, <3>8
      <4>2. new.merged[<<i, t>>] > 0
        <5>1. new.merged[<<i, t>>] \in Nat /\ base.merged[<<i, t>>] \in Nat
          BY <3>1, <4>1 DEF Snapshot
        <5>2. new.merged[<<i, t>>] >= base.merged[<<i, t>>]
          BY <3>5, <4>1
        <5> QED
          BY <4>1, <5>1, <5>2
      <4> QED
        BY <3>4, <3>6, <3>8, <4>2
    <3> QED
      BY <3>7, <3>8
  <2>3. ASSUME NEW p \in Procs, ImportStep(p)
        PROVE  Remembered
    BY <2>1, <2>2, <2>3
    DEF ImportStep, LoadExisting, FindDuplicate, CreateBatch, WriteBatch, RenameBatch
  <2>4. ASSUME NEW p \in Procs, PruneStep(p)
        PROVE  FALSE
    BY <1>1, <2>4 DEF PruneStep, Scan, RemoveBatch, ClearSnapshots, Rebuild, Republish, At, Pruning
  <2> QED
    BY <1>1, <2>1, <2>3, <2>4 DEF Next, StartImport, StartPrune, IoError, Crash
<1>2. IInv /\ [Next]_vars => [Quiet => Remembered]_vars
  BY <1>1
<1> QED
  BY <1>2, Invariance, PTL DEF Spec, OnlyPruneForgets

-----------------------------------------------------------------------------
(* Evidence *)

(* Imports of evidence that can be imported are imports.                   *)
LEMMA EvidenceIsImported ==
  EvidenceSpec => Spec
<1>1. [EvidenceNext]_vars => [Next]_vars
  BY DEF EvidenceNext, ImportEvidence, Next
<1> QED
  BY <1>1, PTL DEF EvidenceSpec, Spec

(* Every edge of a snapshot is that of a resolved call of a batch that it  *)
(* counts.                                                                 *)
LEMMA EdgeHasCall ==
  ASSUME NEW snapshot, NEW k \in EdgesOf(snapshot)
  PROVE  \E c \in ResolvedCalls : snapshot.merged[<<c.id, c.tree>>] > 0 /\ k.edge = c.edge
<1>1. PICK c \in ResolvedCalls :
        /\ Times(snapshot, c) > 0
        /\ \E n : k = [edge |-> c.edge, env |-> c.env, count |-> n]
  BY Zenon DEF EdgesOf
<1>2. PICK n : k = [edge |-> c.edge, env |-> c.env, count |-> n]
  BY <1>1
<1>3. k.edge = c.edge
  BY <1>2
<1> QED
  BY <1>1, <1>3 DEF Times

(* The call is of a graph in which both of its ends resolve.               *)
LEMMA ResolvedCall ==
  ASSUME NEW c \in ResolvedCalls
  PROVE  /\ c.tree \in Trees /\ c.id \in Ids
         /\ c.call \in Kept(c.tree, c.id)
         /\ c.edge = <<NodeOf(c.tree, c.call.caller), NodeOf(c.tree, c.call.callee)>>
  BY DEF ResolvedCalls

(* The candidates of an end are documents of the graph, a finite number.   *)
LEMMA CandidatesAreDocuments ==
  ASSUME NEW tree \in Trees, NEW endpoint
  PROVE  /\ Candidates(tree, endpoint) \subseteq Range(Documents[tree])
         /\ IsFiniteSet(Candidates(tree, endpoint))
<1> DEFINE docs == Range(Documents[tree])
           named == {d \in docs : d.function = endpoint.function}
           alike == {d \in docs : d.function.last = endpoint.function.last}
           here(S) == {d \in S : endpoint.path = d.path}
           exact == {d \in here(named) : endpoint.line \in d.lines}
           kinds == <<exact, here(named), named, here(alike), alike>>
           found == {i \in DOMAIN kinds : kinds[i] # {}}
<1>1. IsFiniteSet(docs)
  <2> DEFINE s == Documents[tree]
  <2>1. DOMAIN s = 1 .. Len(s) /\ Len(s) \in Nat
    BY EvidenceAssumption
  <2>2. [i \in 1 .. Len(s) |-> s[i]] \in Surjection(1 .. Len(s), docs)
    BY <2>1 DEF Surjection, Range
  <2>3. IsFiniteSet(1 .. Len(s))
    BY <2>1, FS_Interval
  <2> QED
    BY <2>2, <2>3, FS_Surjection
<1>2. Candidates(tree, endpoint) = IF found = {} THEN {} ELSE kinds[CHOOSE i \in found : \A j \in found : i <= j]
  BY DEF Candidates
<1>3. exact \subseteq docs /\ here(named) \subseteq docs /\ named \subseteq docs
      /\ here(alike) \subseteq docs /\ alike \subseteq docs
  OBVIOUS
<1>4. DOMAIN kinds = 1 .. 5 /\ \A i \in 1 .. 5 : kinds[i] \subseteq docs
  <2> HIDE DEF exact, named, alike, here, docs
  <2> QED
    BY <1>3
<1> HIDE DEF kinds, docs
<1>5. found \subseteq 1 .. 5
  BY <1>4
<1> HIDE DEF found
<1>6. found # {} => \E i \in found : \A j \in found : i <= j
  <2>1. found \subseteq {1, 2, 3, 4, 5}
    BY <1>5
  <2>2. ASSUME NEW i \in found, \A j \in found : i <= j
        PROVE  \E m \in found : \A j \in found : m <= j
    BY <2>2
  <2>3. CASE 1 \in found
    BY <2>1, <2>2, <2>3
  <2>4. CASE 1 \notin found /\ 2 \in found
    BY <2>1, <2>2, <2>4
  <2>5. CASE found \subseteq {3, 4, 5} /\ 3 \in found
    BY <2>2, <2>5
  <2>6. CASE found \subseteq {4, 5} /\ 4 \in found
    BY <2>2, <2>6
  <2>7. CASE found = {5}
    BY <2>2, <2>7
  <2> QED
    BY <2>1, <2>3, <2>4, <2>5, <2>6, <2>7
<1>7. Candidates(tree, endpoint) \subseteq docs
  <2>1. CASE found = {}
    BY <2>1, <1>2
  <2>2. CASE found # {}
    <3>1. (CHOOSE i \in found : \A j \in found : i <= j) \in found
      BY <2>2, <1>6
    <3> QED
      BY <2>2, <3>1, <1>2, <1>4, <1>5
  <2> QED
    BY <2>1, <2>2
<1>8. IsFiniteSet(Candidates(tree, endpoint))
  BY <1>1, <1>7, FS_Subset
<1> QED
  BY <1>7, <1>8 DEF docs

(* An end that resolves singles out one node.                              *)
LEMMA OneNode ==
  ASSUME NEW tree \in Trees, NEW endpoint, Resolved(tree, endpoint)
  PROVE  /\ {d.node : d \in Candidates(tree, endpoint)} = {NodeOf(tree, endpoint)}
         /\ NodeOf(tree, endpoint) \in Nodes(tree)
<1>1. /\ IsFiniteSet(Candidates(tree, endpoint)) /\ Cardinality(Candidates(tree, endpoint)) = 1
      /\ Candidates(tree, endpoint) \subseteq Range(Documents[tree])
  BY CandidatesAreDocuments DEF Resolved
<1>2. PICK x : Candidates(tree, endpoint) = {x}
  BY <1>1, FS_Singleton
<1>3. NodeOf(tree, endpoint) = x.node /\ x \in Range(Documents[tree])
  BY <1>1, <1>2 DEF NodeOf
<1> QED
  BY <1>2, <1>3 DEF Nodes

(* A call is counted only between the nodes that its names single out in   *)
(* the graph that answers, and only if a batch on disk says so of this     *)
(* graph: load_current_observations and merge_batch refuse any other.      *)
THEOREM CallsStayOfTheGraph ==
  EvidenceSpec => []CallsAreOfTheGraph
<1>1. ASSUME IInv, ~pruned, NEW r \in Revs, NEW t \in Trees, NEW k \in Observed(t, r)
      PROVE  \E f \in files :
               /\ f.tree = t
               /\ Revision[f.id] = r
               /\ \E c \in Normalized(f.id) :
                    /\ {d.node : d \in Candidates(t, c.caller)} = {k.edge[1]}
                    /\ {d.node : d \in Candidates(t, c.callee)} = {k.edge[2]}
  <2>1. snaps[r] # None /\ snaps[r].tree = t /\ k \in EdgesOf(snaps[r])
    BY <1>1 DEF Observed
  <2>2. PICK c \in ResolvedCalls : snaps[r].merged[<<c.id, c.tree>>] > 0 /\ k.edge = c.edge
    BY <2>1, EdgeHasCall
  <2>3. /\ c.tree \in Trees /\ c.id \in Ids
        /\ c.call \in Kept(c.tree, c.id)
        /\ c.edge = <<NodeOf(c.tree, c.call.caller), NodeOf(c.tree, c.call.callee)>>
    BY ResolvedCall
  <2>4. c.tree = t
    BY <1>1, <2>1, <2>2, <2>3 DEF IInv, OneTreePerSnapshot, Counted
  <2>5. Revision[c.id] = r /\ \E f \in Published(c.id) : f.tree = t
    BY <1>1, <2>1, <2>2, <2>3, <2>4 DEF IInv, CountsOnlyKeptBatches
  <2>6. PICK f \in files : f.id = c.id /\ f.tree = t
    BY <2>5 DEF Published
  <2>7. c.call \in Normalized(f.id) /\ Resolved(t, c.call.caller) /\ Resolved(t, c.call.callee)
    BY <2>3, <2>4, <2>6 DEF Kept
  <2>8. k.edge[1] = NodeOf(t, c.call.caller) /\ k.edge[2] = NodeOf(t, c.call.callee)
    BY <2>2, <2>3, <2>4
  <2>9. /\ {d.node : d \in Candidates(t, c.call.caller)} = {k.edge[1]}
        /\ {d.node : d \in Candidates(t, c.call.callee)} = {k.edge[2]}
    BY <2>7, <2>8, OneNode
  <2> QED
    BY <2>5, <2>6, <2>7, <2>9
<1>2. IInv => CallsAreOfTheGraph
  BY <1>1 DEF CallsAreOfTheGraph
<1> QED
  BY <1>2, EvidenceIsImported, Invariance, PTL

-----------------------------------------------------------------------------
(* Sums *)

IsCounting(f) == IsFiniteSet(DOMAIN f) /\ \A x \in DOMAIN f : f[x] \in Nat

LEMMA UnitIn ==
  ASSUME NEW f, NEW u
  PROVE  u \in Units(f) <=> \E x \in DOMAIN f : \E n \in 1 .. f[x] : u = <<x, n>>
<1>1. u \in Units(f) <=> \E T \in {{<<x, n>> : n \in 1 .. f[x]} : x \in DOMAIN f} : u \in T
  BY ONLY DEF Units
<1>2. @ <=> \E x \in DOMAIN f : u \in {<<x, n>> : n \in 1 .. f[x]}
  BY ONLY Zenon
<1> QED
  BY ONLY <1>1, <1>2

(* There are finitely many units of finitely many numbers.                 *)
LEMMA UnitsAreFinite ==
  ASSUME NEW f, IsCounting(f)
  PROVE  IsFiniteSet(Units(f)) /\ SumOf(f) \in Nat
<1> DEFINE units(x) == {<<x, n>> : n \in 1 .. f[x]}
           all == {units(x) : x \in DOMAIN f}
<1>1. ASSUME NEW x \in DOMAIN f
      PROVE  IsFiniteSet(units(x))
  <2>1. [n \in 1 .. f[x] |-> <<x, n>>] \in Surjection(1 .. f[x], units(x))
    BY DEF Surjection
  <2>2. IsFiniteSet(1 .. f[x])
    BY FS_Interval DEF IsCounting
  <2> QED
    BY ONLY <2>1, <2>2, FS_Surjection
<1>2. [x \in DOMAIN f |-> units(x)] \in Surjection(DOMAIN f, all)
  <2> HIDE DEF units
  <2> QED
    BY DEF Surjection
<1>3. IsFiniteSet(all)
  BY ONLY <1>2, FS_Surjection, IsCounting(f) DEF IsCounting
<1>4. IsFiniteSet(UNION all)
  <2>1. \A T \in all : IsFiniteSet(T)
    BY <1>1, Zenon
  <2> HIDE DEF all
  <2> QED
    BY ONLY <1>3, <2>1, FS_UNION
<1>5. Units(f) = UNION all
  BY Zenon DEF Units
<1> QED
  BY <1>4, <1>5, FS_CardinalityType DEF SumOf

(* The sum of the sums of disjoint parts is the sum of the whole: the n-th *)
(* unit of part x is the n-th of the units of x in some order of them.     *)
LEMMA PartsAddUp ==
  ASSUME NEW g, IsCounting(g),
         NEW I, NEW part \in [I -> SUBSET DOMAIN g],
         \A c \in DOMAIN g : \E x \in I : c \in part[x],
         \A x, y \in I : \A c \in part[x] \cap part[y] : x = y
  PROVE  SumOf([x \in I |-> SumOf([c \in part[x] |-> g[c]])]) = SumOf(g)
<1> DEFINE of(x) == [c \in part[x] |-> g[c]]
           sums == [x \in I |-> SumOf(of(x))]
           order == [x \in I |-> CHOOSE b : b \in Bijection(1 .. SumOf(of(x)), Units(of(x)))]
           unit == [u \in Units(sums) |-> order[u[1]][u[2]]]
<1>1. ASSUME NEW x \in I
      PROVE  /\ SumOf(of(x)) \in Nat
             /\ order[x] \in Bijection(1 .. SumOf(of(x)), Units(of(x)))
  <2>1. IsFiniteSet(part[x])
    BY FS_Subset DEF IsCounting
  <2>2. IsCounting(of(x))
    BY <2>1 DEF IsCounting
  <2> HIDE DEF of
  <2>3. IsFiniteSet(Units(of(x))) /\ SumOf(of(x)) \in Nat
    BY ONLY <2>2, UnitsAreFinite
  <2>4. ExistsBijection(1 .. SumOf(of(x)), Units(of(x)))
    BY ONLY <2>3, FS_CardinalityType DEF SumOf
  <2> QED
    BY ONLY <2>3, <2>4, x \in I, Zenon DEF ExistsBijection
<1>2. \A x \in I : \A u : u \in Units(of(x)) <=> u \in Units(g) /\ u[1] \in part[x]
  <2> SUFFICES ASSUME NEW x \in I, NEW u
               PROVE  u \in Units(of(x)) <=> u \in Units(g) /\ u[1] \in part[x]
    OBVIOUS
  <2>1. DOMAIN of(x) = part[x] /\ \A c \in part[x] : c \in DOMAIN g /\ of(x)[c] = g[c]
    OBVIOUS
  <2> HIDE DEF of
  <2>2. ASSUME u \in Units(of(x))
        PROVE  u \in Units(g) /\ u[1] \in part[x]
    <3>1. PICK c \in part[x] : \E n \in 1 .. g[c] : u = <<c, n>>
      BY <2>1, <2>2, UnitIn
    <3> QED
      BY <2>1, <3>1, UnitIn
  <2>3. ASSUME u \in Units(g), u[1] \in part[x]
        PROVE  u \in Units(of(x))
    <3>1. PICK c \in DOMAIN g : \E n \in 1 .. g[c] : u = <<c, n>>
      BY <2>3, UnitIn
    <3>2. c \in part[x]
      BY <2>3, <3>1
    <3> QED
      BY <2>1, <3>1, <3>2, UnitIn
  <2> QED
    BY <2>2, <2>3
<1>3. \A u \in Units(sums) : u[1] \in I /\ u[2] \in 1 .. SumOf(of(u[1])) /\ u = <<u[1], u[2]>>
  <2> HIDE DEF of
  <2> TAKE u \in Units(sums)
  <2>1. PICK x \in DOMAIN sums : \E n \in 1 .. sums[x] : u = <<x, n>>
    BY UnitIn
  <2> QED
    BY <2>1
<1>4. \A x \in I : \A n \in 1 .. SumOf(of(x)) : <<x, n>> \in Units(sums)
  <2> HIDE DEF of
  <2>1. DOMAIN sums = I /\ \A x \in I : sums[x] = SumOf(of(x))
    OBVIOUS
  <2> HIDE DEF sums
  <2> QED
    BY ONLY <2>1, UnitIn
<1>5. unit \in Bijection(Units(sums), Units(g))
  <2> HIDE DEF of, sums, order
  <2>1. ASSUME NEW u \in Units(sums)
        PROVE  unit[u] \in Units(g) /\ unit[u][1] \in part[u[1]]
    <3>1. order[u[1]][u[2]] \in Units(of(u[1]))
      BY <1>1, <1>3, Fun_BijectionProperties
    <3> QED
      BY <1>2, <1>3, <3>1
  <2>2. ASSUME NEW u \in Units(sums), NEW v \in Units(sums), unit[u] = unit[v]
        PROVE  u = v
    <3>1. u[1] = v[1]
      BY <1>3, <2>1, <2>2
    <3>2. order[u[1]][u[2]] = order[u[1]][v[2]]
      BY <2>2, <3>1
    <3>3. u[2] = v[2]
      BY <1>1, <1>3, <3>1, <3>2, Fun_BijectionProperties
    <3> QED
      BY <1>3, <3>1, <3>3
  <2>3. ASSUME NEW v \in Units(g)
        PROVE  \E u \in Units(sums) : unit[u] = v
    <3>1. v[1] \in DOMAIN g
      BY UnitIn
    <3>2. PICK x \in I : v[1] \in part[x]
      BY <3>1
    <3>3. v \in Units(of(x))
      BY <1>2, <3>2
    <3>4. PICK n \in 1 .. SumOf(of(x)) : order[x][n] = v
      <4>1. order[x] \in Bijection(1 .. SumOf(of(x)), Units(of(x)))
        BY <1>1
      <4>2. \A w \in Units(of(x)) : \E n \in 1 .. SumOf(of(x)) : order[x][n] = w
        BY ONLY <4>1 DEF Bijection, Surjection
      <4> QED
        BY ONLY <3>3, <4>2
    <3>5. <<x, n>> \in Units(sums)
      BY <1>4
    <3> QED
      BY <3>4, <3>5
  <2> QED
    BY <2>1, <2>2, <2>3, Fun_IsBij
<1>6. IsFiniteSet(Units(g))
  BY UnitsAreFinite
<1> HIDE DEF unit, sums
<1>7. ExistsBijection(Units(g), Units(sums))
  BY ONLY <1>5, Fun_ExistsBijSymmetric, Zenon DEF ExistsBijection
<1>8. Cardinality(Units(sums)) = Cardinality(Units(g))
  BY ONLY <1>6, <1>7, FS_Bijection
<1> QED
  BY ONLY <1>8 DEF SumOf, sums, of

(* Records that have a count each, finitely many.                          *)
Countable(S) == IsFiniteSet(S) /\ \A c \in S : c.count \in Nat

LEMMA TotalIsNumber ==
  ASSUME NEW S, Countable(S)
  PROVE  Total(S) \in Nat
<1> DEFINE f == [c \in S |-> c.count]
<1>1. IsCounting(f)
  BY DEF Countable, IsCounting
<1> HIDE DEF f
<1>2. SumOf(f) \in Nat
  BY ONLY <1>1, UnitsAreFinite
<1> QED
  BY <1>2 DEF Total, f

LEMMA SubsetCountable ==
  ASSUME NEW S, Countable(S), NEW T \in SUBSET S
  PROVE  Countable(T)
  BY FS_Subset DEF Countable

(* The totals of disjoint parts add up to the total of the whole.          *)
LEMMA TotalsAddUp ==
  ASSUME NEW S, Countable(S),
         NEW I, NEW part \in [I -> SUBSET S],
         \A c \in S : \E x \in I : c \in part[x],
         \A x, y \in I : \A c \in part[x] \cap part[y] : x = y
  PROVE  SumOf([x \in I |-> Total(part[x])]) = Total(S)
<1> DEFINE g == [c \in S |-> c.count]
<1>1. IsCounting(g) /\ DOMAIN g = S
  BY DEF Countable, IsCounting
<1>2. \A x \in I : Total(part[x]) = SumOf([c \in part[x] |-> g[c]])
  <2> TAKE x \in I
  <2>1. [c \in part[x] |-> g[c]] = [c \in part[x] |-> c.count]
    OBVIOUS
  <2> QED
    BY ONLY <2>1 DEF Total
<1> HIDE DEF g
<1>3. SumOf([x \in I |-> SumOf([c \in part[x] |-> g[c]])]) = SumOf(g)
  BY <1>1, PartsAddUp
<1>4. [x \in I |-> SumOf([c \in part[x] |-> g[c]])] = [x \in I |-> Total(part[x])]
  BY <1>2
<1> QED
  BY ONLY <1>3, <1>4 DEF g, Total

-----------------------------------------------------------------------------
(* What a trace file adds *)

LEMMA CallsAreCounted ==
  ASSUME NEW id \in Ids
  PROVE  Countable(CallsOf(id))
<1>1. CASE "spans" \in DOMAIN Input[id]
  <2> DEFINE spans == Input[id].spans
             parents(s) == {i \in DOMAIN spans : spans[i].span = s.parent}
             last(s) == CHOOSE i \in parents(s) : \A j \in parents(s) : j <= i
             callees == {i \in DOMAIN spans : spans[i].parent # None /\ parents(spans[i]) # {}}
             call(i) == [caller |-> spans[last(spans[i])].endpoint, callee |-> spans[i].endpoint,
                         row |-> i, count |-> 1]
  <2>1. CallsOf(id) = {call(i) : i \in callees}
    BY <1>1 DEF CallsOf, CallsOfSpans
  <2>2. Len(spans) \in Nat /\ DOMAIN spans = 1 .. Len(spans)
    BY <1>1, InputAssumption
  <2>3. IsFiniteSet(callees)
    <3>1. IsFiniteSet(DOMAIN spans)
      BY ONLY <2>2, FS_Interval
    <3> QED
      BY ONLY <3>1, FS_Subset
  <2>4. \A i \in callees : call(i).count = 1
    OBVIOUS
  <2> HIDE DEF callees, call
  <2>5. [i \in callees |-> call(i)] \in Surjection(callees, CallsOf(id))
    BY <2>1 DEF Surjection
  <2> QED
    BY <2>1, <2>3, <2>4, <2>5, FS_Surjection DEF Countable
<1>2. CASE "spans" \notin DOMAIN Input[id]
  <2> DEFINE rows == Input[id].rows
             call(i) == [caller |-> rows[i].caller, callee |-> rows[i].callee, row |-> i,
                         count |-> rows[i].count]
  <2>1. CallsOf(id) = {call(i) : i \in DOMAIN rows}
    BY <1>2 DEF CallsOf, CallsOfRows
  <2>2. Len(rows) \in Nat /\ DOMAIN rows = 1 .. Len(rows)
    BY <1>2, InputAssumption
  <2>3. IsFiniteSet(DOMAIN rows)
    BY ONLY <2>2, FS_Interval
  <2>4. \A i \in DOMAIN rows : call(i).count \in Nat
    BY <1>2, InputAssumption DEF Range
  <2> HIDE DEF rows, call
  <2>5. [i \in DOMAIN rows |-> call(i)] \in Surjection(DOMAIN rows, CallsOf(id))
    BY <2>1 DEF Surjection
  <2> QED
    BY <2>1, <2>3, <2>4, <2>5, FS_Surjection DEF Countable
<1> QED
  BY <1>1, <1>2

LEMMA NormalizedAreCounted ==
  ASSUME NEW id \in Ids
  PROVE  Countable(Normalized(id))
<1> DEFINE calls == CallsOf(id)
           like(c) == {d \in calls : d.caller = c.caller /\ d.callee = c.callee}
           one(c) == [caller |-> c.caller, callee |-> c.callee, count |-> Total(like(c))]
<1>1. Countable(calls)
  BY CallsAreCounted
<1>2. Normalized(id) = {one(c) : c \in calls}
  BY DEF Normalized
<1> HIDE DEF calls
<1>3. \A c \in calls : Total(like(c)) \in Nat
  BY <1>1, SubsetCountable, TotalIsNumber
<1>4. \A c \in calls : one(c).count \in Nat
  BY <1>3
<1> HIDE DEF one
<1>5. [c \in calls |-> one(c)] \in Surjection(calls, Normalized(id))
  BY <1>2 DEF Surjection
<1> QED
  BY <1>1, <1>2, <1>4, <1>5, FS_Surjection DEF Countable

(* The calls of one batch that resolve in one graph.                       *)
ResolvedIn(tree, id) ==
  {[tree |-> tree, id |-> id, call |-> c, env |-> Environment[id], count |-> c.count,
    edge |-> <<NodeOf(tree, c.caller), NodeOf(tree, c.callee)>>] : c \in Kept(tree, id)}

LEMMA ResolvedCallsAre ==
  ASSUME NEW c
  PROVE  c \in ResolvedCalls <=> \E tree \in Trees : \E id \in Ids : c \in ResolvedIn(tree, id)
<1> DEFINE of(tree) == UNION {ResolvedIn(tree, id) : id \in Ids}
<1>1. ResolvedCalls = UNION {of(tree) : tree \in Trees}
  BY DEF ResolvedCalls, ResolvedIn
<1>2. \A tree \in Trees : c \in of(tree) <=> \E id \in Ids : c \in ResolvedIn(tree, id)
  OBVIOUS
<1> HIDE DEF of
<1>3. c \in ResolvedCalls <=> \E tree \in Trees : c \in of(tree)
  BY ONLY <1>1
<1> QED
  BY ONLY <1>2, <1>3

LEMMA ResolvedAreCounted ==
  ASSUME NEW tree \in Trees, NEW id \in Ids
  PROVE  /\ Countable(ResolvedIn(tree, id))
         /\ \A c \in ResolvedIn(tree, id) :
              c.tree = tree /\ c.id = id /\ c.edge \in Nodes(tree) \X Nodes(tree)
<1> DEFINE resolved(c) ==
      [tree |-> tree, id |-> id, call |-> c, env |-> Environment[id], count |-> c.count,
       edge |-> <<NodeOf(tree, c.caller), NodeOf(tree, c.callee)>>]
<1>1. Countable(Kept(tree, id))
  BY NormalizedAreCounted, SubsetCountable DEF Kept
<1>2. \A c \in Kept(tree, id) : NodeOf(tree, c.caller) \in Nodes(tree) /\ NodeOf(tree, c.callee) \in Nodes(tree)
  BY OneNode DEF Kept
<1>3. ResolvedIn(tree, id) = {resolved(c) : c \in Kept(tree, id)}
  BY DEF ResolvedIn
<1>4. \A c \in Kept(tree, id) : /\ resolved(c).tree = tree /\ resolved(c).id = id
                               /\ resolved(c).edge \in Nodes(tree) \X Nodes(tree)
                               /\ resolved(c).count = c.count
  BY <1>2
<1> HIDE DEF resolved
<1>5. [c \in Kept(tree, id) |-> resolved(c)] \in Surjection(Kept(tree, id), ResolvedIn(tree, id))
  BY <1>3 DEF Surjection
<1>6. IsFiniteSet(ResolvedIn(tree, id))
  BY <1>1, <1>5, FS_Surjection DEF Countable
<1> QED
  BY <1>1, <1>3, <1>4, <1>6 DEF Countable

-----------------------------------------------------------------------------
(* What is told of edges and of nodes *)

(* What the calls S tell of their edges, for each environment.             *)
Edges(S) ==
  {[edge |-> c.edge, env |-> c.env, count |-> Total({d \in S : d.edge = c.edge /\ d.env = c.env})] : c \in S}

LEMMA EdgesAddUp ==
  ASSUME NEW S, Countable(S)
  PROVE  /\ Countable(Edges(S))
         /\ {k.edge : k \in Edges(S)} = {c.edge : c \in S}
         /\ \A e : Count(Edges(S), e) = Total({c \in S : c.edge = e})
<1> DEFINE like(c) == {d \in S : d.edge = c.edge /\ d.env = c.env}
           row(c) == [edge |-> c.edge, env |-> c.env, count |-> Total(like(c))]
<1>1. Edges(S) = {row(c) : c \in S}
  BY DEF Edges
<1>2. \A c \in S : Total(like(c)) \in Nat
  BY SubsetCountable, TotalIsNumber
<1>3. \A c \in S : /\ row(c).edge = c.edge /\ row(c).env = c.env /\ row(c).count \in Nat
                  /\ row(c).count = Total(like(c))
  BY <1>2
<1>4. \A c, d \in S : c.edge = d.edge /\ c.env = d.env => row(c) = row(d)
  OBVIOUS
<1> HIDE DEF row
<1>5. [c \in S |-> row(c)] \in Surjection(S, Edges(S))
  BY <1>1 DEF Surjection
<1>6. Countable(Edges(S))
  <2>1. IsFiniteSet(Edges(S))
    BY <1>5, FS_Surjection DEF Countable
  <2> QED
    BY <2>1, <1>1, <1>3 DEF Countable
<1>7. {k.edge : k \in Edges(S)} = {c.edge : c \in S}
  <2>1. \A c \in S : row(c).edge = c.edge
    BY <1>3
  <2> QED
    BY ONLY <1>1, <2>1
<1>8. ASSUME NEW e
      PROVE  Count(Edges(S), e) = Total({c \in S : c.edge = e})
  <2> DEFINE K == {k \in Edges(S) : k.edge = e}
             T == {c \in S : c.edge = e}
             part == [k \in K |-> {d \in S : d.edge = k.edge /\ d.env = k.env}]
  <2>1. Countable(T)
    BY SubsetCountable
  <2>2. part \in [K -> SUBSET T]
    OBVIOUS
  <2>3. ASSUME NEW c \in T
        PROVE  \E k \in K : c \in part[k]
    <3>1. c \in S /\ c.edge = e
      OBVIOUS
    <3>2. row(c) \in Edges(S)
      BY <1>1, <3>1
    <3>3. row(c).edge = c.edge /\ row(c).env = c.env
      BY <1>3, <3>1
    <3> QED
      BY <3>1, <3>2, <3>3
  <2>4. ASSUME NEW k \in K, NEW l \in K, NEW c \in part[k] \cap part[l]
        PROVE  k = l
    <3>1. PICK a \in S : k = row(a)
      BY <1>1
    <3>2. PICK b \in S : l = row(b)
      BY <1>1
    <3>3. a.edge = b.edge /\ a.env = b.env
      BY <1>3, <3>1, <3>2
    <3> QED
      BY <1>4, <3>1, <3>2, <3>3
  <2>5. \A k \in K : Total(part[k]) = k.count
    <3> TAKE k \in K
    <3>1. PICK a \in S : k = row(a)
      BY <1>1
    <3>2. part[k] = like(a)
      BY <1>3, <3>1
    <3> QED
      BY <1>3, <3>1, <3>2
  <2>6. Count(Edges(S), e) = SumOf([k \in K |-> k.count])
    BY DEF Count, Total
  <2> HIDE DEF K, T, part
  <2>7. SumOf([k \in K |-> Total(part[k])]) = Total(T)
    BY ONLY <2>1, <2>2, <2>3, <2>4, TotalsAddUp
  <2>8. [k \in K |-> Total(part[k])] = [k \in K |-> k.count]
    BY <2>5
  <2> QED
    BY ONLY <2>6, <2>7, <2>8 DEF T
<1> QED
  BY <1>6, <1>7, <1>8

(* What is told of the edges of E adds up to what is told over them.       *)
LEMMA CountsAddUp ==
  ASSUME NEW K, Countable(K), NEW E
  PROVE  Total({k \in K : k.edge \in E}) = SumOf([e \in E |-> Count(K, e)])
<1> DEFINE S == {k \in K : k.edge \in E}
           part == [e \in E |-> {k \in K : k.edge = e}]
<1>1. Countable(S)
  BY SubsetCountable
<1>2. part \in [E -> SUBSET S]
  OBVIOUS
<1>3. /\ \A k \in S : \E e \in E : k \in part[e]
      /\ \A e, f \in E : \A k \in part[e] \cap part[f] : e = f
  OBVIOUS
<1>4. [e \in E |-> Count(K, e)] = [e \in E |-> Total(part[e])]
  BY DEF Count
<1> HIDE DEF S, part
<1>5. SumOf([e \in E |-> Total(part[e])]) = Total(S)
  BY ONLY <1>1, <1>2, <1>3, TotalsAddUp
<1> QED
  BY ONLY <1>4, <1>5 DEF S

(* What is told of a node adds up to what is told of its edges.            *)
OfItsEdges(tree, K, n) ==
  /\ Insight(tree, K, n).node = n
  /\ Insight(tree, K, n).count
       = SumOf([e \in Nodes(tree) \X {n} |-> Count(K, e)])
           + SumOf([e \in {n} \X Nodes(tree) |-> Count(K, e)])

LEMMA InsightAddsUp ==
  ASSUME NEW tree, NEW K, Countable(K), \A k \in K : k.edge \in Nodes(tree) \X Nodes(tree),
         NEW n \in Nodes(tree)
  PROVE  OfItsEdges(tree, K, n)
<1>1. /\ Insight(tree, K, n).node = n
      /\ Insight(tree, K, n).count = Total({k \in K : k.edge[2] = n}) + Total({k \in K : k.edge[1] = n})
  BY DEF Insight
<1>2. /\ {k \in K : k.edge[2] = n} = {k \in K : k.edge \in Nodes(tree) \X {n}}
      /\ {k \in K : k.edge[1] = n} = {k \in K : k.edge \in {n} \X Nodes(tree)}
  OBVIOUS
<1>3. /\ Total({k \in K : k.edge \in Nodes(tree) \X {n}}) = SumOf([e \in Nodes(tree) \X {n} |-> Count(K, e)])
      /\ Total({k \in K : k.edge \in {n} \X Nodes(tree)}) = SumOf([e \in {n} \X Nodes(tree) |-> Count(K, e)])
  BY CountsAddUp
<1> QED
  BY ONLY <1>1, <1>2, <1>3 DEF OfItsEdges

-----------------------------------------------------------------------------
(* What a snapshot tells of the batches on disk *)

LEMMA CountedOnce ==
  ASSUME IInv, PublishedIsWhole, outages = 0, LockIsFree,
         NEW r \in Revs, snaps[r] # None, NEW id \in Ids, NEW t \in Trees
  PROVE  snaps[r].merged[<<id, t>>]
           = IF Revision[id] = r /\ \E f \in files : f.id = id /\ f.tree = t THEN 1 ELSE 0
<1> DEFINE X == {f \in files : Revision[f.id] = r /\ f.id = id /\ f.tree = t}
           file == [id |-> id, pid |-> None, tree |-> t, whole |-> TRUE]
<1>1. Whole(files)
  BY DEF IInv, UndisturbedInv
<1>2. snaps[r].merged[<<id, t>>] = Cardinality(X)
  <2>1. snaps[r].merged = CountedOnRebuild(files, r)
    BY <1>1 DEF Whole, CountsAll
  <2>2. <<id, t>> \in Ids \X Trees /\ <<id, t>>[1] = id /\ <<id, t>>[2] = t
    OBVIOUS
  <2> QED
    BY <2>1, <2>2 DEF CountedOnRebuild
<1>3. \A f \in X : f = file
  BY <1>1 DEF Whole, PublishedIsWhole, IInv, TypeOK, File
<1>4. CASE X = {}
  BY <1>2, <1>4, FS_EmptySet
<1>5. CASE X # {}
  <2>1. X = {file}
    BY <1>3, <1>5
  <2> HIDE DEF file
  <2>2. Cardinality(X) = 1
    BY ONLY <2>1, FS_Singleton
  <2> QED
    BY <1>2, <1>5, <2>2
<1> QED
  BY <1>4, <1>5

(* The calls of the batches of a revision on disk that were resolved       *)
(* against a graph.                                                        *)
Stored(t, r) ==
  {c \in ResolvedCalls : c.tree = t /\ (\E f \in files : f.id = c.id /\ f.tree = t) /\ Revision[c.id] = r}

LEMMA StoredIsCounted ==
  ASSUME IInv, NEW r \in Revs, NEW t \in Trees
  PROVE  /\ Countable(Stored(t, r))
         /\ \A c \in Stored(t, r) : c.edge \in Nodes(t) \X Nodes(t)
<1> DEFINE calls(f) == ResolvedIn(t, f.id)
           all == {calls(f) : f \in files}
<1>1. \A f \in files : f.id \in Ids
  BY DEF IInv, TypeOK, File
<1>2. \A f \in files : /\ Countable(calls(f))
                      /\ \A c \in calls(f) : c.edge \in Nodes(t) \X Nodes(t)
  BY <1>1, ResolvedAreCounted
<1>3. ASSUME NEW c \in Stored(t, r)
      PROVE  \E f \in files : c \in calls(f)
  <2>1. PICK tree \in Trees : \E id \in Ids : c \in ResolvedIn(tree, id)
    BY ResolvedCallsAre DEF Stored
  <2>2. PICK id \in Ids : c \in ResolvedIn(tree, id)
    BY <2>1
  <2>3. c.tree = tree /\ c.id = id
    BY <2>2, ResolvedAreCounted
  <2> QED
    BY <2>2, <2>3 DEF Stored
<1> HIDE DEF calls
<1>4. [f \in files |-> calls(f)] \in Surjection(files, all)
  BY DEF Surjection
<1>5. IsFiniteSet(all)
  BY <1>4, FS_Surjection DEF IInv, FilesInv
<1>6. IsFiniteSet(UNION all)
  <2>1. \A T \in all : IsFiniteSet(T)
    BY <1>2 DEF Countable
  <2> HIDE DEF all
  <2> QED
    BY ONLY <1>5, <2>1, FS_UNION
<1>7. Stored(t, r) \subseteq UNION all
  BY <1>3
<1> HIDE DEF all
<1>8. IsFiniteSet(Stored(t, r))
  BY ONLY <1>6, <1>7, FS_Subset
<1> QED
  BY <1>2, <1>3, <1>8 DEF Countable

LEMMA StoredIsObserved ==
  ASSUME IInv, PublishedIsWhole, outages = 0, LockIsFree, NEW r \in Revs, NEW t \in Trees
  PROVE  Observed(t, r) = Edges(Stored(t, r))
<1>1. \A c \in ResolvedCalls : c.tree \in Trees /\ c.id \in Ids
  BY ResolvedCall
<1>2. CASE snaps[r] = None
  <2>1. \A f \in files : Revision[f.id] # r
    BY <1>2 DEF IInv, UndisturbedInv, Whole, CountsAll
  <2>2. Stored(t, r) = {}
    BY <2>1 DEF Stored
  <2> QED
    BY <1>2, <2>2 DEF Observed, Edges
<1>3. CASE snaps[r] # None /\ snaps[r].tree # t
  <2>1. ASSUME NEW c \in Stored(t, r)
        PROVE  FALSE
    <3>1. c.id \in Ids /\ Revision[c.id] = r /\ \E f \in files : f.id = c.id /\ f.tree = t
      BY <1>1 DEF Stored
    <3>2. snaps[r].merged[<<c.id, t>>] = 1
      BY <1>3, <3>1, CountedOnce
    <3> QED
      BY <1>3, <3>1, <3>2 DEF IInv, OneTreePerSnapshot, Counted
  <2>2. Stored(t, r) = {}
    BY <2>1
  <2> QED
    BY <1>3, <2>2 DEF Observed, Edges
<1>4. CASE snaps[r] # None /\ snaps[r].tree = t
  <2> DEFINE counted == {c \in ResolvedCalls : Times(snaps[r], c) > 0}
  <2>1. \A c \in ResolvedCalls :
          Times(snaps[r], c) = IF Revision[c.id] = r /\ \E f \in files : f.id = c.id /\ f.tree = c.tree
                               THEN 1 ELSE 0
    BY <1>1, <1>4, CountedOnce DEF Times
  <2>2. ASSUME NEW c \in ResolvedCalls, Times(snaps[r], c) > 0
        PROVE  c.tree = t
    BY <1>1, <1>4, <2>2 DEF Times, IInv, OneTreePerSnapshot, Counted
  <2>3. counted = Stored(t, r)
    BY <2>1, <2>2 DEF Stored
  <2>4. \A c \in Stored(t, r) : Times(snaps[r], c) = 1 /\ c.count \in Nat
    <3>1. \A c \in Stored(t, r) : c.count \in Nat
      BY StoredIsCounted DEF Countable
    <3> QED
      BY <2>1, <3>1 DEF Stored
  <2>5. ASSUME NEW S \in SUBSET Stored(t, r)
        PROVE  Added(snaps[r], S) = Total(S)
    <3>1. \A c \in S : Times(snaps[r], c) * c.count = c.count
      BY <2>4
    <3>2. [c \in S |-> Times(snaps[r], c) * c.count] = [c \in S |-> c.count]
      BY <3>1
    <3> QED
      BY ONLY <3>2 DEF Added, Total
  <2> DEFINE S == Stored(t, r)
             like(c) == {d \in S : d.edge = c.edge /\ d.env = c.env}
  <2>6. EdgesOf(snaps[r])
          = {[edge |-> c.edge, env |-> c.env, count |-> Added(snaps[r], like(c))] : c \in S}
    BY <2>3 DEF EdgesOf
  <2>7. Edges(S) = {[edge |-> c.edge, env |-> c.env, count |-> Total(like(c))] : c \in S}
    BY DEF Edges
  <2>8. \A c \in S : Added(snaps[r], like(c)) = Total(like(c))
    BY <2>5
  <2> HIDE DEF S, like
  <2>9. EdgesOf(snaps[r]) = Edges(S)
    BY ONLY <2>6, <2>7, <2>8
  <2> QED
    BY <1>4, <2>9 DEF Observed, S
<1> QED
  BY <1>2, <1>3, <1>4

(* What traces and insights count is what the trace files on disk told of  *)
(* this graph, no call lost, counted twice or put to another edge, however *)
(* imports and prunes came: merge_batch and rebuild_revision_snapshots add *)
(* up by environment, trace_path by edge and runtime_insights by node.     *)
THEOREM EvidenceStaysAddedUp ==
  EvidenceSpec => []EvidenceAddsUp
<1>1. ASSUME IInv, PublishedIsWhole, outages = 0, LockIsFree, NEW r \in Revs, NEW t \in Trees
      PROVE  LET observed == Observed(t, r)
                 stored == Stored(t, r)
                 rows == Insights(t, observed)
                 traced(S) == SumOf([e \in S |-> Count(observed, e)])
             IN
             /\ \A e \in Nodes(t) \X Nodes(t) : Count(observed, e) = Total({c \in stored : c.edge = e})
             /\ {row.node : row \in rows} = UNION {Range(c.edge) : c \in stored}
             /\ \A row \in rows :
                  row.count = traced(Nodes(t) \X {row.node}) + traced({row.node} \X Nodes(t))
  <2> DEFINE observed == Observed(t, r)
             stored == Stored(t, r)
             told == {m \in Nodes(t) : \E k \in observed : m \in Range(k.edge)}
  <2>1. Countable(stored) /\ \A c \in stored : c.edge \in Nodes(t) \X Nodes(t)
    BY <1>1, StoredIsCounted
  <2>2. observed = Edges(stored)
    BY <1>1, StoredIsObserved
  <2>3. Insights(t, observed) = {Insight(t, observed, n) : n \in told}
    BY DEF Insights
  <2> HIDE DEF stored, observed
  <2>4. /\ Countable(observed)
        /\ {k.edge : k \in observed} = {c.edge : c \in stored}
        /\ \A e : Count(observed, e) = Total({c \in stored : c.edge = e})
    <3>1. /\ Countable(Edges(stored))
          /\ {k.edge : k \in Edges(stored)} = {c.edge : c \in stored}
          /\ \A e : Count(Edges(stored), e) = Total({c \in stored : c.edge = e})
      BY ONLY <2>1, EdgesAddUp
    <3> QED
      BY ONLY <2>2, <3>1
  <2>5. \A k \in observed : k.edge \in Nodes(t) \X Nodes(t)
    BY <2>1, <2>4
  <2>6. \A n \in told :
          /\ Insight(t, observed, n).node = n
          /\ Insight(t, observed, n).count
               = SumOf([e \in Nodes(t) \X {n} |-> Count(observed, e)])
                   + SumOf([e \in {n} \X Nodes(t) |-> Count(observed, e)])
    <3>1. told \subseteq Nodes(t)
      OBVIOUS
    <3> HIDE DEF told
    <3>2. \A n \in told : OfItsEdges(t, observed, n)
      BY ONLY <2>4, <2>5, <3>1, InsightAddsUp
    <3> QED
      BY ONLY <3>2 DEF OfItsEdges
  <2>7. told = UNION {Range(c.edge) : c \in stored}
    <3>1. \A k \in observed : Range(k.edge) \subseteq Nodes(t)
      BY <2>5 DEF Range
    <3>2. \A m : m \in told <=> \E k \in observed : m \in Range(k.edge)
      BY <3>1
    <3>3. \A m : (\E k \in observed : m \in Range(k.edge)) <=> \E c \in stored : m \in Range(c.edge)
      BY <2>4
    <3> QED
      BY <3>2, <3>3
  <2> DEFINE row(n) == Insight(t, observed, n)
             sum(n) == SumOf([e \in Nodes(t) \X {n} |-> Count(observed, e)])
                         + SumOf([e \in {n} \X Nodes(t) |-> Count(observed, e)])
  <2> HIDE DEF told, row, sum
  <2>8. Insights(t, observed) = {row(n) : n \in told} /\ \A n \in told : row(n).node = n /\ row(n).count = sum(n)
    BY <2>3, <2>6 DEF row, sum
  <2>9. {x.node : x \in Insights(t, observed)} = told
    BY ONLY <2>8
  <2>10. \A x \in Insights(t, observed) : x.count = sum(x.node)
    BY ONLY <2>8
  <2> QED
    BY <2>4, <2>7, <2>9, <2>10 DEF observed, stored, sum
<1>2. IInv /\ PublishedIsWhole => EvidenceAddsUp
  BY <1>1 DEF EvidenceAddsUp, AtRest, Stored
<1>3. Init => PublishedIsWhole
  BY DEF Init, PublishedIsWhole
<1> QED
  BY <1>2, <1>3, StaysWhole, EvidenceIsImported, Invariance, PTL DEF Spec

-----------------------------------------------------------------------------
(* Recursion over numbers, one step at a time *)

LEMMA EveryNumber ==
  ASSUME NEW T, 0 \in T, \A k \in Nat : k \in T => k + 1 \in T
  PROVE  Nat \subseteq T
<1> DEFINE rest == Nat \ T
           R == {ss \in Nat \X Nat : ss[1] < ss[2]}
<1> SUFFICES ASSUME rest # {} PROVE FALSE
  OBVIOUS
<1>1. IsWellFoundedOn(R, Nat)
  BY NatLessThanWellFounded DEF OpToRel
<1>2. PICK m \in rest : \A k \in rest : ~(<<k, m>> \in R)
  <2> HIDE DEF rest, R
  <2>1. rest \subseteq Nat
    BY DEF rest
  <2> QED
    BY ONLY <1>1, <2>1, rest # {}, WFMin
<1>3. m \in Nat /\ m # 0 /\ m - 1 \in Nat /\ <<m - 1, m>> \in R
  OBVIOUS
<1>4. m - 1 \in T
  BY <1>2, <1>3
<1>5. m \in T
  BY <1>3, <1>4
<1> QED
  BY <1>5

LEMMA UpTo ==
  ASSUME NEW n \in Nat, NEW T, 0 \in T, \A k \in 1 .. n : k - 1 \in T => k \in T
  PROVE  0 .. n \subseteq T
<1> DEFINE all == T \cup {k \in Nat : k > n}
<1>1. \A k \in Nat : k \in all => k + 1 \in all
  OBVIOUS
<1>2. Nat \subseteq all
  <2>1. 0 \in all
    OBVIOUS
  <2> HIDE DEF all
  <2> QED
    BY ONLY <1>1, <2>1, EveryNumber
<1> QED
  BY <1>2

(* What starts in A and goes on in A by steps is a function.               *)
IsRun(f, A, a, n, step) ==
  /\ f \in [0 .. n -> A]
  /\ \A k \in 0 .. n : f[k] = IF k = 0 THEN a ELSE step[<<f[k - 1], k>>]

LEMMA RunExists ==
  ASSUME NEW A, NEW a \in A, NEW n \in Nat, NEW step \in [A \X (1 .. n) -> A]
  PROVE  \E f : IsRun(f, A, a, n, step)
<1> DEFINE Is(f, m) == \A k \in 0 .. m : f[k] = IF k = 0 THEN a ELSE step[<<f[k - 1], k>>]
           T == {m \in 0 .. n : \E f \in [0 .. m -> A] : Is(f, m)}
<1>1. 0 \in T
  <2> DEFINE f == [k \in 0 .. 0 |-> a]
  <2>1. f \in [0 .. 0 -> A] /\ Is(f, 0)
    OBVIOUS
  <2> HIDE DEF f, Is
  <2> QED
    BY <2>1
<1>2. ASSUME NEW m \in 1 .. n, m - 1 \in T
      PROVE  m \in T
  <2>1. PICK f \in [0 .. m - 1 -> A] : Is(f, m - 1)
    BY <1>2
  <2> DEFINE next == step[<<f[m - 1], m>>]
             g == [k \in 0 .. m |-> IF k = m THEN next ELSE f[k]]
  <2>2. f[m - 1] \in A /\ next \in A
    OBVIOUS
  <2> HIDE DEF next
  <2>3. g \in [0 .. m -> A]
    BY <2>2
  <2>4. ASSUME NEW k \in 0 .. m
        PROVE  g[k] = IF k = 0 THEN a ELSE step[<<g[k - 1], k>>]
    <3>1. CASE k = m
      <4>1. k # 0 /\ g[k - 1] = f[m - 1] /\ g[k] = next
        BY <3>1
      <4> QED
        BY <3>1, <4>1 DEF next
    <3>2. CASE k # m
      <4>1. k \in 0 .. m - 1 /\ g[k] = f[k] /\ (k # 0 => g[k - 1] = f[k - 1])
        BY <3>2
      <4>2. f[k] = IF k = 0 THEN a ELSE step[<<f[k - 1], k>>]
        BY <2>1, <4>1
      <4> QED
        BY <4>1, <4>2
    <3> QED
      BY <3>1, <3>2
  <2>5. Is(g, m)
    <3> HIDE DEF g
    <3> QED
      BY <2>4
  <2> HIDE DEF g, Is
  <2>6. \E h \in [0 .. m -> A] : Is(h, m)
    BY ONLY <2>3, <2>5
  <2> QED
    BY <2>6
<1>3. n \in T
  <2> HIDE DEF T
  <2>1. 0 .. n \subseteq T
    BY ONLY <1>1, <1>2, n \in Nat, UpTo
  <2> QED
    BY <2>1
<1> QED
  BY <1>3 DEF IsRun

-----------------------------------------------------------------------------
(* Traces *)

Trail(N) == [visited : SUBSET N, traced : Seq([node : N, hop : Nat, edge : N \X N]), next : Seq(N)]

(* The steps along the edges in a direction.                               *)
Ways(edges, direction) ==
  (IF direction = "callers" THEN {} ELSE edges)
    \cup (IF direction = "callees" THEN {} ELSE {<<e[2], e[1]>> : e \in edges})

(* A trail has each node but the root once.                                *)
Simple(u, root) ==
  /\ root \in u.visited
  /\ \A i, j \in DOMAIN u.traced : u.traced[i].node = u.traced[j].node => i = j
  /\ {x.node : x \in Range(u.traced)} = u.visited \ {root}

(* What a hop from t has traced when it has met the pairs P: the ends of   *)
(* those that are ways, over an edge from a node where the hop began.      *)
Extends(u, t, hop, edges, ways, P) ==
  /\ u.visited = t.visited \cup {p[2] : p \in P \cap ways}
  /\ Range(u.next) = u.visited \ t.visited
  /\ \A x \in Range(u.traced) :
       \/ x \in Range(t.traced)
       \/ /\ x.hop = hop /\ x.edge \in edges /\ x.node \notin t.visited
          /\ \E n \in Range(t.next) : x.edge \in {<<n, x.node>>, <<x.node, n>>}

LEMMA RangeOfAppend ==
  ASSUME NEW S, NEW s \in Seq(S), NEW x \in S
  PROVE  /\ Append(s, x) \in Seq(S)
         /\ Range(Append(s, x)) = Range(s) \cup {x}
         /\ Len(Append(s, x)) = Len(s) + 1
         /\ \A i \in 1 .. Len(s) : Append(s, x)[i] = s[i]
         /\ Append(s, x)[Len(s) + 1] = x
<1>1. /\ Append(s, x) \in Seq(S) /\ Len(Append(s, x)) = Len(s) + 1
      /\ \A i \in 1 .. Len(s) : Append(s, x)[i] = s[i]
      /\ Append(s, x)[Len(s) + 1] = x
  OBVIOUS
<1>2. DOMAIN Append(s, x) = 1 .. Len(s) + 1 /\ DOMAIN s = 1 .. Len(s) /\ Len(s) \in Nat
  BY <1>1
<1>3. Range(Append(s, x)) = Range(s) \cup {x}
  BY <1>1, <1>2 DEF Range
<1> QED
  BY <1>1, <1>3

LEMMA ReachIsTrail ==
  ASSUME NEW N, NEW u \in Trail(N), NEW hop \in Nat, NEW m \in N, NEW e \in N \X N
  PROVE  /\ Reach(u, hop, m, e) \in Trail(N)
         /\ m \notin u.visited =>
              LET row == [node |-> m, hop |-> hop, edge |-> e] IN
              /\ Reach(u, hop, m, e).visited = u.visited \cup {m}
              /\ Reach(u, hop, m, e).traced = Append(u.traced, row)
              /\ Reach(u, hop, m, e).next = Append(u.next, m)
<1> DEFINE row == [node |-> m, hop |-> hop, edge |-> e]
           Rows == [node : N, hop : Nat, edge : N \X N]
<1>1. CASE m \in u.visited
  BY <1>1 DEF Reach
<1>2. CASE m \notin u.visited
  <2>1. row \in Rows
    OBVIOUS
  <2>2. u.visited \in SUBSET N /\ u.traced \in Seq(Rows) /\ u.next \in Seq(N)
    BY DEF Trail
  <2> HIDE DEF row, Rows
  <2>3. Append(u.traced, row) \in Seq(Rows) /\ Append(u.next, m) \in Seq(N)
    BY <2>1, <2>2
  <2>4. Reach(u, hop, m, e)
          = [visited |-> u.visited \cup {m}, traced |-> Append(u.traced, row), next |-> Append(u.next, m)]
    BY <1>2 DEF Reach, row
  <2> QED
    BY <2>2, <2>3, <2>4 DEF Trail, row, Rows
<1> QED
  BY <1>1, <1>2

LEMMA ReachExtends ==
  ASSUME NEW N, NEW edges \in SUBSET (N \X N), NEW ways, NEW root, NEW hop \in Nat,
         NEW t \in Trail(N), NEW n \in Range(t.next), NEW m \in N, <<n, m>> \in ways,
         NEW e \in edges, e \in {<<n, m>>, <<m, n>>},
         NEW u \in Trail(N), NEW P, Simple(u, root), Extends(u, t, hop, edges, ways, P)
  PROVE  /\ Simple(Reach(u, hop, m, e), root)
         /\ Extends(Reach(u, hop, m, e), t, hop, edges, ways, P \cup {<<n, m>>})
<1> DEFINE v == Reach(u, hop, m, e)
           row == [node |-> m, hop |-> hop, edge |-> e]
           Q == P \cup {<<n, m>>}
<1>1. {p[2] : p \in Q \cap ways} = {p[2] : p \in P \cap ways} \cup {m}
  OBVIOUS
<1> HIDE DEF Q
<1>2. CASE m \in u.visited
  <2>1. v = u
    BY <1>2 DEF Reach
  <2>2. u.visited = t.visited \cup {p[2] : p \in Q \cap ways}
    BY <1>1, <1>2 DEF Extends
  <2>3. Extends(u, t, hop, edges, ways, Q)
    BY <2>2 DEF Extends
  <2> HIDE DEF v
  <2>4. Simple(v, root) /\ Extends(v, t, hop, edges, ways, Q)
    BY <2>1, <2>3
  <2> QED
    BY <2>4 DEF v, Q
<1>3. CASE m \notin u.visited
  <2>1. /\ v.visited = u.visited \cup {m}
        /\ v.traced = Append(u.traced, row)
        /\ v.next = Append(u.next, m)
    BY <1>3 DEF Reach
  <2>2. /\ Range(v.next) = Range(u.next) \cup {m}
    BY <2>1, RangeOfAppend DEF Trail
  <2>3. /\ Range(v.traced) = Range(u.traced) \cup {row}
        /\ Len(u.traced) \in Nat
        /\ DOMAIN u.traced = 1 .. Len(u.traced)
        /\ DOMAIN v.traced = 1 .. Len(u.traced) + 1
        /\ \A i \in 1 .. Len(u.traced) : v.traced[i] = u.traced[i]
        /\ v.traced[Len(u.traced) + 1] = row
    <3> DEFINE Rows == [node : N, hop : Nat, edge : N \X N]
    <3>1. row \in Rows /\ u.traced \in Seq(Rows)
      BY DEF Trail
    <3> HIDE DEF row, Rows, v
    <3> QED
      BY <2>1, <3>1, RangeOfAppend
  <2>4. row.node = m /\ row.hop = hop /\ row.edge = e
    OBVIOUS
  <2> HIDE DEF v, row
  <2>5. \A i \in DOMAIN u.traced : u.traced[i].node \in u.visited
    BY DEF Simple, Range
  <2>6. Simple(v, root)
    <3>1. root \in v.visited /\ root # m
      BY <1>3, <2>1 DEF Simple
    <3>2. ASSUME NEW i \in DOMAIN v.traced, NEW j \in DOMAIN v.traced, v.traced[i].node = v.traced[j].node
          PROVE  i = j
      <4>1. CASE i \in DOMAIN u.traced /\ j \in DOMAIN u.traced
        BY <3>2, <4>1, <2>3 DEF Simple
      <4>2. CASE i \in DOMAIN u.traced /\ j \notin DOMAIN u.traced
        <5>1. j = Len(u.traced) + 1
          BY <4>2, <2>3
        <5> QED
          BY <3>2, <4>2, <5>1, <1>3, <2>3, <2>4, <2>5
      <4>3. CASE i \notin DOMAIN u.traced /\ j \in DOMAIN u.traced
        <5>1. i = Len(u.traced) + 1
          BY <4>3, <2>3
        <5> QED
          BY <3>2, <4>3, <5>1, <1>3, <2>3, <2>4, <2>5
      <4>4. CASE i \notin DOMAIN u.traced /\ j \notin DOMAIN u.traced
        BY <4>4, <2>3
      <4> QED
        BY <4>1, <4>2, <4>3, <4>4
    <3>3. {x.node : x \in Range(v.traced)} = v.visited \ {root}
      BY <2>1, <2>3, <2>4, <3>1 DEF Simple
    <3> QED
      BY <3>1, <3>2, <3>3 DEF Simple
  <2>7. v.visited = t.visited \cup {p[2] : p \in Q \cap ways}
    BY <1>1, <2>1 DEF Extends
  <2>8. m \notin t.visited
    BY <1>3 DEF Extends
  <2>9. Range(v.next) = v.visited \ t.visited
    BY <2>1, <2>2, <2>8 DEF Extends
  <2>10. \A x \in Range(v.traced) :
          \/ x \in Range(t.traced)
          \/ /\ x.hop = hop /\ x.edge \in edges /\ x.node \notin t.visited
             /\ \E k \in Range(t.next) : x.edge \in {<<k, x.node>>, <<x.node, k>>}
    BY <2>3, <2>4, <2>8 DEF Extends
  <2>11. Extends(v, t, hop, edges, ways, Q)
    BY ONLY <2>7, <2>9, <2>10 DEF Extends
  <2> QED
    BY <2>6, <2>11 DEF v, Q
<1> QED
  BY <1>2, <1>3

LEMMA MeetIsTrail ==
  ASSUME NEW N, NEW edges, NEW direction, NEW u \in Trail(N), NEW hop \in Nat, NEW n \in N, NEW m \in N
  PROVE  Meet(edges, direction, u, hop, n, m) \in Trail(N)
<1> DEFINE met == IF <<n, m>> \in edges /\ direction # "callers" THEN Reach(u, hop, m, <<n, m>>) ELSE u
<1>1. met \in Trail(N)
  BY ReachIsTrail
<1> HIDE DEF met
<1>2. Reach(met, hop, m, <<m, n>>) \in Trail(N)
  BY <1>1, ReachIsTrail
<1>3. Meet(edges, direction, u, hop, n, m)
        = IF <<m, n>> \in edges /\ direction # "callees" THEN Reach(met, hop, m, <<m, n>>) ELSE met
  BY DEF Meet, met
<1> QED
  BY <1>1, <1>2, <1>3

LEMMA MeetExtends ==
  ASSUME NEW N, NEW edges \in SUBSET (N \X N), NEW direction, NEW root, NEW hop \in Nat,
         NEW t \in Trail(N), NEW n \in Range(t.next), n \in N, NEW m \in N, NEW u \in Trail(N), NEW P,
         Simple(u, root), Extends(u, t, hop, edges, Ways(edges, direction), P)
  PROVE  /\ Simple(Meet(edges, direction, u, hop, n, m), root)
         /\ Extends(Meet(edges, direction, u, hop, n, m), t, hop, edges, Ways(edges, direction),
                    P \cup {<<n, m>>})
<1> DEFINE callee == <<n, m>> \in edges /\ direction # "callers"
           caller == <<m, n>> \in edges /\ direction # "callees"
           met == IF callee THEN Reach(u, hop, m, <<n, m>>) ELSE u
           end == IF caller THEN Reach(met, hop, m, <<m, n>>) ELSE met
           ways == Ways(edges, direction)
           Q == P \cup {<<n, m>>}
           Has(v, S) == Simple(v, root) /\ Extends(v, t, hop, edges, ways, S)
<1>1. end = Meet(edges, direction, u, hop, n, m)
  BY DEF Meet
<1>2. <<n, m>> \in ways <=> callee \/ caller
  BY DEF Ways
<1>3. Has(u, P)
  OBVIOUS
<1> HIDE DEF ways, end, met, callee
<1>4. ASSUME <<n, m>> \in ways, NEW v \in Trail(N), NEW S, Has(v, S), NEW e \in edges, e \in {<<n, m>>, <<m, n>>}
      PROVE  Has(Reach(v, hop, m, e), S \cup {<<n, m>>})
  BY <1>4, ReachExtends
<1>5. CASE ~callee /\ ~caller
  <2>1. end = u
    BY <1>5 DEF end, met
  <2>2. Q \cap ways = P \cap ways
    BY <1>2, <1>5
  <2>3. Has(u, Q)
    BY <1>3, <2>2 DEF Extends
  <2> QED
    BY <1>1, <2>1, <2>3 DEF ways
<1>6. CASE callee /\ ~caller
  <2>1. end = Reach(u, hop, m, <<n, m>>) /\ <<n, m>> \in edges
    BY <1>6 DEF end, met, callee
  <2>2. Has(end, Q)
    BY <1>2, <1>3, <1>4, <1>6, <2>1
  <2> QED
    BY <1>1, <2>2 DEF ways
<1>7. CASE ~callee /\ caller
  <2>1. end = Reach(u, hop, m, <<m, n>>) /\ <<m, n>> \in edges
    BY <1>7 DEF end, met
  <2>2. Has(end, Q)
    BY <1>2, <1>3, <1>4, <1>7, <2>1
  <2> QED
    BY <1>1, <2>2 DEF ways
<1>8. CASE callee /\ caller
  <2>1. /\ met = Reach(u, hop, m, <<n, m>>) /\ <<n, m>> \in edges
        /\ end = Reach(met, hop, m, <<m, n>>) /\ <<m, n>> \in edges
    BY <1>8 DEF end, met, callee
  <2>2. met \in Trail(N) /\ Has(met, Q)
    BY <1>2, <1>3, <1>4, <1>8, <2>1, ReachIsTrail
  <2>3. Has(end, Q \cup {<<n, m>>})
    BY <1>2, <1>4, <1>8, <2>1, <2>2
  <2>4. Q \cup {<<n, m>>} = Q
    OBVIOUS
  <2>5. Has(end, Q)
    <3> HIDE DEF Q, Has
    <3> QED
      BY <2>3, <2>4
  <2> QED
    BY <1>1, <2>5 DEF ways
<1> QED
  BY <1>5, <1>6, <1>7, <1>8

LEMMA DocumentsAreNodes ==
  ASSUME NEW tree \in Trees
  PROVE  /\ Len(Documents[tree]) \in Nat
         /\ \A k \in 1 .. Len(Documents[tree]) : Documents[tree][k].node \in Nodes(tree)
         /\ Nodes(tree) = {Documents[tree][k].node : k \in 1 .. Len(Documents[tree])}
<1> DEFINE docs == Documents[tree]
<1>1. docs \in Seq(Range(docs))
  BY EvidenceAssumption
<1> HIDE DEF docs
<1>2. Len(docs) \in Nat /\ DOMAIN docs = 1 .. Len(docs)
  BY <1>1
<1>3. Range(docs) = {docs[k] : k \in 1 .. Len(docs)}
  BY <1>2 DEF Range
<1>4. Nodes(tree) = {d.node : d \in Range(docs)}
  BY DEF Nodes, docs
<1> QED
  BY <1>2, <1>3, <1>4 DEF docs

(* The recursion of Neighbours, unfolded.                                  *)
MeetsAll(f, tree, edges, direction, u, hop, n) ==
  /\ f \in [0 .. Len(Documents[tree]) -> Trail(Nodes(tree))]
  /\ Neighbours(tree, edges, direction, u, hop, n) = f[Len(Documents[tree])]
  /\ f[0] = u
  /\ \A k \in 1 .. Len(Documents[tree]) :
       f[k] = Meet(edges, direction, f[k - 1], hop, n, Documents[tree][k].node)

LEMMA NeighboursAreMet ==
  ASSUME NEW tree \in Trees, NEW edges, NEW direction, NEW hop \in Nat,
         NEW u \in Trail(Nodes(tree)), NEW n \in Nodes(tree)
  PROVE  \E f : MeetsAll(f, tree, edges, direction, u, hop, n)
<1> DEFINE docs == Documents[tree]
           len == Len(docs)
           A == Trail(Nodes(tree))
           M(v, k) == Meet(edges, direction, v, hop, n, docs[k].node)
           step == [x \in A \X (1 .. len) |-> M(x[1], x[2])]
           Is(f) == f = [k \in 0 .. len |-> IF k = 0 THEN u ELSE M(f[k - 1], k)]
           after == CHOOSE f : Is(f)
<1>1. Neighbours(tree, edges, direction, u, hop, n) = after[len]
  BY DEF Neighbours
<1>2. len \in Nat /\ \A k \in 1 .. len : docs[k].node \in Nodes(tree)
  BY DocumentsAreNodes
<1>3. \A v \in A, k \in 1 .. len : M(v, k) \in A
  BY <1>2, MeetIsTrail
<1> HIDE DEF docs, A, M, len
<1>4. step \in [A \X (1 .. len) -> A]
  BY <1>3
<1>5. \A v \in A, k \in 1 .. len : step[<<v, k>>] = M(v, k)
  OBVIOUS
<1>6. u \in A
  BY DEF A
<1> HIDE DEF step
<1>7. PICK f : IsRun(f, A, u, len, step)
  BY ONLY <1>2, <1>4, <1>6, RunExists
<1>8. Is(f)
  <2>1. \A k \in 0 .. len : k # 0 => f[k - 1] \in A /\ k \in 1 .. len
    BY <1>2, <1>7 DEF IsRun
  <2>2. \A k \in 0 .. len : f[k] = IF k = 0 THEN u ELSE step[<<f[k - 1], k>>]
    BY <1>7 DEF IsRun
  <2>3. \A k \in 0 .. len : f[k] = IF k = 0 THEN u ELSE M(f[k - 1], k)
    BY <1>5, <2>1, <2>2
  <2>4. f = [k \in 0 .. len |-> f[k]]
    BY <1>7 DEF IsRun
  <2> QED
    BY <2>3, <2>4
<1>9. Is(after)
  <2> HIDE DEF Is
  <2> QED
    BY <1>8
<1> HIDE DEF after
<1>10. after[0] = u /\ \A k \in 1 .. len : after[k] = M(after[k - 1], k)
  <2>1. \A k \in 0 .. len : after[k] = IF k = 0 THEN u ELSE M(after[k - 1], k)
    BY ONLY <1>9
  <2>2. 0 \in 0 .. len /\ \A k \in 1 .. len : k \in 0 .. len /\ k # 0
    BY ONLY <1>2
  <2> QED
    BY ONLY <2>1, <2>2
<1>11. \A k \in 0 .. len : after[k] \in A
  <2> DEFINE T == {k \in 0 .. len : after[k] \in A}
  <2>1. 0 \in T
    BY <1>2, <1>6, <1>10
  <2>2. \A k \in 1 .. len : k - 1 \in T => k \in T
    BY <1>2, <1>3, <1>10
  <2>3. 0 .. len \subseteq T
    <3> HIDE DEF T
    <3> QED
      BY ONLY <1>2, <2>1, <2>2, UpTo
  <2> QED
    BY <2>3
<1>12. after \in [0 .. len -> A]
  <2>1. after = [k \in 0 .. len |-> after[k]]
    BY <1>9
  <2> QED
    BY <1>11, <2>1
<1> QED
  BY <1>1, <1>10, <1>12 DEF docs, A, M, len, MeetsAll

LEMMA NeighboursExtend ==
  ASSUME NEW tree \in Trees, NEW edges \in SUBSET (Nodes(tree) \X Nodes(tree)), NEW direction, NEW root,
         NEW hop \in Nat, NEW t \in Trail(Nodes(tree)), NEW n \in Range(t.next), n \in Nodes(tree),
         NEW u \in Trail(Nodes(tree)), NEW P,
         Simple(u, root), Extends(u, t, hop, edges, Ways(edges, direction), P)
  PROVE  LET v == Neighbours(tree, edges, direction, u, hop, n) IN
         /\ v \in Trail(Nodes(tree))
         /\ Simple(v, root)
         /\ Extends(v, t, hop, edges, Ways(edges, direction), P \cup ({n} \X Nodes(tree)))
<1> DEFINE docs == Documents[tree]
           N == Nodes(tree)
           Has(v, S) == Simple(v, root) /\ Extends(v, t, hop, edges, Ways(edges, direction), S)
           M(v, k) == Meet(edges, direction, v, hop, n, docs[k].node)
           Q(k) == P \cup {<<n, docs[i].node>> : i \in 1 .. k}
<1>1. Len(docs) \in Nat /\ (\A k \in 1 .. Len(docs) : docs[k].node \in N) /\ N = {docs[k].node : k \in 1 .. Len(docs)}
  BY DocumentsAreNodes
<1>2. PICK f \in [0 .. Len(docs) -> Trail(N)] :
         /\ Neighbours(tree, edges, direction, u, hop, n) = f[Len(docs)]
         /\ f[0] = u
         /\ \A k \in 1 .. Len(docs) : f[k] = M(f[k - 1], k)
  <2>1. PICK f : MeetsAll(f, tree, edges, direction, u, hop, n)
    BY ONLY NeighboursAreMet, tree \in Trees, hop \in Nat, u \in Trail(Nodes(tree)), n \in Nodes(tree)
  <2> QED
    BY <2>1 DEF MeetsAll
<1>3. \A S : \A v \in Trail(N), k \in 1 .. Len(docs) : Has(v, S) => Has(M(v, k), S \cup {<<n, docs[k].node>>})
  BY <1>1, MeetExtends
<1>4. Has(u, P)
  OBVIOUS
<1> HIDE DEF docs, N, Has, M
<1>5. \A k \in 0 .. Len(docs) : Has(f[k], Q(k))
  <2> DEFINE T == {k \in 0 .. Len(docs) : Has(f[k], Q(k))}
  <2>1. 0 \in T
    <3>1. Q(0) = P
      OBVIOUS
    <3> HIDE DEF Q
    <3> QED
      BY <1>1, <1>2, <1>4, <3>1
  <2>2. ASSUME NEW k \in 1 .. Len(docs), k - 1 \in T
        PROVE  k \in T
    <3>1. Q(k) = Q(k - 1) \cup {<<n, docs[k].node>>}
      <4>1. 1 .. k = (1 .. k - 1) \cup {k}
        BY <1>1
      <4> QED
        BY <4>1
    <3>2. k - 1 \in 0 .. Len(docs) /\ k \in 0 .. Len(docs)
      BY <1>1
    <3> HIDE DEF Q
    <3>3. Has(f[k - 1], Q(k - 1))
      BY <2>2
    <3>4. Has(M(f[k - 1], k), Q(k))
      <4>1. f[k - 1] \in Trail(N)
        BY <3>2
      <4>2. Has(M(f[k - 1], k), Q(k - 1) \cup {<<n, docs[k].node>>})
        BY ONLY <1>3, <3>3, <4>1, k \in 1 .. Len(docs)
      <4> QED
        BY ONLY <3>1, <4>2
    <3> QED
      BY <1>2, <3>2, <3>4
  <2>3. 0 .. Len(docs) \subseteq T
    <3> HIDE DEF T
    <3> QED
      BY ONLY <1>1, <2>1, <2>2, UpTo
  <2> QED
    BY <2>3
<1>6. Q(Len(docs)) = P \cup ({n} \X N)
  BY <1>1
<1> HIDE DEF Q
<1>7. f[Len(docs)] \in Trail(N) /\ Has(f[Len(docs)], P \cup ({n} \X N))
  <2>1. Len(docs) \in 0 .. Len(docs)
    BY <1>1
  <2>2. Has(f[Len(docs)], Q(Len(docs))) /\ f[Len(docs)] \in Trail(N)
    BY ONLY <1>5, <2>1, f \in [0 .. Len(docs) -> Trail(N)]
  <2> QED
    BY ONLY <1>6, <2>2
<1> QED
  BY <1>2, <1>7 DEF N, Has

(* The recursion of Hop, unfolded.                                         *)
TracesNext(f, tree, edges, direction, t, hop) ==
  /\ f \in [0 .. Len(t.next) -> Trail(Nodes(tree))]
  /\ Hop(tree, edges, direction, t, hop) = f[Len(t.next)]
  /\ f[0] = [t EXCEPT !.next = <<>>]
  /\ \A k \in 1 .. Len(t.next) : f[k] = Neighbours(tree, edges, direction, f[k - 1], hop, t.next[k])

LEMMA NextAreNodes ==
  ASSUME NEW N, NEW t \in Trail(N)
  PROVE  /\ Len(t.next) \in Nat
         /\ \A k \in 1 .. Len(t.next) : t.next[k] \in N /\ t.next[k] \in Range(t.next)
         /\ Range(t.next) = {t.next[k] : k \in 1 .. Len(t.next)}
         /\ [t EXCEPT !.next = <<>>] \in Trail(N)
<1>1. t.next \in Seq(N)
  BY DEF Trail
<1>2. Len(t.next) \in Nat /\ DOMAIN t.next = 1 .. Len(t.next) /\ \A k \in 1 .. Len(t.next) : t.next[k] \in N
  BY ONLY <1>1
<1>3. Range(t.next) = {t.next[k] : k \in 1 .. Len(t.next)}
  BY <1>2 DEF Range
<1>4. [t EXCEPT !.next = <<>>] \in Trail(N)
  <2>1. <<>> \in Seq(N)
    OBVIOUS
  <2> QED
    BY <2>1 DEF Trail
<1> QED
  BY <1>2, <1>3, <1>4

LEMMA NextAreTraced ==
  ASSUME NEW tree \in Trees, NEW edges, NEW direction, NEW hop \in Nat, NEW t \in Trail(Nodes(tree))
  PROVE  \E f : TracesNext(f, tree, edges, direction, t, hop)
<1> DEFINE len == Len(t.next)
           A == Trail(Nodes(tree))
           u == [t EXCEPT !.next = <<>>]
           M(v, k) == Neighbours(tree, edges, direction, v, hop, t.next[k])
           step == [x \in A \X (1 .. len) |-> M(x[1], x[2])]
           Is(f) == f = [k \in 0 .. len |-> IF k = 0 THEN u ELSE M(f[k - 1], k)]
           after == CHOOSE f : Is(f)
<1>1. Hop(tree, edges, direction, t, hop) = after[len]
  BY DEF Hop
<1>2. len \in Nat /\ \A k \in 1 .. len : t.next[k] \in Nodes(tree)
  BY NextAreNodes
<1>3. \A v \in A, k \in 1 .. len : M(v, k) \in A
  <2>1. ASSUME NEW v \in A, NEW k \in 1 .. len
        PROVE  M(v, k) \in A
    <3>1. PICK g : MeetsAll(g, tree, edges, direction, v, hop, t.next[k])
      BY <1>2, NeighboursAreMet
    <3>2. Len(Documents[tree]) \in 0 .. Len(Documents[tree])
      BY DocumentsAreNodes
    <3> QED
      BY <3>1, <3>2 DEF MeetsAll
  <2> QED
    BY <2>1
<1>4. u \in A
  BY NextAreNodes
<1> HIDE DEF A, M, len, u
<1>5. step \in [A \X (1 .. len) -> A]
  BY <1>3
<1>6. \A v \in A, k \in 1 .. len : step[<<v, k>>] = M(v, k)
  OBVIOUS
<1> HIDE DEF step
<1>7. PICK f : IsRun(f, A, u, len, step)
  BY ONLY <1>2, <1>4, <1>5, RunExists
<1>8. Is(f)
  <2>1. \A k \in 0 .. len : k # 0 => f[k - 1] \in A /\ k \in 1 .. len
    BY <1>2, <1>7 DEF IsRun
  <2>2. \A k \in 0 .. len : f[k] = IF k = 0 THEN u ELSE step[<<f[k - 1], k>>]
    BY <1>7 DEF IsRun
  <2>3. \A k \in 0 .. len : f[k] = IF k = 0 THEN u ELSE M(f[k - 1], k)
    BY <1>6, <2>1, <2>2
  <2>4. f = [k \in 0 .. len |-> f[k]]
    BY <1>7 DEF IsRun
  <2> QED
    BY <2>3, <2>4
<1>9. Is(after)
  <2> HIDE DEF Is
  <2> QED
    BY <1>8
<1> HIDE DEF after
<1>10. after[0] = u /\ \A k \in 1 .. len : after[k] = M(after[k - 1], k)
  <2>1. \A k \in 0 .. len : after[k] = IF k = 0 THEN u ELSE M(after[k - 1], k)
    BY ONLY <1>9
  <2>2. 0 \in 0 .. len /\ \A k \in 1 .. len : k \in 0 .. len /\ k # 0
    BY ONLY <1>2
  <2> QED
    BY ONLY <2>1, <2>2
<1>11. \A k \in 0 .. len : after[k] \in A
  <2> DEFINE T == {k \in 0 .. len : after[k] \in A}
  <2>1. 0 \in T
    BY <1>2, <1>4, <1>10
  <2>2. \A k \in 1 .. len : k - 1 \in T => k \in T
    BY <1>2, <1>3, <1>10
  <2>3. 0 .. len \subseteq T
    <3> HIDE DEF T
    <3> QED
      BY ONLY <1>2, <2>1, <2>2, UpTo
  <2> QED
    BY <2>3
<1>12. after \in [0 .. len -> A]
  <2>1. after = [k \in 0 .. len |-> after[k]]
    BY <1>9
  <2> QED
    BY <1>11, <2>1
<1> QED
  BY <1>1, <1>10, <1>12 DEF A, M, len, u, TracesNext

LEMMA HopExtends ==
  ASSUME NEW tree \in Trees, NEW edges \in SUBSET (Nodes(tree) \X Nodes(tree)), NEW direction, NEW root,
         NEW hop \in Nat, NEW t \in Trail(Nodes(tree)), Simple(t, root)
  PROVE  LET v == Hop(tree, edges, direction, t, hop) IN
         /\ v \in Trail(Nodes(tree))
         /\ Simple(v, root)
         /\ Extends(v, t, hop, edges, Ways(edges, direction), Range(t.next) \X Nodes(tree))
<1> DEFINE N == Nodes(tree)
           len == Len(t.next)
           u == [t EXCEPT !.next = <<>>]
           ways == Ways(edges, direction)
           Has(v, S) == Simple(v, root) /\ Extends(v, t, hop, edges, ways, S)
           M(v, k) == Neighbours(tree, edges, direction, v, hop, t.next[k])
           Q(k) == {t.next[i] : i \in 1 .. k} \X N
           W(S, k) == S \cup ({t.next[k]} \X N)
<1>1. /\ len \in Nat
      /\ \A k \in 1 .. len : t.next[k] \in N /\ t.next[k] \in Range(t.next)
      /\ Range(t.next) = {t.next[k] : k \in 1 .. len}
  BY ONLY NextAreNodes, t \in Trail(Nodes(tree))
<1>2. PICK f \in [0 .. len -> Trail(N)] :
         /\ Hop(tree, edges, direction, t, hop) = f[len]
         /\ f[0] = u
         /\ \A k \in 1 .. len : f[k] = M(f[k - 1], k)
  <2>1. PICK f : TracesNext(f, tree, edges, direction, t, hop)
    BY ONLY NextAreTraced, tree \in Trees, hop \in Nat, t \in Trail(Nodes(tree))
  <2> QED
    BY <2>1 DEF TracesNext
<1>3. \A S : \A v \in Trail(N), k \in 1 .. len : Has(v, S) => Has(M(v, k), W(S, k))
  BY <1>1, NeighboursExtend
<1>4. Has(u, {})
  <2>1. /\ u.visited = t.visited /\ u.traced = t.traced /\ u.next = <<>>
    BY DEF Trail
  <2>2. Range(u.next) = {}
    BY <2>1 DEF Range
  <2> HIDE DEF u
  <2>3. Simple(u, root)
    BY <2>1 DEF Simple
  <2>4. Extends(u, t, hop, edges, ways, {})
    <3> HIDE DEF ways
    <3> QED
      BY <2>1, <2>2 DEF Extends
  <2> QED
    BY <2>3, <2>4
<1> HIDE DEF len, N, Has, M, u, W
<1>5. \A k \in 0 .. len : Has(f[k], Q(k))
  <2> DEFINE T == {k \in 0 .. len : Has(f[k], Q(k))}
  <2>1. 0 \in T
    <3>1. Q(0) = {}
      OBVIOUS
    <3> HIDE DEF Q
    <3>2. Has(f[0], Q(0))
      BY ONLY <1>2, <1>4, <3>1
    <3>3. 0 \in 0 .. len
      BY <1>1
    <3> QED
      BY ONLY <3>2, <3>3
  <2>2. ASSUME NEW k \in 1 .. len, k - 1 \in T
        PROVE  k \in T
    <3>1. Q(k) = W(Q(k - 1), k)
      <4>1. 1 .. k = (1 .. k - 1) \cup {k}
        BY <1>1
      <4> QED
        BY <4>1 DEF W
    <3>2. k - 1 \in 0 .. len /\ k \in 0 .. len
      BY <1>1
    <3> HIDE DEF Q
    <3>3. Has(f[k - 1], Q(k - 1))
      BY <2>2
    <3>4. Has(M(f[k - 1], k), Q(k))
      <4>1. f[k - 1] \in Trail(N)
        BY <3>2
      <4>2. Has(M(f[k - 1], k), W(Q(k - 1), k))
        BY ONLY <1>3, <3>3, <4>1, k \in 1 .. len
      <4> QED
        BY ONLY <3>1, <4>2
    <3> QED
      BY <1>2, <3>2, <3>4
  <2>3. 0 .. len \subseteq T
    <3> HIDE DEF T
    <3> QED
      BY ONLY <1>1, <2>1, <2>2, UpTo
  <2> QED
    BY <2>3
<1>6. Q(len) = Range(t.next) \X N
  BY <1>1
<1> HIDE DEF Q
<1>7. f[len] \in Trail(N) /\ Has(f[len], Range(t.next) \X N)
  <2>1. len \in 0 .. len
    BY <1>1
  <2>2. Has(f[len], Q(len)) /\ f[len] \in Trail(N)
    BY ONLY <1>5, <2>1, f \in [0 .. len -> Trail(N)]
  <2> QED
    BY ONLY <1>6, <2>2
<1> QED
  BY <1>2, <1>7 DEF N, Has

Start(root) == [visited |-> {root}, traced |-> <<>>, next |-> <<root>>]

(* The recursion of Traced, unfolded to two hops.                          *)
LEMMA TracedInTwoHops ==
  ASSUME NEW tree, NEW edges, NEW root, NEW direction
  PROVE  Traced(tree, edges, root, direction, 2)
           = Hop(tree, edges, direction, Hop(tree, edges, direction, Start(root), 1), 2).traced
<1> DEFINE M(v, h) == Hop(tree, edges, direction, v, h)
           start == Start(root)
           Is(f) == f = [h \in 0 .. 2 |-> IF h = 0 THEN start ELSE M(f[h - 1], h)]
           after == CHOOSE f : Is(f)
           g == [h \in 0 .. 2 |-> IF h = 0 THEN start ELSE IF h = 1 THEN M(start, 1) ELSE M(M(start, 1), 2)]
<1>1. Traced(tree, edges, root, direction, 2) = after[2].traced
  BY DEF Traced, Start
<1> HIDE DEF M, start
<1>2. Is(g)
  <2>1. g[0] = start /\ g[1] = M(start, 1) /\ g[2] = M(M(start, 1), 2)
    OBVIOUS
  <2>2. \A h \in 0 .. 2 : h = 0 \/ h = 1 \/ h = 2
    OBVIOUS
  <2>3. g = [h \in 0 .. 2 |-> g[h]]
    OBVIOUS
  <2> HIDE DEF g
  <2>4. \A h \in 0 .. 2 : g[h] = IF h = 0 THEN start ELSE M(g[h - 1], h)
    BY <2>1, <2>2
  <2> QED
    BY <2>3, <2>4
<1>3. Is(after)
  <2> HIDE DEF Is, g
  <2> QED
    BY <1>2
<1> HIDE DEF after
<1>4. after[0] = start /\ after[1] = M(after[0], 1) /\ after[2] = M(after[1], 2)
  <2>1. \A h \in 0 .. 2 : after[h] = IF h = 0 THEN start ELSE M(after[h - 1], h)
    BY ONLY <1>3
  <2> QED
    BY ONLY <2>1
<1> QED
  BY <1>1, <1>4 DEF M, start

LEMMA StartIsSimple ==
  ASSUME NEW N, NEW root \in N
  PROVE  /\ Start(root) \in Trail(N) /\ Simple(Start(root), root)
         /\ Start(root).visited = {root} /\ Range(Start(root).next) = {root} /\ Range(Start(root).traced) = {}
<1> DEFINE s == Start(root)
<1>1. s.visited = {root} /\ s.traced = <<>> /\ s.next = <<root>>
  BY DEF Start
<1>2. s \in Trail(N)
  <2>1. <<>> \in Seq([node : N, hop : Nat, edge : N \X N]) /\ <<root>> \in Seq(N)
    OBVIOUS
  <2> QED
    BY <2>1 DEF Trail, Start
<1>3. Range(<<>>) = {} /\ Range(<<root>>) = {root} /\ DOMAIN <<>> = {}
  BY DEF Range
<1> HIDE DEF s
<1>4. Simple(s, root)
  BY <1>1, <1>3 DEF Simple
<1> QED
  BY <1>1, <1>2, <1>3, <1>4 DEF s

(* A trail is as long as the nodes it has traced are many.                 *)
LEMMA SimpleIsCounted ==
  ASSUME NEW N, NEW u \in Trail(N), NEW root, Simple(u, root)
  PROVE  Len(u.traced) = Cardinality({x.node : x \in Range(u.traced)})
<1> DEFINE len == Len(u.traced)
           S == {x.node : x \in Range(u.traced)}
           f == [i \in 1 .. len |-> u.traced[i].node]
<1>1. len \in Nat /\ DOMAIN u.traced = 1 .. len
  BY DEF Trail
<1> HIDE DEF len
<1>2. S = {u.traced[i].node : i \in 1 .. len}
  BY <1>1 DEF Range
<1>3. \A i, j \in 1 .. len : u.traced[i].node = u.traced[j].node => i = j
  BY <1>1 DEF Simple
<1> HIDE DEF S
<1>4. f \in Bijection(1 .. len, S)
  BY <1>2, <1>3 DEF Bijection, Injection, Surjection, IsInjective
<1> HIDE DEF f
<1>5. ExistsBijection(1 .. len, S)
  BY <1>4 DEF ExistsBijection
<1>6. Cardinality(S) = len
  BY ONLY <1>1, <1>5, FS_CountingElements
<1> QED
  BY <1>6 DEF len, S

(* What is one step from the nodes of S.                                   *)
Wider(ways, S) == S \cup {e[2] : e \in {x \in ways : x[1] \in S}}
HopOf(ways, root, n) == IF n = root THEN 0 ELSE IF n \in Wider(ways, {root}) THEN 1 ELSE 2
OtherEnd(x) == IF x.edge[1] = x.node THEN x.edge[2] ELSE x.edge[1]

ByDistance(traced, edges, ways, root) ==
  /\ Len(traced) = Cardinality({x.node : x \in Range(traced)})
  /\ {x.node : x \in Range(traced)} = Wider(ways, Wider(ways, {root})) \ {root}
  /\ \A x \in Range(traced) :
       /\ x.edge \in edges
       /\ x.hop = HopOf(ways, root, x.node)
       /\ HopOf(ways, root, OtherEnd(x)) = x.hop - 1

Ends(P) == {p[2] : p \in P}
Widens(N, ways, S, T) == S \cup Ends(((S \ T) \X N) \cap ways) = Wider(ways, S)

LEMMA EndsOfHop ==
  ASSUME NEW N, NEW ways, ways \subseteq N \X N, NEW S, S \subseteq N, NEW T, T \subseteq S,
         Wider(ways, T) \subseteq S
  PROVE  Widens(N, ways, S, T)
<1>1. \A p \in ways : p = <<p[1], p[2]>> /\ p[1] \in N /\ p[2] \in N
  OBVIOUS
<1>2. S \cup Ends(((S \ T) \X N) \cap ways) \subseteq Wider(ways, S)
  BY DEF Wider, Ends
<1>3. ASSUME NEW p \in ways, p[1] \in S
      PROVE  p[2] \in S \cup Ends(((S \ T) \X N) \cap ways)
  <2>1. CASE p[1] \in T
    BY <2>1 DEF Wider
  <2>2. CASE p[1] \notin T
    <3>1. p \in ((S \ T) \X N) \cap ways
      BY <1>1, <1>3, <2>2
    <3> QED
      BY <3>1 DEF Ends
  <2> QED
    BY <2>1, <2>2
<1> QED
  BY <1>2, <1>3 DEF Wider, Widens

LEMMA TraceReaches ==
  ASSUME NEW tree \in Trees, NEW edges \in SUBSET (Nodes(tree) \X Nodes(tree)), NEW direction,
         NEW root \in Nodes(tree)
  PROVE  ByDistance(Traced(tree, edges, root, direction, 2), edges, Ways(edges, direction), root)
<1> DEFINE N == Nodes(tree)
           ways == Ways(edges, direction)
           near == Wider(ways, {root})
           t0 == Start(root)
           t1 == Hop(tree, edges, direction, t0, 1)
           t2 == Hop(tree, edges, direction, t1, 2)
           at(n) == HopOf(ways, root, n)
<1>1. /\ t0 \in Trail(N) /\ Simple(t0, root)
      /\ t0.visited = {root} /\ Range(t0.next) = {root} /\ Range(t0.traced) = {}
  BY StartIsSimple
<1>2. t1 \in Trail(N) /\ Simple(t1, root) /\ Extends(t1, t0, 1, edges, ways, Range(t0.next) \X N)
  <2> HIDE DEF t0
  <2> QED
    BY <1>1, HopExtends
<1>3. t2 \in Trail(N) /\ Simple(t2, root) /\ Extends(t2, t1, 2, edges, ways, Range(t1.next) \X N)
  <2> HIDE DEF t1
  <2> QED
    BY <1>2, HopExtends
<1>4. Traced(tree, edges, root, direction, 2) = t2.traced
  BY TracedInTwoHops
<1>5. ways \in SUBSET (N \X N)
  BY DEF Ways
<1>6. root \in N
  OBVIOUS
<1> HIDE DEF N, ways, t0, t1, t2
<1>7. near \in SUBSET N /\ root \in near /\ {root} \in SUBSET near
  BY <1>5, <1>6 DEF Wider
<1>8. t1.visited = near /\ Range(t1.next) = near \ {root}
  <2>1. {root} \cup Ends((({root} \ {}) \X N) \cap ways) = near
    <3>1. Wider(ways, {}) \subseteq {root}
      BY DEF Wider
    <3>2. {root} \subseteq N /\ {} \subseteq {root} /\ ways \subseteq N \X N
      BY <1>5, <1>6
    <3>3. Widens(N, ways, {root}, {})
      BY ONLY <3>1, <3>2, EndsOfHop
    <3> QED
      BY <3>3 DEF Widens
  <2>2. t1.visited = {root} \cup Ends(({root} \X N) \cap ways)
    BY <1>1, <1>2 DEF Extends, Ends
  <2>3. Range(t1.next) = t1.visited \ {root}
    BY <1>1, <1>2 DEF Extends
  <2>4. {root} \ {} = {root}
    OBVIOUS
  <2> QED
    BY <2>1, <2>2, <2>3, <2>4
<1>9. t2.visited = Wider(ways, near)
  <2>1. t2.visited = near \cup Ends(((near \ {root}) \X N) \cap ways)
    BY <1>3, <1>8 DEF Extends, Ends
  <2>2. Wider(ways, {root}) \subseteq near
    OBVIOUS
  <2> HIDE DEF near
  <2>3. near \cup Ends(((near \ {root}) \X N) \cap ways) = Wider(ways, near)
    <3>1. near \subseteq N /\ {root} \subseteq near /\ ways \subseteq N \X N
      BY <1>5, <1>7
    <3>2. Widens(N, ways, near, {root})
      BY ONLY <2>2, <3>1, EndsOfHop
    <3> QED
      BY <3>2 DEF Widens
  <2> QED
    BY <2>1, <2>3
<1>10. \A n : at(n) = IF n = root THEN 0 ELSE IF n \in near THEN 1 ELSE 2
  BY DEF HopOf
<1> HIDE DEF at, near
<1>11. ASSUME NEW x \in Range(t2.traced)
       PROVE  /\ x.edge \in edges
              /\ x.hop = at(x.node)
              /\ at(OtherEnd(x)) = x.hop - 1
  <2>1. CASE x \in Range(t1.traced)
    <3>1. /\ x.hop = 1 /\ x.edge \in edges /\ x.node # root
          /\ x.edge \in {<<root, x.node>>, <<x.node, root>>}
      BY <2>1, <1>1, <1>2 DEF Extends
    <3>2. x.node \in near
      BY <2>1, <1>2, <1>8 DEF Simple
    <3>3. OtherEnd(x) = root
      BY <3>1 DEF OtherEnd
    <3> QED
      BY <3>1, <3>2, <3>3, <1>10
  <2>2. CASE x \notin Range(t1.traced)
    <3>1. /\ x.hop = 2 /\ x.edge \in edges /\ x.node \notin near
          /\ \E n \in near \ {root} : x.edge \in {<<n, x.node>>, <<x.node, n>>}
      BY <2>2, <1>3, <1>8 DEF Extends
    <3>2. PICK n \in near \ {root} : x.edge \in {<<n, x.node>>, <<x.node, n>>}
      BY <3>1
    <3>3. OtherEnd(x) = n
      BY <3>1, <3>2 DEF OtherEnd
    <3> QED
      BY <3>1, <3>2, <3>3, <1>7, <1>10
  <2> QED
    BY <2>1, <2>2
<1>12. Len(t2.traced) = Cardinality({x.node : x \in Range(t2.traced)})
  BY <1>3, SimpleIsCounted
<1>13. {x.node : x \in Range(t2.traced)} = Wider(ways, near) \ {root}
  BY <1>3, <1>9 DEF Simple
<1> QED
  BY <1>4, <1>11, <1>12, <1>13 DEF ways, near, at, ByDistance

(* What evidence tells of a graph is of this graph, for every trace and    *)
(* graph: the calls it counts, by load_current_observations, and the nodes *)
(* that trace_path_with_evidence reaches, each once and at its distance.   *)
THEOREM EvidenceStaysOfTheGraph ==
  EvidenceSpec => []EvidenceIsOfTheGraph
<1>1. ASSUME IInv, NEW r \in Revs, NEW t \in Trees, NEW k \in Observed(t, r)
      PROVE  k.edge \in Nodes(t) \X Nodes(t)
  <2>1. snaps[r] # None /\ snaps[r].tree = t /\ k \in EdgesOf(snaps[r])
    BY <1>1 DEF Observed
  <2>2. PICK c \in ResolvedCalls : snaps[r].merged[<<c.id, c.tree>>] > 0 /\ k.edge = c.edge
    BY <2>1, EdgeHasCall
  <2>3. /\ c.tree \in Trees /\ c.id \in Ids
        /\ c.call \in Kept(c.tree, c.id)
        /\ c.edge = <<NodeOf(c.tree, c.call.caller), NodeOf(c.tree, c.call.callee)>>
    BY ResolvedCall
  <2>4. c.tree = t
    BY <1>1, <2>1, <2>2, <2>3 DEF IInv, OneTreePerSnapshot, Counted
  <2>5. Resolved(t, c.call.caller) /\ Resolved(t, c.call.callee)
    BY <2>3, <2>4 DEF Kept
  <2>6. NodeOf(t, c.call.caller) \in Nodes(t) /\ NodeOf(t, c.call.callee) \in Nodes(t)
    BY <2>5, OneNode
  <2> QED
    BY <2>2, <2>3, <2>4, <2>6
<1>2. ASSUME IInv, NEW r \in Revs, NEW t \in Trees, NEW evidence
      PROVE  Followed(t, Observed(t, r), evidence) \in SUBSET (Nodes(t) \X Nodes(t))
  BY <1>1, <1>2, EvidenceAssumption DEF Followed
<1>3. ASSUME IInv PROVE TraceIsByDistance
  <2> SUFFICES ASSUME NEW r \in Revs, NEW t \in Trees, NEW evidence \in {"observed", "all"},
                      NEW direction \in {"callers", "callees", "both"}, NEW root \in Nodes(t)
               PROVE  LET edges == Followed(t, Observed(t, r), evidence)
                          steps == (IF direction = "callers" THEN {} ELSE edges)
                                     \cup (IF direction = "callees" THEN {} ELSE {<<e[2], e[1]>> : e \in edges})
                          wider(S) == S \cup {e[2] : e \in {x \in steps : x[1] \in S}}
                          traced == Traced(t, edges, root, direction, 2)
                          near == wider({root})
                          hop(n) == IF n = root THEN 0 ELSE IF n \in near THEN 1 ELSE 2
                          other(x) == IF x.edge[1] = x.node THEN x.edge[2] ELSE x.edge[1]
                      IN
                      /\ Len(traced) = Cardinality({x.node : x \in Range(traced)})
                      /\ {x.node : x \in Range(traced)} = wider(near) \ {root}
                      /\ \A x \in Range(traced) :
                           /\ x.edge \in edges
                           /\ x.hop = hop(x.node)
                           /\ hop(other(x)) = x.hop - 1
    BY DEF TraceIsByDistance
  <2> DEFINE edges == Followed(t, Observed(t, r), evidence)
  <2>1. edges \in SUBSET (Nodes(t) \X Nodes(t))
    BY <1>2, <1>3
  <2> HIDE DEF edges
  <2>2. ByDistance(Traced(t, edges, root, direction, 2), edges, Ways(edges, direction), root)
    BY ONLY <2>1, TraceReaches, t \in Trees, root \in Nodes(t)
  <2> QED
    BY ONLY <2>2 DEF edges, ByDistance, Ways, Wider, HopOf, OtherEnd
<1>4. IInv => TraceIsByDistance
  BY <1>3
<1>5. [](CallsAreOfTheGraph /\ TraceIsByDistance) => []EvidenceIsOfTheGraph
  <2>1. CallsAreOfTheGraph /\ TraceIsByDistance => EvidenceIsOfTheGraph
    BY DEF EvidenceIsOfTheGraph
  <2> QED
    BY <2>1, PTL
<1> QED
  BY <1>4, <1>5, CallsStayOfTheGraph, EvidenceIsImported, Invariance, PTL
=============================================================================
