---------------------------- MODULE ObservationStore ----------------------------
(***************************************************************************)
(* The runtime evidence store: crates/cgrx-store/src/observations.rs and   *)
(* its caller import_runtime_evidence.  An import writes an immutable batch*)
(* file, then merges the batch into the snapshot of its revision; a prune  *)
(* removes old batch files and rebuilds every snapshot from the rest.      *)
(* Writers take the repository's writer lock, readers none.  A snapshot is *)
(* abstracted to how often it counts each batch, from which the counts,    *)
(* times and provenance of its edges follow.                               *)
(***************************************************************************)
EXTENDS WriterLock, Naturals, FiniteSets

CONSTANTS
  Ids,        \* batch identities: hashes of normalized evidence
  Revs,       \* repository revisions
  Trees,      \* graph snapshots a process resolves evidence against
  Revision,   \* the revision each batch declares
  LastSeen,   \* the latest observation of each batch
  Cutoffs,    \* ages that prune is asked for
  MaxOutages, \* bound: crashes and I/O errors in a behaviour
  None        \* no value

ASSUME DataAssumption ==
  /\ Revision \in [Ids -> Revs]
  /\ LastSeen \in [Ids -> Nat]
  /\ Cutoffs \subseteq Nat
  /\ MaxOutages \in Nat

VARIABLES
  pc,      \* where each process is
  op,      \* its import or prune, with the locals of the call
  files,   \* the files of batches/
  snaps,   \* [Revs -> snapshot or None]: by-revision/<rev>.snapshot.json
  astray,  \* history: batches that a call cut short may have left miscounted
  pruned,  \* some prune has removed a file
  outages  \* failures so far

vars == <<holders, pc, op, files, snaps, astray, pruned, outages>>

(* A batch file under its final name has no pid; a temporary one is named  *)
(* after the process that wrote it, a number once that process is dead.    *)
Pids == Procs \cup 1 .. MaxOutages
File == [id : Ids, pid : Pids \cup {None}, tree : Trees, whole : BOOLEAN]

Snapshot == [tree : Trees, merged : [Ids \X Trees -> Nat]]
EmptySnapshot(tree) == [tree |-> tree, merged |-> [k \in Ids \X Trees |-> 0]]

(* None is no process, no number and no snapshot; a pid is in use once.     *)
ASSUME NoneAssumption == None \notin Procs \cup Nat \cup Snapshot
ASSUME PidAssumption == Procs \cap Nat = {}

Import == [id : Ids, tree : Trees, seen : Snapshot \cup {None}]
Prune == [cutoff : Cutoffs, doomed : SUBSET File, kept : SUBSET File,
          revs : SUBSET Revs]

Importing == {"load", "check", "write", "rename", "merge"}
Pruning == {"scan", "remove", "clear", "rebuild", "republish"}

Goto(p, stage) == pc' = [pc EXCEPT ![p] = stage]
At(p, stage) == pc[p] = stage

(* The call returns, with an error or a report, and drops the lock. *)
Return(p) ==
  /\ Unlock(p)
  /\ Goto(p, "idle")
  /\ op' = [op EXCEPT ![p] = None]

Published(id) == {f \in files : f.id = id /\ f.pid = None}
Own(p, id) == {f \in files : f.id = id /\ f.pid = p}

(* The batches that the call may leave miscounted if it ends here: one     *)
(* that has its final name and is in no snapshot yet, one that is too old  *)
(* once files go, and any once snapshots do.                               *)
Spoilt(p) ==
  {id \in Ids :
     \/ At(p, "merge") /\ id = op[p].id
     \/ At(p, "remove") /\ LastSeen[id] < op[p].cutoff
     \/ pc[p] \in {"clear", "rebuild", "republish"}}

(* merge_batch. *)
Merged(snapshot, id, tree) == [snapshot EXCEPT !.merged[<<id, tree>>] = @ + 1]

CountedOnRebuild(kept, r) ==
  [k \in Ids \X Trees |->
     Cardinality({f \in kept : Revision[f.id] = r /\ f.id = k[1] /\ f.tree = k[2]})]

Init ==
  /\ LockInit
  /\ pc = [p \in Procs |-> "idle"]
  /\ op = [p \in Procs |-> None]
  /\ files = {}
  /\ snaps = [r \in Revs |-> None]
  /\ astray = {}
  /\ pruned = FALSE
  /\ outages = 0

-----------------------------------------------------------------------------
(* publish *)

(* The process resolved batch id against its graph and takes the lock. *)
StartImport(p, id, tree) ==
  /\ At(p, "idle")
  /\ TryLock(p)
  /\ op' = [op EXCEPT ![p] = [id |-> id, tree |-> tree, seen |-> None]]
  /\ Goto(p, "load")
  /\ UNCHANGED <<files, snaps, astray, pruned, outages>>

(* The revision's snapshot is read; one of another graph refuses the batch.*)
LoadExisting(p) ==
  LET found == snaps[Revision[op[p].id]]
      ofAnotherGraph == found # None /\ found.tree # op[p].tree
  IN
  /\ At(p, "load")
  /\ \/ /\ ofAnotherGraph
        /\ Return(p)
     \/ /\ ~ofAnotherGraph
        /\ op' = [op EXCEPT ![p].seen = found]
        /\ Goto(p, "check")
        /\ UNCHANGED holders
  /\ UNCHANGED <<files, snaps, astray, pruned, outages>>

(* A batch file of this name ends the import: a duplicate if it is the     *)
(* same batch, an error if it is not.                                      *)
FindDuplicate(p) ==
  /\ At(p, "check")
  /\ Published(op[p].id) # {}
  /\ Return(p)
  /\ UNCHANGED <<files, snaps, astray, pruned, outages>>

(* write_atomic_new creates the temporary file: create_new refuses one that*)
(* an earlier failed call of this process left.                            *)
CreateBatch(p) ==
  LET id == op[p].id IN
  /\ At(p, "check")
  /\ Published(id) = {}
  /\ \/ /\ Own(p, id) = {}
        /\ files' = files \cup {[id |-> id, pid |-> p, tree |-> op[p].tree, whole |-> FALSE]}
        /\ Goto(p, "write")
        /\ UNCHANGED <<holders, op>>
     \/ /\ Own(p, id) # {}
        /\ Return(p)
        /\ UNCHANGED files
  /\ UNCHANGED <<snaps, astray, pruned, outages>>

(* write_atomic_new: the bytes are written and synced. *)
WriteBatch(p) ==
  /\ At(p, "write")
  /\ files' = (files \ Own(p, op[p].id)) \cup {[f EXCEPT !.whole = TRUE] : f \in Own(p, op[p].id)}
  /\ Goto(p, "rename")
  /\ UNCHANGED <<holders, op, snaps, astray, pruned, outages>>

(* write_atomic_new: the batch takes its final name, durably. *)
RenameBatch(p) ==
  /\ At(p, "rename")
  /\ files' = (files \ Own(p, op[p].id)) \cup {[f EXCEPT !.pid = None] : f \in Own(p, op[p].id)}
  /\ Goto(p, "merge")
  /\ UNCHANGED <<holders, op, snaps, astray, pruned, outages>>

(* A faulty MergeIntoSnapshot: the loaded snapshot is forgotten. *)
MergeIntoEmpty(p) ==
  LET id == op[p].id IN
  /\ At(p, "merge")
  /\ snaps' = [snaps EXCEPT ![Revision[id]] = Merged(EmptySnapshot(op[p].tree), id, op[p].tree)]
  /\ Return(p)
  /\ UNCHANGED <<files, astray, pruned, outages>>

(* merge_batch and publish_snapshot: the snapshot that was loaded, with the*)
(* batch, replaces the revision's file.                                    *)
MergeIntoSnapshot(p) ==
  LET id == op[p].id
      base == IF op[p].seen = None THEN EmptySnapshot(op[p].tree) ELSE op[p].seen
  IN
  /\ At(p, "merge")
  /\ snaps' = [snaps EXCEPT ![Revision[id]] = Merged(base, id, op[p].tree)]
  /\ Return(p)
  /\ UNCHANGED <<files, astray, pruned, outages>>

-----------------------------------------------------------------------------
(* prune_before *)

StartPrune(p, cutoff) ==
  /\ At(p, "idle")
  /\ TryLock(p)
  /\ op' = [op EXCEPT ![p] = [cutoff |-> cutoff, doomed |-> {}, kept |-> {}, revs |-> {}]]
  /\ Goto(p, "scan")
  /\ UNCHANGED <<files, snaps, astray, pruned, outages>>

(* Every file of the directory is read, temporary ones too: one that does  *)
(* not parse ends the prune, and so does finding nothing old.              *)
Scan(p) ==
  LET old == {f \in files : LastSeen[f.id] < op[p].cutoff} IN
  /\ At(p, "scan")
  /\ \/ /\ (\E f \in files : ~f.whole) \/ old = {}
        /\ Return(p)
     \/ /\ \A f \in files : f.whole
        /\ old # {}
        /\ op' = [op EXCEPT ![p].doomed = old, ![p].kept = files \ old]
        /\ Goto(p, "remove")
        /\ UNCHANGED holders
  /\ UNCHANGED <<files, snaps, astray, pruned, outages>>

(* The old files go one by one. *)
RemoveBatch(p) ==
  /\ At(p, "remove")
  /\ \E f \in op[p].doomed :
       /\ files' = files \ {f}
       /\ op' = [op EXCEPT ![p].doomed = @ \ {f}]
       /\ IF op[p].doomed = {f} THEN Goto(p, "clear") ELSE UNCHANGED pc
  /\ pruned' = TRUE
  /\ UNCHANGED <<holders, snaps, astray, outages>>

(* A faulty ClearSnapshots: the old snapshots stay. *)
ClearNothing(p) ==
  /\ At(p, "clear")
  /\ Goto(p, "rebuild")
  /\ UNCHANGED <<holders, op, files, snaps, astray, pruned, outages>>

(* rebuild_revision_snapshots first removes every snapshot file. *)
ClearSnapshots(p) ==
  /\ At(p, "clear")
  /\ \/ \E r \in Revs :
          /\ snaps[r] # None
          /\ snaps' = [snaps EXCEPT ![r] = None]
          /\ UNCHANGED pc
     \/ /\ \A r \in Revs : snaps[r] = None
        /\ Goto(p, "rebuild")
        /\ UNCHANGED snaps
  /\ UNCHANGED <<holders, op, files, astray, pruned, outages>>

(* The kept batches are merged in memory; two graphs of one revision are an*)
(* error, with the snapshots gone.                                         *)
Rebuild(p) ==
  LET kept == op[p].kept
      mixed == \E f, g \in kept : Revision[f.id] = Revision[g.id] /\ f.tree # g.tree
  IN
  /\ At(p, "rebuild")
  /\ \/ /\ mixed
        /\ Return(p)
        /\ astray' = astray \cup Spoilt(p)
     \/ /\ ~mixed
        /\ op' = [op EXCEPT ![p].revs = {Revision[f.id] : f \in kept}]
        /\ Goto(p, "republish")
        /\ UNCHANGED <<holders, astray>>
  /\ UNCHANGED <<files, snaps, pruned, outages>>

(* The new snapshots are published one by one.  The last one ends what      *)
(* earlier failures did, but for their temporary files, which are counted. *)
Republish(p) ==
  LET kept == op[p].kept IN
  /\ At(p, "republish")
  /\ \/ \E r \in op[p].revs, f \in kept :
          /\ Revision[f.id] = r
          /\ snaps' = [snaps EXCEPT ![r] = [tree |-> f.tree, merged |-> CountedOnRebuild(kept, r)]]
          /\ op' = [op EXCEPT ![p].revs = @ \ {r}]
          /\ UNCHANGED <<holders, pc, astray>>
     \/ /\ op[p].revs = {}
        /\ Return(p)
        /\ astray' = {f.id : f \in {f \in files : f.pid # None}}
        /\ UNCHANGED snaps
  /\ UNCHANGED <<files, pruned, outages>>

-----------------------------------------------------------------------------
(* Failures *)

(* Any step under the lock may return an I/O error; the files stay. *)
IoError(p) ==
  /\ outages < MaxOutages
  /\ pc[p] # "idle"
  /\ Return(p)
  /\ astray' = astray \cup Spoilt(p)
  /\ outages' = outages + 1
  /\ UNCHANGED <<files, snaps, pruned>>

(* The process dies and another takes its place, under another pid.  That  *)
(* of one with nothing under way is of no concern until the lock is free:  *)
(* only its own next import looks for its temporary files.                 *)
Crash(p) ==
  /\ outages < MaxOutages
  /\ pc[p] # "idle" \/ LockIsFree
  /\ OwnerDies(p)
  /\ files' = {IF f.pid = p THEN [f EXCEPT !.pid = outages + 1] ELSE f : f \in files}
  /\ Goto(p, "idle")
  /\ op' = [op EXCEPT ![p] = None]
  /\ astray' = astray \cup Spoilt(p)
  /\ outages' = outages + 1
  /\ UNCHANGED <<snaps, pruned>>

ImportStep(p) ==
  \/ LoadExisting(p) \/ FindDuplicate(p) \/ CreateBatch(p)
  \/ WriteBatch(p) \/ RenameBatch(p) \/ MergeIntoSnapshot(p)

PruneStep(p) ==
  Scan(p) \/ RemoveBatch(p) \/ ClearSnapshots(p) \/ Rebuild(p) \/ Republish(p)

Next ==
  \E p \in Procs :
    \/ \E id \in Ids, tree \in Trees : StartImport(p, id, tree)
    \/ \E cutoff \in Cutoffs : StartPrune(p, cutoff)
    \/ ImportStep(p) \/ PruneStep(p)
    \/ IoError(p) \/ Crash(p)

Spec == Init /\ [][Next]_vars

-----------------------------------------------------------------------------
(* Properties *)

TimesCounted(r, id, t) == IF snaps[r] = None THEN 0 ELSE snaps[r].merged[<<id, t>>]
Counted(r, id) == IF snaps[r] = None THEN {} ELSE {t \in Trees : snaps[r].merged[<<id, t>>] > 0}

(* Types, a call in progress has its locals, and only the owner of the lock*)
(* has one in progress.                                                    *)
TypeOK ==
  /\ LockTypeOK
  /\ pc \in [Procs -> Importing \cup Pruning \cup {"idle"}]
  /\ op \in [Procs -> Import \cup Prune \cup {None}]
  /\ \A p \in Procs :
       /\ pc[p] = "idle" => op[p] = None
       /\ pc[p] \in Importing => op[p] \in Import
       /\ pc[p] \in Pruning => op[p] \in Prune
       /\ pc[p] # "idle" => Holds(p)
  /\ files \subseteq File
  /\ snaps \in [Revs -> Snapshot \cup {None}]
  /\ astray \subseteq Ids
  /\ pruned \in BOOLEAN
  /\ outages \in 0 .. MaxOutages

(* Whatever failed or crashed, and however imports and prunes were ordered,*)
(* once no writer is at work a snapshot counts each batch on disk once and *)
(* none that is not there.  The exceptions are named: the batch of an      *)
(* import that ended between its rename and its snapshot, what a prune that*)
(* ended early had begun to remove or to count anew, and, after a prune,   *)
(* the batches of imports that left a temporary file.  A prune that ends   *)
(* well repairs the first two.                                             *)
SnapshotsAreExact ==
  LockIsFree =>
    \A r \in Revs, id \in Ids \ astray, t \in Trees :
      TimesCounted(r, id, t) = IF Revision[id] = r /\ \E f \in Published(id) : f.tree = t THEN 1 ELSE 0

(* Until a prune removed something, a snapshot counts a batch at most once *)
(* and only if its file has its final name, whatever failed and was        *)
(* retried.                                                                *)
CountsOnlyKeptBatches ==
  ~pruned =>
    \A r \in Revs, id \in Ids, t \in Trees :
      snaps[r] # None /\ snaps[r].merged[<<id, t>>] > 0 =>
        /\ Revision[id] = r
        /\ snaps[r].merged[<<id, t>>] = 1
        /\ \E f \in Published(id) : f.tree = t

(* A snapshot never counts a batch that was resolved against another graph *)
(* than its own.                                                           *)
OneTreePerSnapshot ==
  \A r \in Revs, id \in Ids : snaps[r] # None => Counted(r, id) \subseteq {snaps[r].tree}

(* Snapshots and batches agree: each batch is counted once but for those   *)
(* that a failure touched, and those are not counted twice before a prune, *)
(* nor ever in the snapshot of another graph.                              *)
SnapshotsMatchBatches == SnapshotsAreExact /\ CountsOnlyKeptBatches /\ OneTreePerSnapshot

(* Only a prune forgets a batch, or makes a reader miss a snapshot.        *)
OnlyPruneForgets ==
  [][(\A p \in Procs : pc[p] \notin Pruning) =>
       \A r \in Revs, id \in Ids : Counted(r, id) \subseteq Counted(r, id)']_vars

=============================================================================
