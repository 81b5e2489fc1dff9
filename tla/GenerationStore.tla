---------------------------- MODULE GenerationStore ----------------------------
(***************************************************************************)
(* The durable generation store: crates/cgrx-store/src/generation.rs, the  *)
(* segment files under it, and its one caller, index_source of the cgrx    *)
(* runtime.  Processes index a revision into an immutable generation and   *)
(* make CURRENT name it; readers open CURRENT without a lock.              *)
(*                                                                         *)
(* The state of the disk is what a running process sees (tmp, final,       *)
(* current) together with what a loss of power would leave: a directory's  *)
(* entries may vanish until it is synced, a rename of a generation may be  *)
(* undone until the generations directory is synced (floating), and        *)
(* CURRENT falls back to safeCurrent until the store directory is synced.  *)
(***************************************************************************)
EXTENDS WriterLock, Naturals

CONSTANTS
  Readers,      \* processes that only open the current generation
  Gens,         \* generation identifiers: a hash of revision, extractor, SCIP
  Contents,     \* what extraction can produce for a generation
  SegmentCount, \* number of required segments
  MaxOutages,   \* bound: crashes, I/O errors and power losses in a behaviour
  None          \* no value

ASSUME SegmentCountAssumption == SegmentCount \in Nat \ {0}
ASSUME MaxOutagesAssumption == MaxOutages \in Nat
VARIABLES
  pc,          \* where each indexing process is
  op,          \* what each process is publishing
  tmp,         \* [Gens -> directory or None]: generations/.<g>.tmp
  final,       \* [Gens -> directory or None]: generations/<g>
  floating,    \* generations whose rename is not durable
  ptmp,        \* CURRENT.tmp, a pointer or None
  current,     \* CURRENT, a pointer or None
  safeCurrent, \* CURRENT as the last sync of the store directory left it
  view,        \* what each reader has read
  outages      \* failures so far

disk == <<tmp, final, floating, ptmp, current, safeCurrent>>
vars == <<holders, pc, op, disk, view, outages>>

Segments == 1 .. SegmentCount
SegmentFiles == [Segments -> Contents \cup {None}]

(* A directory: its segment files, the segments its manifest lists by      *)
(* hash, and whether its entries are durable.                              *)
Directory == [seg : SegmentFiles, man : SegmentFiles \cup {None}, synced : BOOLEAN]
EmptyDirectory == [seg |-> [s \in Segments |-> None], man |-> None, synced |-> FALSE]

(* A CURRENT file: the generation written, whether all of its bytes are,   *)
(* and whether they are durable.                                           *)
Pointer == [gen : Gens, whole : BOOLEAN, synced : BOOLEAN]

(* What a process publishes, and what a reader has read. *)
Writer == [gen : Gens, content : Contents]
View == [gen : Gens, phase : {"named", "open", "failed"}, man : SegmentFiles \cup {None}]

(* None is no generation, content, segment list, directory, pointer, writer*)
(* or view.                                                                *)
ASSUME NoneAssumption ==
  /\ None \notin Gens
  /\ None \notin Contents
  /\ None \notin SegmentFiles
  /\ None \notin Directory
  /\ None \notin Pointer
  /\ None \notin Writer
  /\ None \notin View

(* The segments of a run whose extraction produced c. *)
Built(c) == [s \in Segments |-> c]

(* validate_generation_dir: a manifest, every segment, every hash. *)
Valid(d) == d # None /\ d.man # None /\ d.man = d.seg /\ \A s \in Segments : d.seg[s] # None

(* The generation open_current resolves CURRENT to, or None for its errors. *)
Resolves(pointer) ==
  IF pointer # None /\ pointer.whole /\ Valid(final[pointer.gen]) THEN pointer.gen ELSE None

Locked == {"begin", "write", "validate", "sync", "revalidate", "rename", "syncNames",
           "pointer", "fill", "syncPointer", "swap", "syncStore", "reactivate"}
Stages == Locked \cup {"idle", "exists"}

Goto(p, stage) == pc' = [pc EXCEPT ![p] = stage]
At(p, stage) == pc[p] = stage

(* The call returns: the writer and the locals of the call are dropped. *)
Return(p) ==
  /\ pc' = [pc EXCEPT ![p] = "idle"]
  /\ op' = [op EXCEPT ![p] = None]

-----------------------------------------------------------------------------
(* Publication *)

Init ==
  /\ LockInit
  /\ pc = [p \in Procs |-> "idle"]
  /\ op = [p \in Procs |-> None]
  /\ tmp = [g \in Gens |-> None]
  /\ final = [g \in Gens |-> None]
  /\ floating = {}
  /\ ptmp = None
  /\ current = None
  /\ safeCurrent = None
  /\ view = [r \in Readers |-> None]
  /\ outages = 0

(* index_source reuses a current generation of this snapshot; otherwise it *)
(* extracts and calls begin, which takes the lock or fails with store_busy.*)
StartIndex(p, g, c) ==
  /\ At(p, "idle")
  /\ Resolves(current) # g
  /\ TryLock(p)
  /\ op' = [op EXCEPT ![p] = [gen |-> g, content |-> c]]
  /\ Goto(p, "begin")
  /\ UNCHANGED <<disk, view, outages>>

(* begin under the lock, a new generation: a stale temporary directory is  *)
(* removed, a fresh one created and its name made durable.                 *)
CreateTemporary(p) ==
  LET g == op[p].gen IN
  /\ At(p, "begin")
  /\ final[g] = None
  /\ tmp' = [tmp EXCEPT ![g] = EmptyDirectory]
  /\ floating' = {}
  /\ Goto(p, "write")
  /\ UNCHANGED <<holders, op, final, ptmp, current, safeCurrent, view, outages>>

(* begin finds the generation: it returns AlreadyExists and, with it, drops*)
(* the lock; the stale temporary directory is already gone.                *)
FindExisting(p) ==
  LET g == op[p].gen IN
  /\ At(p, "begin")
  /\ final[g] # None
  /\ tmp' = [tmp EXCEPT ![g] = None]
  /\ Unlock(p)
  /\ Goto(p, "exists")
  /\ UNCHANGED <<op, final, floating, ptmp, current, safeCurrent, view, outages>>

(* write_segment, in the order of REQUIRED_SEGMENTS. *)
WriteSegment(p) ==
  LET g == op[p].gen IN
  /\ At(p, "write")
  /\ \E s \in Segments :
       /\ \A t \in 1 .. s - 1 : tmp[g].seg[t] # None
       /\ tmp[g].seg[s] = None
       /\ tmp' = [tmp EXCEPT ![g].seg[s] = op[p].content]
       /\ IF s = SegmentCount THEN Goto(p, "validate") ELSE UNCHANGED pc
  /\ UNCHANGED <<holders, op, final, floating, ptmp, current, safeCurrent, view, outages>>

(* validate: the manifest lists the segments as they are read back. *)
Validate(p) ==
  LET g == op[p].gen IN
  /\ At(p, "validate")
  /\ tmp[g].man = None
  /\ tmp' = [tmp EXCEPT ![g].man = tmp[g].seg]
  /\ Goto(p, "sync")
  /\ UNCHANGED <<holders, op, final, floating, ptmp, current, safeCurrent, view, outages>>

(* A faulty SyncTemporary: it forgets to sync. *)
SyncTemporarySkipped(p) ==
  /\ At(p, "sync")
  /\ Goto(p, "revalidate")
  /\ UNCHANGED <<holders, op, disk, view, outages>>

(* publish: sync every segment, the manifest and the temporary directory. *)
SyncTemporary(p) ==
  LET g == op[p].gen IN
  /\ At(p, "sync")
  /\ tmp' = [tmp EXCEPT ![g].synced = TRUE]
  /\ Goto(p, "revalidate")
  /\ UNCHANGED <<holders, op, final, floating, ptmp, current, safeCurrent, view, outages>>

(* publish: the synced directory is validated once more. *)
Revalidate(p) ==
  /\ At(p, "revalidate")
  /\ Valid(tmp[op[p].gen])
  /\ Goto(p, "rename")
  /\ UNCHANGED <<holders, op, disk, view, outages>>

(* publish: the directory takes its final name, not yet durably. *)
Rename(p) ==
  LET g == op[p].gen IN
  /\ At(p, "rename")
  /\ final[g] = None
  /\ final' = [final EXCEPT ![g] = tmp[g]]
  /\ tmp' = [tmp EXCEPT ![g] = None]
  /\ floating' = floating \cup {g}
  /\ Goto(p, "syncNames")
  /\ UNCHANGED <<holders, op, ptmp, current, safeCurrent, view, outages>>

(* publish and reactivate: sync the generations directory. *)
SyncNames(p) ==
  /\ At(p, "syncNames")
  /\ floating' = {}
  /\ Goto(p, "pointer")
  /\ UNCHANGED <<holders, op, tmp, final, ptmp, current, safeCurrent, view, outages>>

(* reactivate takes the lock anew: another process may have it by now. *)
Reactivate(p) ==
  /\ At(p, "exists")
  /\ \/ /\ TryLock(p)
        /\ Goto(p, "reactivate")
        /\ UNCHANGED op
     \/ /\ ~LockIsFree
        /\ Return(p)
        /\ UNCHANGED holders
  /\ UNCHANGED <<disk, view, outages>>

(* reactivate: the generation must be valid and byte-identical to what this*)
(* run produced; it is never repaired.                                     *)
CompareExisting(p) ==
  LET d == final[op[p].gen] IN
  /\ At(p, "reactivate")
  /\ \/ /\ Valid(d)
        /\ d.seg = Built(op[p].content)
        /\ Goto(p, "syncNames")
        /\ UNCHANGED <<holders, op>>
     \/ /\ ~(Valid(d) /\ d.seg = Built(op[p].content))
        /\ Unlock(p)
        /\ Return(p)
  /\ UNCHANGED <<disk, view, outages>>

(* publish_current: a leftover CURRENT.tmp is removed, a new one created. *)
CreatePointer(p) ==
  /\ At(p, "pointer")
  /\ ptmp' = [gen |-> op[p].gen, whole |-> FALSE, synced |-> FALSE]
  /\ Goto(p, "fill")
  /\ UNCHANGED <<holders, op, tmp, final, floating, current, safeCurrent, view, outages>>

(* publish_current: the 17 bytes are written one by one; the last makes it *)
(* whole.                                                                  *)
FillPointer(p) ==
  /\ At(p, "fill")
  /\ ptmp' = [ptmp EXCEPT !.whole = TRUE]
  /\ Goto(p, "syncPointer")
  /\ UNCHANGED <<holders, op, tmp, final, floating, current, safeCurrent, view, outages>>

(* A faulty SyncPointer: CURRENT.tmp is swapped in unsynced. *)
SyncPointerSkipped(p) ==
  /\ At(p, "syncPointer")
  /\ Goto(p, "swap")
  /\ UNCHANGED <<holders, op, disk, view, outages>>

(* publish_current: fsync of CURRENT.tmp. *)
SyncPointer(p) ==
  /\ At(p, "syncPointer")
  /\ ptmp' = [ptmp EXCEPT !.synced = TRUE]
  /\ Goto(p, "swap")
  /\ UNCHANGED <<holders, op, tmp, final, floating, current, safeCurrent, view, outages>>

(* publish_current: CURRENT.tmp replaces CURRENT. *)
SwapPointer(p) ==
  /\ At(p, "swap")
  /\ current' = ptmp
  /\ ptmp' = None
  /\ Goto(p, "syncStore")
  /\ UNCHANGED <<holders, op, tmp, final, floating, safeCurrent, view, outages>>

(* publish_current: sync of the store directory; the writer is dropped. *)
SyncStore(p) ==
  /\ At(p, "syncStore")
  /\ safeCurrent' = current
  /\ Unlock(p)
  /\ Return(p)
  /\ UNCHANGED <<tmp, final, floating, ptmp, current, view, outages>>

-----------------------------------------------------------------------------
(* Failures *)

(* The process runs a command, git or another, while it has the lock. *)
Fork(p) ==
  /\ ForkChild(p)
  /\ UNCHANGED <<pc, op, disk, view, outages>>

ChildExit(p) ==
  /\ CloseChild(p)
  /\ UNCHANGED <<pc, op, disk, view, outages>>

(* A faulty IoError: the error path forgets the guard. *)
ErrorKeepsLock(p) ==
  /\ outages < MaxOutages
  /\ pc[p] \in Locked
  /\ Return(p)
  /\ outages' = outages + 1
  /\ UNCHANGED <<holders, disk, view>>

(* Any step of the publication may return an I/O error: the writer is      *)
(* dropped, the files stay as they are.                                    *)
IoError(p) ==
  /\ outages < MaxOutages
  /\ pc[p] \in Locked
  /\ Unlock(p)
  /\ Return(p)
  /\ outages' = outages + 1
  /\ UNCHANGED <<disk, view>>

(* The process exits between two steps; its children live on. *)
Crash(p) ==
  /\ outages < MaxOutages
  /\ pc[p] # "idle"
  /\ OwnerDies(p)
  /\ Return(p)
  /\ outages' = outages + 1
  /\ UNCHANGED <<disk, view>>

(* What a directory holds after power is lost: entries that were not       *)
(* durable may be gone.                                                    *)
Survivors(d) ==
  IF d = None THEN {None}
  ELSE IF d.synced THEN {d}
  ELSE {[seg |-> [s \in Segments |-> IF s \in kept THEN d.seg[s] ELSE None],
         man |-> man, synced |-> TRUE] : kept \in SUBSET Segments, man \in {None, d.man}}

(* What a pointer file holds: bytes that were not durable may be missing.  *)
SurvivingPointers(p) ==
  IF p = None THEN {None}
  ELSE IF p.synced THEN {p}
  ELSE {[p EXCEPT !.whole = whole, !.synced = TRUE] : whole \in {FALSE, p.whole}}

(* Power is lost: every process is gone, a rename that was not durable may *)
(* be undone, and CURRENT is the last one or the last durable one.         *)
PowerLoss ==
  /\ outages < MaxOutages
  /\ \E undone \in SUBSET floating :
       LET named == [g \in Gens |-> IF g \in undone THEN None ELSE final[g]]
           temporary == [g \in Gens |-> IF g \in undone THEN final[g] ELSE tmp[g]]
       IN /\ final' \in [Gens -> UNION {Survivors(named[g]) : g \in Gens}]
          /\ \A g \in Gens : final'[g] \in Survivors(named[g])
          /\ tmp' \in [Gens -> UNION {Survivors(temporary[g]) : g \in Gens}]
          /\ \A g \in Gens : tmp'[g] \in Survivors(temporary[g])
  /\ current' \in SurvivingPointers(current) \cup SurvivingPointers(safeCurrent)
  /\ safeCurrent' = current'
  /\ ptmp' \in {None} \cup SurvivingPointers(ptmp)
  /\ floating' = {}
  /\ holders' = {}
  /\ pc' = [p \in Procs |-> "idle"]
  /\ op' = [p \in Procs |-> None]
  /\ view' = [r \in Readers |-> None]
  /\ outages' = outages + 1

-----------------------------------------------------------------------------
(* Readers *)

(* open_current reads CURRENT. *)
ReadPointer(r) ==
  /\ view[r] = None
  /\ current # None
  /\ view' = [view EXCEPT ![r] =
       [gen |-> current.gen, phase |-> IF current.whole THEN "named" ELSE "failed", man |-> None]]
  /\ UNCHANGED <<holders, pc, op, disk, outages>>

(* open_current validates the generation that CURRENT named. *)
OpenGeneration(r) ==
  LET d == final[view[r].gen] IN
  /\ view[r] # None
  /\ view[r].phase = "named"
  /\ view' = [view EXCEPT ![r] =
       IF Valid(d) THEN [@ EXCEPT !.phase = "open", !.man = d.man] ELSE [@ EXCEPT !.phase = "failed"]]
  /\ UNCHANGED <<holders, pc, op, disk, outages>>

(* The reader is dropped, or its error reported. *)
CloseReader(r) ==
  /\ view[r] # None
  /\ view[r].phase \in {"open", "failed"}
  /\ view' = [view EXCEPT ![r] = None]
  /\ UNCHANGED <<holders, pc, op, disk, outages>>

-----------------------------------------------------------------------------

Advance(p) ==
  \/ CreateTemporary(p) \/ FindExisting(p)
  \/ WriteSegment(p) \/ Validate(p)
  \/ SyncTemporary(p) \/ Revalidate(p) \/ Rename(p) \/ SyncNames(p)
  \/ Reactivate(p) \/ CompareExisting(p)
  \/ CreatePointer(p) \/ FillPointer(p) \/ SyncPointer(p) \/ SwapPointer(p) \/ SyncStore(p)

Fail(p) == IoError(p) \/ Crash(p)

Read(r) == ReadPointer(r) \/ OpenGeneration(r) \/ CloseReader(r)

Next ==
  \/ \E p \in Procs, g \in Gens, c \in Contents : StartIndex(p, g, c)
  \/ \E p \in Procs : Advance(p) \/ Fork(p) \/ ChildExit(p) \/ Fail(p)
  \/ PowerLoss
  \/ \E r \in Readers : Read(r)

Spec == Init /\ [][Next]_vars

(* A running process runs on, and a forked child execs or exits. *)
Fairness == \A p \in Procs : WF_vars(Advance(p)) /\ WF_vars(ChildExit(p))

FairSpec == Spec /\ Fairness

-----------------------------------------------------------------------------
(* Properties *)

(* Types, and a call in progress has a writer exactly while it runs. *)
TypeOK ==
  /\ LockTypeOK
  /\ pc \in [Procs -> Stages]
  /\ op \in [Procs -> Writer \cup {None}]
  /\ \A p \in Procs : op[p] = None <=> pc[p] = "idle"
  /\ tmp \in [Gens -> Directory \cup {None}]
  /\ final \in [Gens -> Directory \cup {None}]
  /\ floating \subseteq Gens
  /\ ptmp \in Pointer \cup {None}
  /\ current \in Pointer \cup {None}
  /\ safeCurrent \in Pointer \cup {None}
  /\ view \in [Readers -> View \cup {None}]
  /\ outages \in 0 .. MaxOutages

(* Two processes never publish at once, whatever crashed, failed or forked. *)
MutualExclusion ==
  \A p, q \in Procs : pc[p] \in Locked /\ pc[q] \in Locked => p = q

(* CURRENT, once there is one, always resolves to a complete generation,   *)
(* and so does the CURRENT a loss of power would fall back to; neither     *)
(* rests on a rename that the loss could undo.                             *)
CurrentResolves ==
  \A pointer \in {current, safeCurrent} :
     pointer # None => /\ pointer.synced
                       /\ Resolves(pointer) = pointer.gen
                       /\ final[pointer.gen].synced
                       /\ pointer.gen \notin floating

(* A reader that found CURRENT never fails to open what it names, however  *)
(* late it does, and the files it reads afterwards stay those its manifest *)
(* lists.                                                                  *)
ReaderSeesOneGeneration ==
  \A r \in Readers :
     view[r] # None =>
       /\ view[r].phase # "failed"
       /\ view[r].phase = "open" => /\ Valid(final[view[r].gen])
                                    /\ final[view[r].gen].seg = view[r].man

(* Writers exclude each other, CURRENT always names a whole generation, and*)
(* readers without a lock see one that stays.                              *)
StoreIsSound == MutualExclusion /\ CurrentResolves /\ ReaderSeesOneGeneration

(* The lock is never lost to a failure: it is free again and again. *)
LockComesFree == []<>LockIsFree

(* The store implements the abstract one: a generation is installed when   *)
(* its rename is visible, and durable when that rename is.                 *)
Installed == [g \in Gens |-> IF Valid(final[g]) THEN final[g].seg[1] ELSE None]

Promise == INSTANCE PublishedGenerations WITH
  installed <- Installed,
  hardened <- {g \in Gens : Installed[g] # None} \ floating,
  pointer <- IF current = None THEN None ELSE current.gen,
  safePointer <- IF safeCurrent = None THEN None ELSE safeCurrent.gen

RefinesPromise == Promise!Spec
=============================================================================
