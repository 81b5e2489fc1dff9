------------------------------- MODULE MemoryStore -------------------------------
(***************************************************************************)
(* The decision memory: crates/cgrx-store/src/memory.rs.  A decision is one*)
(* file named after the hash of everything but the time it was recorded, so*)
(* a decision is abstracted to that identity.  record and prune_expired    *)
(* take the repository's writer lock, recall and status no lock.           *)
(***************************************************************************)
EXTENDS WriterLock, Naturals, FiniteSets, SequencesExt

CONSTANTS
  Ids,         \* decision identities, ordered as their file names are
  Confidence,  \* the confidence each decision declares
  Deadline,    \* its valid_until, or None
  Limits,      \* limits a recall may ask for
  MinConfidences, \* confidence thresholds a recall may ask for
  MaxTime,     \* bound: the clock stops here
  MaxOutages,  \* bound: crashes and I/O errors in a behaviour
  None         \* no value

ASSUME MemoryAssumption ==
  /\ Ids \subseteq Nat
  /\ Confidence \in [Ids -> Nat]
  /\ Deadline \in [Ids -> Nat \cup {None}]
  /\ Limits \cup MinConfidences \subseteq Nat
  /\ MaxTime \in Nat /\ MaxOutages \in Nat
  /\ None \notin Nat

VARIABLES
  pc,      \* where each process is
  op,      \* the locals of its call, or what its last call returned
  files,   \* [Ids -> time recorded, or None]: decisions/<id>.json
  temps,   \* decisions/<id>.tmp-<pid> of living processes: <<id, process>>
  clock,   \* the time of day
  acked,   \* [Ids -> time returned by the first successful record, or None]
  outages  \* failures so far

vars == <<holders, pc, op, files, temps, clock, acked, outages>>

Times == 0 .. MaxTime

Recording == {"lock", "check", "create", "rename", "sync"}
Reading == {"list", "test", "read"}
Pruning == {"prune"}

(* ahead: names that sorted_files has yet to come to; todo: the paths it   *)
(* listed and that are not read yet; kept: what the call has collected;    *)
(* moment, a history: the directory when the call began.                   *)
Record == [id : Ids, now : Times]
Read == [now : Times, least : MinConfidences, limit : Limits, ahead : SUBSET Ids,
         todo : SUBSET Ids, kept : SUBSET Ids, moment : SUBSET Ids]
Prune == [now : Times, dryRun : BOOLEAN, todo : SUBSET Ids]

Goto(p, stage) == pc' = [pc EXCEPT ![p] = stage]
At(p, stage) == pc[p] = stage
Keep(p, local) == op' = [op EXCEPT ![p] = local]

Stored(id) == files[id] # None
StoredIds == {id \in Ids : Stored(id)}

Expired(id, now) == Deadline[id] # None /\ Deadline[id] <= now

(* Most confident first, then by identity. *)
Before(i, j) ==
  \/ Confidence[i] > Confidence[j]
  \/ Confidence[i] = Confidence[j] /\ i < j

(* The first limit decisions of a set, in the order recall sorts them. *)
Best(set, limit) ==
  LET sorted == SetToSortSeq(set, Before)
  IN  SubSeq(sorted, 1, IF Len(sorted) < limit THEN Len(sorted) ELSE limit)

Init ==
  /\ LockInit
  /\ pc = [p \in Procs |-> "idle"]
  /\ op = [p \in Procs |-> None]
  /\ files = [id \in Ids |-> None]
  /\ temps = {}
  /\ clock = 0
  /\ acked = [id \in Ids |-> None]
  /\ outages = 0

Fail(p) == Goto(p, "idle") /\ Keep(p, None)

-----------------------------------------------------------------------------
(* record *)

(* normalize_input judges the deadline by the caller's clock, before the   *)
(* lock is asked for.                                                      *)
StartRecord(p, id) ==
  /\ At(p, "idle")
  /\ ~Expired(id, clock)
  /\ Keep(p, [id |-> id, now |-> clock])
  /\ Goto(p, "lock")
  /\ UNCHANGED <<holders, files, temps, clock, acked, outages>>

(* The lock is taken, or the call fails at once. *)
LockForRecord(p) ==
  /\ At(p, "lock")
  /\ \/ TryLock(p) /\ Goto(p, "check") /\ UNCHANGED op
     \/ ~LockIsFree /\ Fail(p) /\ UNCHANGED holders
  /\ UNCHANGED <<files, temps, clock, acked, outages>>

Acknowledge(id, time) ==
  acked' = [acked EXCEPT ![id] = IF @ = None THEN time ELSE @]

(* The file exists: the call reports a duplicate with the stored record.   *)
(* The identity hashes every other field, so a stored record that differs  *)
(* would be a collision of hashes.                                         *)
FindDuplicate(p) ==
  /\ At(p, "check")
  /\ Stored(op[p].id)
  /\ Acknowledge(op[p].id, files[op[p].id])
  /\ Unlock(p)
  /\ Fail(p)
  /\ UNCHANGED <<files, temps, clock, outages>>

(* A faulty NotThere: what is on disk is written again. *)
NotLooked(p) ==
  /\ At(p, "check")
  /\ Goto(p, "create")
  /\ UNCHANGED <<holders, op, files, temps, clock, acked, outages>>

NotThere(p) ==
  /\ At(p, "check")
  /\ ~Stored(op[p].id)
  /\ Goto(p, "create")
  /\ UNCHANGED <<holders, op, files, temps, clock, acked, outages>>

(* create_new refuses the temporary file a failed call of this process left*)
CreateTemp(p) ==
  LET temp == <<op[p].id, p>> IN
  /\ At(p, "create")
  /\ \/ temp \notin temps /\ temps' = temps \cup {temp} /\ Goto(p, "rename")
        /\ UNCHANGED <<holders, op>>
     \/ temp \in temps /\ Unlock(p) /\ Fail(p) /\ UNCHANGED temps
  /\ UNCHANGED <<files, clock, acked, outages>>

(* The file is whole and synced when it gets its name. *)
Rename(p) ==
  /\ At(p, "rename")
  /\ files' = [files EXCEPT ![op[p].id] = op[p].now]
  /\ temps' = temps \ {<<op[p].id, p>>}
  /\ Goto(p, "sync")
  /\ UNCHANGED <<holders, op, clock, acked, outages>>

SyncDecisions(p) ==
  /\ At(p, "sync")
  /\ Acknowledge(op[p].id, op[p].now)
  /\ Unlock(p)
  /\ Fail(p)
  /\ UNCHANGED <<files, temps, clock, outages>>

-----------------------------------------------------------------------------
(* recall and status: status is a recall that keeps every decision. *)

StartRead(p, least, limit) ==
  /\ At(p, "idle")
  /\ Keep(p, [now |-> clock, least |-> least, limit |-> limit, ahead |-> Ids,
              todo |-> {}, kept |-> {}, moment |-> StoredIds])
  /\ Goto(p, "list")
  /\ UNCHANGED <<holders, files, temps, clock, acked, outages>>

(* read_dir walks the directory in an order of its own while others record *)
(* and prune: a name is listed if its file is there when its turn comes.   *)
ListOne(p) ==
  /\ At(p, "list")
  /\ \E id \in op[p].ahead :
       LET found == IF Stored(id) THEN {id} ELSE {} IN
       Keep(p, [op[p] EXCEPT !.ahead = @ \ {id}, !.todo = @ \cup found])
  /\ UNCHANGED <<holders, pc, files, temps, clock, acked, outages>>

EndList(p) ==
  /\ At(p, "list")
  /\ op[p].ahead = {}
  /\ Keep(p, [op[p] EXCEPT !.ahead = op[p].todo])
  /\ Goto(p, "test")
  /\ UNCHANGED <<holders, files, temps, clock, acked, outages>>

(* Then is_file is asked of each path: one that is gone by now is left out *)
(* without an error.                                                       *)
TestOne(p) ==
  /\ At(p, "test")
  /\ \E id \in op[p].ahead :
       LET gone == IF Stored(id) THEN {} ELSE {id} IN
       Keep(p, [op[p] EXCEPT !.ahead = @ \ {id}, !.todo = @ \ gone])
  /\ UNCHANGED <<holders, pc, files, temps, clock, acked, outages>>

EndTest(p) ==
  /\ At(p, "test")
  /\ op[p].ahead = {}
  /\ Goto(p, "read")
  /\ UNCHANGED <<holders, op, files, temps, clock, acked, outages>>

Matches(id, read) == ~Expired(id, read.now) /\ Confidence[id] >= read.least

(* A faulty ReadOne: reading stops at the limit, before the rows are sorted*)
ReadUpToLimit(p) ==
  LET read == op[p]
      id == Min(read.todo)
      full == Cardinality(read.kept) = read.limit
      kept == IF Matches(id, read) /\ ~full THEN {id} ELSE {}
  IN
  /\ At(p, "read")
  /\ read.todo # {}
  /\ \/ /\ Stored(id)
        /\ Keep(p, [read EXCEPT !.todo = @ \ {id}, !.kept = @ \cup kept])
        /\ UNCHANGED pc
     \/ ~Stored(id) /\ Fail(p)
  /\ UNCHANGED <<holders, files, temps, clock, acked, outages>>

(* The next file is read; one that is gone fails the whole call. *)
ReadOne(p) ==
  LET read == op[p]
      id == Min(read.todo)
      kept == IF Matches(id, read) THEN {id} ELSE {}
  IN
  /\ At(p, "read")
  /\ read.todo # {}
  /\ \/ /\ Stored(id)
        /\ Keep(p, [read EXCEPT !.todo = @ \ {id}, !.kept = @ \cup kept])
        /\ UNCHANGED pc
     \/ ~Stored(id) /\ Fail(p)
  /\ UNCHANGED <<holders, files, temps, clock, acked, outages>>

Answer(p) ==
  LET read == op[p] IN
  /\ At(p, "read")
  /\ read.todo = {}
  /\ Keep(p, [read |-> read, answer |-> Best(read.kept, read.limit),
              truncated |-> Cardinality(read.kept) > read.limit])
  /\ Goto(p, "answered")
  /\ UNCHANGED <<holders, files, temps, clock, acked, outages>>

Forget(p) ==
  /\ At(p, "answered")
  /\ Fail(p)
  /\ UNCHANGED <<holders, files, temps, clock, acked, outages>>

-----------------------------------------------------------------------------
(* prune_expired *)

(* The caller's clock is read before the lock is taken. *)
StartPrune(p, dryRun) ==
  /\ At(p, "idle")
  /\ TryLock(p)
  /\ Keep(p, [now |-> clock, dryRun |-> dryRun, todo |-> StoredIds])
  /\ Goto(p, "prune")
  /\ UNCHANGED <<files, temps, clock, acked, outages>>

(* A faulty PruneOne: what expires at the next instant goes too. *)
PruneEarly(p) ==
  LET prune == op[p]
      id == Min(prune.todo)
      goes == Expired(id, prune.now + 1) /\ ~prune.dryRun
  IN
  /\ At(p, "prune")
  /\ prune.todo # {}
  /\ files' = IF goes THEN [files EXCEPT ![id] = None] ELSE files
  /\ Keep(p, [prune EXCEPT !.todo = @ \ {id}])
  /\ UNCHANGED <<holders, pc, temps, clock, acked, outages>>

PruneOne(p) ==
  LET prune == op[p]
      id == Min(prune.todo)
      goes == Expired(id, prune.now) /\ ~prune.dryRun
  IN
  /\ At(p, "prune")
  /\ prune.todo # {}
  /\ files' = IF goes THEN [files EXCEPT ![id] = None] ELSE files
  /\ Keep(p, [prune EXCEPT !.todo = @ \ {id}])
  /\ UNCHANGED <<holders, pc, temps, clock, acked, outages>>

EndPrune(p) ==
  /\ At(p, "prune")
  /\ op[p].todo = {}
  /\ Unlock(p)
  /\ Fail(p)
  /\ UNCHANGED <<files, temps, clock, acked, outages>>

-----------------------------------------------------------------------------
(* An operation on a file fails: the call returns the error and leaves what*)
(* it wrote.                                                               *)
IoError(p) ==
  /\ outages < MaxOutages
  /\ \E stage \in {"check", "create", "rename", "sync", "prune"} : At(p, stage)
  /\ outages' = outages + 1
  /\ Unlock(p)
  /\ Fail(p)
  /\ UNCHANGED <<files, temps, clock, acked>>

(* The process dies.  Its temporary files have no .json extension: nobody  *)
(* reads them, and no later process has their name.                        *)
Crash(p) ==
  /\ outages < MaxOutages
  /\ ~At(p, "idle")
  /\ outages' = outages + 1
  /\ OwnerDies(p)
  /\ Fail(p)
  /\ temps' = {t \in temps : t[2] # p}
  /\ UNCHANGED <<files, clock, acked>>

Tick ==
  /\ clock < MaxTime
  /\ clock' = clock + 1
  /\ UNCHANGED <<holders, pc, op, files, temps, acked, outages>>

Next ==
  \/ Tick
  \/ \E p \in Procs :
       \/ \E id \in Ids : StartRecord(p, id)
       \/ LockForRecord(p) \/ FindDuplicate(p) \/ NotThere(p)
       \/ CreateTemp(p) \/ Rename(p) \/ SyncDecisions(p)
       \/ \E least \in MinConfidences, limit \in Limits : StartRead(p, least, limit)
       \/ ListOne(p) \/ EndList(p) \/ TestOne(p) \/ EndTest(p)
       \/ ReadOne(p) \/ Answer(p) \/ Forget(p)
       \/ \E dryRun \in BOOLEAN : StartPrune(p, dryRun)
       \/ PruneOne(p) \/ EndPrune(p)
       \/ IoError(p) \/ Crash(p)

Spec == Init /\ [][Next]_vars

-----------------------------------------------------------------------------
(* Each variable has its type, and a call the locals of its stage. *)
TypeOK ==
  /\ LockTypeOK
  /\ pc \in [Procs -> {"idle", "answered"} \cup Recording \cup Reading \cup Pruning]
  /\ op = [p \in Procs |-> op[p]]
  /\ \A p \in Procs :
       /\ At(p, "idle") => op[p] = None
       /\ pc[p] \in Recording => op[p] \in Record
       /\ pc[p] \in Reading => op[p] \in Read
       /\ pc[p] \in Pruning => op[p] \in Prune
       /\ At(p, "answered") => op[p].read \in Read
  /\ files \in [Ids -> Times \cup {None}]
  /\ temps \subseteq Ids \X Procs
  /\ clock \in Times
  /\ acked \in [Ids -> Times \cup {None}]
  /\ outages \in 0 .. MaxOutages

(* A decision that was reported as recorded stays in the store, with the   *)
(* time it was first recorded at, until its deadline has passed: neither   *)
(* recording it again, a prune, an error nor a crash changes it.  After the*)
(* deadline a record that was judged in time and written late may bring it *)
(* back.                                                                   *)
RememberedUntilExpired ==
  \A id \in Ids : acked[id] # None /\ ~Expired(id, clock) => files[id] = acked[id]

(* A recall walks, tests and reads the directory without the lock, while   *)
(* others record and prune, and may leave out a file that is gone.  An     *)
(* answer is still the best of a set of decisions that has every matching  *)
(* one that was there when the call began and is valid yet, and none that  *)
(* neither is in the store nor has expired; and truncated tells whether    *)
(* some of that set are missing.                                           *)
RecallMissesNothingValid ==
  \A p \in Procs : At(p, "answered") =>
    LET read == op[p].read IN
    \E set \in SUBSET Ids :
      /\ \A id \in set : Matches(id, read) /\ (Stored(id) \/ Expired(id, clock))
      /\ \A id \in read.moment : Matches(id, read) /\ ~Expired(id, clock) => id \in set
      /\ op[p].answer = Best(set, read.limit)
      /\ op[p].truncated <=> Cardinality(set) > read.limit

(* A reader without the lock may find that a file it listed and tested is  *)
(* gone.  That never happens of a decision that is still valid.            *)
ReadsFailOnlyOfExpiry ==
  [][\A p \in Procs :
       /\ At(p, "read")
       /\ pc'[p] = "idle"
       /\ outages' = outages
       => Expired(Min(op[p].todo), clock)]_vars
=============================================================================
