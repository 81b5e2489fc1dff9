------------------------------- MODULE WriterLock -------------------------------
(***************************************************************************)
(* The writer lock every store of a state directory takes before it        *)
(* changes a file: WriterLock and acquire_writer_lock of                   *)
(* crates/cgrx-store/src/generation.rs.  A flock belongs to an open file   *)
(* description, not to a process: a forked child has a copy of the         *)
(* descriptor, and closing one copy leaves the lock to the others.         *)
(***************************************************************************)
CONSTANT Procs \* processes that write to the store

VARIABLE holders \* descriptors that refer to the locked description

Parent(p) == <<p, "parent">>
Child(p) == <<p, "child">>

LockInit == holders = {}

LockIsFree == holders = {}

(* The lock of a process that has it, whatever copies its children have. *)
Holds(p) == Parent(p) \in holders

(* acquire_writer_lock: a non-blocking flock on a fresh descriptor; when it*)
(* is taken the caller returns WouldBlock.                                 *)
TryLock(p) ==
  /\ LockIsFree
  /\ holders' = {Parent(p)}

(* Drop of WriterLock in the process that acquired it: LOCK_UN frees the   *)
(* description whoever still has a copy of the descriptor.                 *)
Unlock(p) ==
  /\ Holds(p)
  /\ holders' = {}

(* Every command a process runs is forked with a copy of its descriptors. *)
ForkChild(p) ==
  /\ Holds(p)
  /\ Child(p) \notin holders
  /\ holders' = holders \cup {Child(p)}

(* The child execs, exits or drops its copy of the guard: owner_pid is not *)
(* its pid, so it closes its descriptor and nothing else.                  *)
CloseChild(p) ==
  /\ Child(p) \in holders
  /\ holders' = holders \ {Child(p)}

(* The process exits or is killed: the system closes its descriptor. *)
OwnerDies(p) == holders' = holders \ {Parent(p)}

LockTypeOK == holders \subseteq Procs \X {"parent", "child"}

(* At most one process has the lock, and no child of another shares it. *)
OneDescription ==
  \A h, k \in holders : h[1] = k[1]
=============================================================================
