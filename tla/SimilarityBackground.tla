-------------------------- MODULE SimilarityBackground --------------------------
(***************************************************************************)
(* The background similarity index of a runtime: SimilarityBackground of   *)
(* crates/cgrx-cli/src/runtime/refactors.rs.  The owner of the runtime     *)
(* schedules a build for its new graph; one worker thread takes the latest *)
(* job, builds it outside every lock, and publishes the index unless a     *)
(* later schedule has superseded it.  The queue mutex and the state lock   *)
(* are taken separately and the epoch is an atomic read under neither.     *)
(***************************************************************************)
EXTENDS Naturals

CONSTANTS
  Inputs,       \* graphs an index is built from
  Snapshots,    \* snapshot identities of those graphs
  SnapshotOf,   \* the snapshot each input is scheduled under
  Workers,      \* thread slots
  MaxSchedules, \* bound: schedules in a behaviour
  None          \* no value

ASSUME InputsAssumption == SnapshotOf \in [Inputs -> Snapshots] /\ None \notin Inputs
ASSUME SchedulesAssumption == MaxSchedules \in Nat
ASSUME WorkersAssumption == None \notin Workers /\ "owner" \notin Workers

VARIABLES
  owner,      \* where the runtime's owner is in schedule or drop
  latest,     \* the input of the owner's latest schedule
  epoch,      \* the atomic counter
  state,      \* what lookups see
  stateLock,  \* the worker that holds the write lock, or None
  pending,    \* the job in the queue, or None
  running,    \* the queue's flag
  queueLock,  \* who holds the queue mutex, or None
  worker      \* [Workers -> a thread's stage and job, or None]

vars == <<owner, latest, epoch, state, stateLock, pending, running, queueLock, worker>>
queue == <<pending, running, queueLock>>

Job == [epoch : 0 .. MaxSchedules + 1, input : Inputs]
State == [snapshot : Snapshots, index : Inputs \cup {None}, building : BOOLEAN, failed : BOOLEAN]
Thread == [at : {"take", "build", "finish", "publish"}, job : Job \cup {None}]

ASSUME ValuesAssumption == None \notin Job /\ None \notin Thread

Alive == {w \in Workers : worker[w] # None}
Cancelled(w) == epoch # worker[w].job.epoch

(* ready: the index the store was opened with. *)
Init ==
  /\ \E input \in Inputs :
       /\ latest = input
       /\ state = [snapshot |-> SnapshotOf[input], index |-> input, building |-> FALSE, failed |-> FALSE]
  /\ owner = "idle"
  /\ epoch = 0
  /\ stateLock = None
  /\ pending = None
  /\ running = FALSE
  /\ queueLock = None
  /\ worker = [w \in Workers |-> None]

-----------------------------------------------------------------------------
(* schedule *)

(* The epoch advances: whatever is being built is cancelled. *)
AdvanceEpoch(input) ==
  /\ owner = "idle"
  /\ epoch < MaxSchedules
  /\ epoch' = epoch + 1
  /\ latest' = input
  /\ owner' = "invalidate"
  /\ UNCHANGED <<state, stateLock, queue, worker>>

(* Under the state lock: the new snapshot has no index yet. *)
Invalidate ==
  /\ owner = "invalidate"
  /\ stateLock = None
  /\ state' = [snapshot |-> SnapshotOf[latest], index |-> None, building |-> TRUE, failed |-> FALSE]
  /\ owner' = "enqueue"
  /\ UNCHANGED <<latest, epoch, stateLock, queue, worker>>

(* The job replaces one that was not taken; a running worker will take it. *)
Enqueue ==
  /\ owner = "enqueue"
  /\ queueLock = None
  /\ pending' = [epoch |-> epoch, input |-> latest]
  /\ \/ /\ running
        /\ owner' = "idle"
        /\ UNCHANGED <<running, queueLock>>
     \/ /\ ~running
        /\ running' = TRUE
        /\ queueLock' = "owner"
        /\ owner' = "spawn"
  /\ UNCHANGED <<latest, epoch, state, stateLock, worker>>

(* The thread starts while the queue is still locked. *)
SpawnWorker ==
  /\ owner = "spawn"
  /\ \E w \in Workers :
       /\ worker[w] = None
       /\ worker' = [worker EXCEPT ![w] = [at |-> "take", job |-> None]]
  /\ queueLock' = None
  /\ owner' = "idle"
  /\ UNCHANGED <<latest, epoch, state, stateLock, pending, running>>

(* A faulty SpawnFails: the queue believes a worker runs. *)
SpawnFailsKeepingFlag ==
  /\ owner = "spawn"
  /\ pending' = None
  /\ owner' = "fail"
  /\ UNCHANGED <<latest, epoch, state, stateLock, running, queueLock, worker>>

(* The thread could not be created: the queue is emptied... *)
SpawnFails ==
  /\ owner = "spawn"
  /\ running' = FALSE
  /\ pending' = None
  /\ owner' = "fail"
  /\ UNCHANGED <<latest, epoch, state, stateLock, queueLock, worker>>

(* ... and, still under the queue lock, the failure recorded. *)
RecordFailure ==
  /\ owner = "fail"
  /\ stateLock = None
  /\ state' = [state EXCEPT !.building = FALSE, !.failed = TRUE]
  /\ queueLock' = None
  /\ owner' = "idle"
  /\ UNCHANGED <<latest, epoch, stateLock, pending, running, worker>>

-----------------------------------------------------------------------------
(* drop *)

(* The runtime is dropped: the epoch advances, then the queue is emptied. *)
StartDrop ==
  /\ owner = "idle"
  /\ epoch' = epoch + 1
  /\ owner' = "drop"
  /\ UNCHANGED <<latest, state, stateLock, queue, worker>>

FinishDrop ==
  /\ owner = "drop"
  /\ queueLock = None
  /\ pending' = None
  /\ owner' = "dropped"
  /\ UNCHANGED <<latest, epoch, state, stateLock, running, queueLock, worker>>

-----------------------------------------------------------------------------
(* The worker thread *)

(* Nothing to do: the flag falls and the thread ends under the queue lock. *)
Exit(w) ==
  /\ worker[w] # None
  /\ worker[w].at = "take"
  /\ queueLock = None
  /\ pending = None
  /\ running' = FALSE
  /\ worker' = [worker EXCEPT ![w] = None]
  /\ UNCHANGED <<owner, latest, epoch, state, stateLock, pending, queueLock>>

TakeJob(w) ==
  /\ worker[w] # None
  /\ worker[w].at = "take"
  /\ queueLock = None
  /\ pending # None
  /\ worker' = [worker EXCEPT ![w] = [at |-> "build", job |-> pending]]
  /\ pending' = None
  /\ UNCHANGED <<owner, latest, epoch, state, stateLock, running, queueLock>>

(* build_similarity_index_cancellable reads the epoch now and then: it gives*)
(* up if one of its reads finds it advanced, and else completes.           *)
Build(w) ==
  /\ worker[w] # None
  /\ worker[w].at = "build"
  /\ \/ worker' = [worker EXCEPT ![w].at = "finish"]
     \/ /\ Cancelled(w)
        /\ worker' = [worker EXCEPT ![w] = [at |-> "take", job |-> None]]
  /\ UNCHANGED <<owner, latest, epoch, state, stateLock, queue>>

(* A faulty CheckResult: the epoch is not compared. *)
CheckSnapshotOnly(w) ==
  /\ worker[w] # None
  /\ worker[w].at = "finish"
  /\ stateLock = None
  /\ \/ /\ state.snapshot = SnapshotOf[worker[w].job.input]
        /\ stateLock' = w
        /\ worker' = [worker EXCEPT ![w].at = "publish"]
     \/ /\ state.snapshot # SnapshotOf[worker[w].job.input]
        /\ worker' = [worker EXCEPT ![w] = [at |-> "take", job |-> None]]
        /\ UNCHANGED stateLock
  /\ UNCHANGED <<owner, latest, epoch, state, queue>>

(* Under the state lock: the index is dropped if it is not of the state's  *)
(* snapshot or was superseded.                                             *)
CheckResult(w) ==
  LET job == worker[w].job
      valid == state.snapshot = SnapshotOf[job.input] /\ ~Cancelled(w)
  IN
  /\ worker[w] # None
  /\ worker[w].at = "finish"
  /\ stateLock = None
  /\ \/ /\ valid
        /\ stateLock' = w
        /\ worker' = [worker EXCEPT ![w].at = "publish"]
     \/ /\ ~valid
        /\ worker' = [worker EXCEPT ![w] = [at |-> "take", job |-> None]]
        /\ UNCHANGED stateLock
  /\ UNCHANGED <<owner, latest, epoch, state, queue>>

(* The epoch may advance meanwhile, the state cannot. *)
PublishIndex(w) ==
  /\ worker[w] # None
  /\ worker[w].at = "publish"
  /\ state' = [state EXCEPT !.index = worker[w].job.input, !.building = FALSE, !.failed = FALSE]
  /\ stateLock' = None
  /\ worker' = [worker EXCEPT ![w] = [at |-> "take", job |-> None]]
  /\ UNCHANGED <<owner, latest, epoch, queue>>

-----------------------------------------------------------------------------

Schedule ==
  \/ \E input \in Inputs : AdvanceEpoch(input)
  \/ Invalidate \/ Enqueue \/ SpawnWorker \/ SpawnFails \/ RecordFailure

Work(w) == Exit(w) \/ TakeJob(w) \/ Build(w) \/ CheckResult(w) \/ PublishIndex(w)

(* Nothing is left to do once the runtime is dropped and its worker gone. *)
Terminated ==
  /\ owner = "dropped"
  /\ Alive = {}
  /\ UNCHANGED vars

Next ==
  \/ Schedule
  \/ StartDrop \/ FinishDrop
  \/ \E w \in Workers : Work(w)
  \/ Terminated

(* A call the owner made runs on, and so does a thread. *)
Fairness ==
  /\ WF_vars(Invalidate \/ Enqueue \/ SpawnWorker \/ SpawnFails \/ RecordFailure \/ FinishDrop)
  /\ \A w \in Workers : WF_vars(Work(w))

Spec == Init /\ [][Next]_vars
FairSpec == Spec /\ Fairness

-----------------------------------------------------------------------------
(* Properties *)

(* Types, and each lock is held only at the steps that hold it. *)
TypeOK ==
  /\ owner \in {"idle", "invalidate", "enqueue", "spawn", "fail", "drop", "dropped"}
  /\ latest \in Inputs
  /\ epoch \in 0 .. MaxSchedules + 1
  /\ state \in State
  /\ stateLock \in Workers \cup {None}
  /\ \A w \in Workers : stateLock = w <=> worker[w] # None /\ worker[w].at = "publish"
  /\ pending \in Job \cup {None}
  /\ running \in BOOLEAN
  /\ queueLock = IF owner \in {"spawn", "fail"} THEN "owner" ELSE None
  /\ worker \in [Workers -> Thread \cup {None}]

(* A worker never publishes into a newer graph: once the owner is back from*)
(* schedule, an index that lookups of its snapshot see was built from the  *)
(* input it scheduled last.                                                *)
IndexIsOfLatest ==
  owner \in {"idle", "enqueue", "spawn", "fail"} /\ state.index # None => state.index = latest

(* At most one thread builds, and the flag says whether it is there.       *)
OneWorker ==
  /\ \A v, w \in Alive : v = w
  /\ owner # "spawn" => (running <=> Alive # {})

(* Once the owner rests, lookups are told the truth: the index is being    *)
(* built only if a thread will finish it, and one that is not has an index *)
(* or a failure.                                                           *)
StatusIsTrue ==
  owner = "idle" =>
    IF state.building
    THEN \/ pending # None /\ pending.input = latest /\ Alive # {}
         \/ \E w \in Alive : worker[w].job # None /\ worker[w].job.epoch = epoch
    ELSE state.index # None <=> ~state.failed

(* Lookups are served one index, of the graph scheduled last, by the one   *)
(* thread that builds it, and told the truth about it.                     *)
LookupsAreSound == IndexIsOfLatest /\ OneWorker /\ StatusIsTrue

(* A build always ends, in an index or a failure, unless it is superseded  *)
(* or its runtime dropped.                                                 *)
BuildSettles ==
  \A e \in 1 .. MaxSchedules :
    (epoch = e /\ state.building) ~>
      (epoch # e \/ ~state.building \/ owner \in {"drop", "dropped"})
=============================================================================
