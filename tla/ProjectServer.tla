------------------------------ MODULE ProjectServer ------------------------------
(***************************************************************************)
(* The project slots of the graph browser server: ProjectServer of         *)
(* crates/cgrx-cli/src/visualize/projects.rs and its pools, pool.rs.       *)
(* Connection threads look a project's slot up, opening one and evicting   *)
(* another if need be, and answer from the response cache or hand a job to *)
(* a bounded pool.  Pool threads open, refresh and query the runtime of a  *)
(* slot.  Each critical section is one step: a thread takes the cache lock *)
(* within the lock of the map or of a slot's state, and nothing within the *)
(* cache lock; a slot's runtime stays locked over several steps of a job.  *)
(***************************************************************************)
EXTENDS Naturals, Sequences, FiniteSets, SequencesExt

CONSTANTS
  Projects,  \* projects of the catalogue
  Slots,     \* identities of slots in memory
  Snapshots, \* snapshots a graph can have
  Keys,      \* requests, less their project
  Status,    \* the one of them that may refresh the graph, /api/status
  Conns,     \* connection threads
  Openers,   \* threads of the work pool
  Queriers,  \* threads of the query pool
  MaxOpen,   \* MAX_OPEN_PROJECTS
  Capacity,  \* of either pool's queue
  None       \* no value

ASSUME KeysAssumption == Status \in Keys
ASSUME LimitsAssumption == MaxOpen \in Nat \ {0} /\ Capacity \in Nat \ {0}

VARIABLES
  slot,    \* [Slots -> slot or None]: those something refers to
  open,    \* [Projects -> Slots or None]: the map of slots
  recent,  \* the open projects, the latest used last
  cache,   \* the response cache
  conn,    \* [Conns -> request in progress or None]
  work,    \* the queue of the work pool
  queries, \* the queue of the query pool
  worker   \* [pool threads -> job in progress or None]

vars == <<slot, open, recent, cache, conn, work, queries, worker>>
pools == <<work, queries, worker>>

Workers == Openers \cup Queriers

Slot == [project : Projects, phase : {"queued", "indexing", "ready", "refreshing", "error"},
         snapshot : Snapshots \cup {None}, busy : BOOLEAN, runtime : Snapshots \cup {None}]

(* What a response was computed from is its only content. *)
Response == Snapshots \cup {"error"}
Cached == [project : Projects, snapshot : Snapshots, key : Keys, response : Response]

Request == [at : {"find", "check", "submit", "reply"}, project : Projects,
            key : Keys \cup {None}, slot : Slots \cup {None}]

Job == [kind : {"open", "refresh", "query", None}, slot : Slots, key : Keys \cup {None}]
Running == [at : {"start", "load", "loaded", "lock", "refresh", "answer", "publish", "guard"},
            job : Job, result : Response \cup {None}]

ASSUME ValuesAssumption ==
  /\ None \notin Slots \cup Snapshots \cup Keys \cup Response
  /\ None \notin Slot /\ None \notin Request /\ None \notin Running

Queued == {work[i] : i \in DOMAIN work} \cup {queries[i] : i \in DOMAIN queries}
Busy == {w \in Workers : worker[w] # None}
OpenProjects == {p \in Projects : open[p] # None}

(* The slots that something besides the map refers to. *)
InUse ==
  {conn[c].slot : c \in {d \in Conns : conn[d] # None}} \cup
  {job.slot : job \in Queued} \cup {worker[w].job.slot : w \in Busy}

(* The strong count of an open slot is one: the map's. *)
Unreferenced(s) == s \notin InUse

Init ==
  /\ slot = [s \in Slots |-> None]
  /\ open = [p \in Projects |-> None]
  /\ recent = <<>>
  /\ cache = {}
  /\ conn = [c \in Conns |-> None]
  /\ work = <<>>
  /\ queries = <<>>
  /\ worker = [w \in Workers |-> None]

-----------------------------------------------------------------------------
(* Connection threads: handle *)

(* The response is sent and the thread lets go of the slot. *)
Replied(c) == conn' = [conn EXCEPT ![c] = None]

Goto(c, stage) ==
  conn' = [conn EXCEPT ![c] = [@ EXCEPT !.at = stage, !.key = IF stage = "reply" THEN None ELSE conn[c].key]]

Ask(c, p, key) ==
  /\ conn[c] = None
  /\ conn' = [conn EXCEPT ![c] = [at |-> "find", project |-> p, key |-> key, slot |-> None]]
  /\ UNCHANGED <<slot, open, recent, cache, pools>>

(* /api/project-status takes the slot out of the map, and opens none. *)
AskStatus(c, p) ==
  /\ conn[c] = None
  /\ open[p] # None
  /\ conn' = [conn EXCEPT ![c] = [at |-> "reply", project |-> p, key |-> None, slot |-> open[p]]]
  /\ UNCHANGED <<slot, open, recent, cache, pools>>

(* retain, of what is listed once (OrderListsOpen). *)
Touched(p) == Append(RemoveFirst(recent, p), p)

(* slot, of an open project. *)
FindSlot(c) ==
  LET p == conn[c].project IN
  /\ conn[c] # None
  /\ conn[c].at = "find"
  /\ open[p] # None
  /\ recent' = Touched(p)
  /\ conn' = [conn EXCEPT ![c] = [@ EXCEPT !.at = "check", !.slot = open[p]]]
  /\ UNCHANGED <<slot, open, cache, pools>>

(* What slot evicts to make room for another project: the least recently   *)
(* used of the open projects that nothing else refers to.                  *)
Full == Cardinality(OpenProjects) >= MaxOpen
Evictable == {i \in DOMAIN recent : recent[i] \in OpenProjects /\ Unreferenced(open[recent[i]])}
Oldest == {i \in Evictable : \A j \in Evictable : i <= j}
Evictions == IF Full THEN {{recent[i]} : i \in Oldest} ELSE {{}}

Ordered(evicted) ==
  IF evicted = {} THEN recent ELSE RemoveFirst(recent, CHOOSE p \in evicted : TRUE)

(* A faulty Kept: the responses of an evicted project stay. *)
KeptAll(evicted) == cache

Kept(evicted) == {e \in cache : e.project \notin evicted}

NewSlot(p) ==
  [project |-> p, phase |-> "queued", snapshot |-> None, busy |-> TRUE, runtime |-> None]

(* slot, of another project: one is evicted with its responses, and the new*)
(* one kept if the work pool takes the job that opens it.                  *)
OpenSlot(c, evicted) ==
  LET p == conn[c].project
      old == {open[q] : q \in evicted}
      left == [s \in Slots |-> IF s \in old THEN None ELSE slot[s]]
      others == [q \in Projects |-> IF q \in evicted THEN None ELSE open[q]]
      order == Ordered(evicted)
  IN
  /\ conn[c] # None
  /\ conn[c].at = "find"
  /\ open[p] = None
  /\ cache' = Kept(evicted)
  /\ \/ /\ Len(work) < Capacity
        /\ \E s \in Slots :
             /\ slot[s] = None
             /\ slot' = [left EXCEPT ![s] = NewSlot(p)]
             /\ open' = [others EXCEPT ![p] = s]
             /\ work' = Append(work, [kind |-> "open", slot |-> s, key |-> None])
             /\ conn' = [conn EXCEPT ![c] = [@ EXCEPT !.at = "check", !.slot = s]]
        /\ recent' = Append(order, p)
     \/ /\ Len(work) >= Capacity
        /\ slot' = left
        /\ open' = others
        /\ recent' = order
        /\ Replied(c)
        /\ UNCHANGED work
  /\ UNCHANGED <<queries, worker>>

(* Every open project is in use: the request is turned away. *)
NoRoom(c) ==
  /\ conn[c] # None
  /\ conn[c].at = "find"
  /\ open[conn[c].project] = None
  /\ Full
  /\ Evictable = {}
  /\ Replied(c)
  /\ UNCHANGED <<slot, open, recent, cache, pools>>

(* Under the slot's state: an error is reported, a fresh response of the   *)
(* slot's snapshot sent; otherwise the state is unlocked and locked again. *)
Check(c) ==
  LET s == slot[conn[c].slot]
      hits == {e \in cache : e.project = s.project /\ e.snapshot = s.snapshot /\ e.key = conn[c].key}
  IN
  /\ conn[c] # None
  /\ conn[c].at = "check"
  /\ \/ /\ s.phase = "error" \/ hits # {}
        /\ Replied(c)
     \/ /\ s.phase # "error"
        /\ Goto(c, "submit")
  /\ UNCHANGED <<slot, open, recent, cache, pools>>

(* A job of the slot is waiting or running: come back later. *)
Accepted(c) ==
  /\ conn[c] # None
  /\ conn[c].at = "submit"
  /\ slot[conn[c].slot].busy
  /\ Goto(c, "reply")
  /\ UNCHANGED <<slot, open, recent, cache, pools>>

(* The slot is made busy with a job for the query pool, or, if the graph is*)
(* due for a refresh, for the work pool.                                   *)
Submit(c) ==
  LET s == conn[c].slot
      job(kind) == [kind |-> kind, slot |-> s, key |-> conn[c].key]
  IN
  /\ conn[c] # None
  /\ conn[c].at = "submit"
  /\ ~slot[s].busy
  /\ slot' = [slot EXCEPT ![s] = [@ EXCEPT !.busy = TRUE, !.phase = "refreshing"]]
  /\ \/ /\ Len(queries) < Capacity
        /\ queries' = Append(queries, job("query"))
        /\ UNCHANGED work
     \/ /\ conn[c].key = Status
        /\ Len(work) < Capacity
        /\ work' = Append(work, job("refresh"))
        /\ UNCHANGED queries
  /\ Goto(c, "reply")
  /\ UNCHANGED <<open, recent, cache, worker>>

(* The pool's queue is full: the slot is said to be ready and the request  *)
(* turned away.                                                            *)
Refuse(c) ==
  LET s == conn[c].slot IN
  /\ conn[c] # None
  /\ conn[c].at = "submit"
  /\ ~slot[s].busy
  /\ \/ Len(queries) >= Capacity
     \/ conn[c].key = Status /\ Len(work) >= Capacity
  /\ slot' = [slot EXCEPT ![s].phase = "ready"]
  /\ Replied(c)
  /\ UNCHANGED <<open, recent, cache, pools>>

(* state: the phase is read once more and sent. *)
Reply(c) ==
  /\ conn[c] # None
  /\ conn[c].at = "reply"
  /\ Replied(c)
  /\ UNCHANGED <<slot, open, recent, cache, pools>>

-----------------------------------------------------------------------------
(* Pool threads *)

Step(w, stage, result) ==
  worker' = [worker EXCEPT ![w] = [@ EXCEPT !.at = stage, !.result = result]]

(* The job has done its work and has its guard left to drop. *)
Done(w) ==
  worker' = [worker EXCEPT ![w] =
    [at |-> "guard", job |-> [kind |-> None, slot |-> worker[w].job.slot, key |-> None], result |-> None]]

At(w, stage) == worker[w] # None /\ worker[w].at = stage

(* The slot of the job a thread runs. *)
SlotOf(w) == worker[w].job.slot

First(job) == [at |-> IF job.kind = "open" THEN "start" ELSE "lock", job |-> job, result |-> None]

(* A thread without a job takes the first of its pool's queue. *)
TakeWork(w) ==
  /\ w \in Openers
  /\ worker[w] = None
  /\ work # <<>>
  /\ worker' = [worker EXCEPT ![w] = First(Head(work))]
  /\ work' = Tail(work)
  /\ UNCHANGED <<slot, open, recent, cache, conn, queries>>

TakeQuery(w) ==
  /\ w \in Queriers
  /\ worker[w] = None
  /\ queries # <<>>
  /\ worker' = [worker EXCEPT ![w] = First(Head(queries))]
  /\ queries' = Tail(queries)
  /\ UNCHANGED <<slot, open, recent, cache, conn, work>>

(* The job of slot: index or reuse, and open, the project. *)
StartLoad(w) ==
  /\ At(w, "start")
  /\ slot' = [slot EXCEPT ![SlotOf(w)].phase = "indexing"]
  /\ Step(w, "load", None)
  /\ UNCHANGED <<open, recent, cache, conn, work, queries>>

Load(w) ==
  /\ At(w, "load")
  /\ \/ \E snapshot \in Snapshots :
          /\ slot' = [slot EXCEPT ![SlotOf(w)].runtime = snapshot]
          /\ Step(w, "loaded", snapshot)
     \/ /\ Step(w, "loaded", "error")
        /\ UNCHANGED slot
  /\ UNCHANGED <<open, recent, cache, conn, work, queries>>

(* Under the slot's state: not busy any more, ready or in error. *)
FinishLoad(w) ==
  LET s == SlotOf(w)
      result == worker[w].result
  IN
  /\ At(w, "loaded")
  /\ slot' = [slot EXCEPT ![s] =
       [@ EXCEPT !.busy = FALSE,
                 !.phase = IF result = "error" THEN "error" ELSE "ready",
                 !.snapshot = IF result = "error" THEN slot[s].snapshot ELSE result]]
  /\ Done(w)
  /\ UNCHANGED <<open, recent, cache, conn, work, queries>>

(* The job of handle locks the runtime; without one it ends at once. *)
LockRuntime(w) ==
  /\ At(w, "lock")
  /\ \A v \in Busy : SlotOf(v) = SlotOf(w) => worker[v].at \notin {"refresh", "answer", "publish"}
  /\ IF slot[SlotOf(w)].runtime = None THEN Done(w)
     ELSE Step(w, IF worker[w].job.kind = "refresh" THEN "refresh" ELSE "answer", None)
  /\ UNCHANGED <<slot, open, recent, cache, conn, work, queries>>

(* The graph may change, whether the refresh succeeds or fails. *)
Refresh(w) ==
  /\ At(w, "refresh")
  /\ \E snapshot \in Snapshots : slot' = [slot EXCEPT ![SlotOf(w)].runtime = snapshot]
  /\ Step(w, "answer", None) \/ Step(w, "publish", "error")
  /\ UNCHANGED <<open, recent, cache, conn, work, queries>>

(* A cached response of this snapshot, however old, or a new one; a status *)
(* is always new.                                                          *)
Answer(w) ==
  LET s == slot[SlotOf(w)]
      key == worker[w].job.key
      hits == {e \in cache : e.project = s.project /\ e.snapshot = s.runtime /\ e.key = key}
  IN
  /\ At(w, "answer")
  /\ IF hits # {} /\ key # Status
     THEN \E e \in hits : Step(w, "publish", e.response)
     ELSE Step(w, "publish", s.runtime)
  /\ UNCHANGED <<slot, open, recent, cache, conn, work, queries>>

(* insert: the project's entries of another snapshot and the entry it      *)
(* replaces go; older ones make room.                                      *)
Inserted(e) ==
  {{e} \cup kept : kept \in SUBSET {o \in cache :
     o.project = e.project => o.snapshot = e.snapshot /\ o.key # e.key}}

(* Under the slot's state: its snapshot and phase, and the response cached.*)
Publish(w) ==
  LET s == SlotOf(w)
      result == worker[w].result
  IN
  /\ At(w, "publish")
  /\ slot' = [slot EXCEPT ![s] =
       [@ EXCEPT !.busy = FALSE, !.snapshot = slot[s].runtime,
                 !.phase = IF result = "error" THEN "error" ELSE "ready"]]
  /\ cache' \in Inserted([project |-> slot[s].project, snapshot |-> slot[s].runtime,
                          key |-> worker[w].job.key, response |-> result])
  /\ Done(w)
  /\ UNCHANGED <<open, recent, conn, work, queries>>

(* The job panics where it computes; its locks are released. *)
Panic(w) ==
  /\ worker[w] # None
  /\ worker[w].at \in {"load", "refresh", "answer"}
  /\ Done(w)
  /\ UNCHANGED <<slot, open, recent, cache, conn, work, queries>>

(* A faulty DropGuard: a job that ended early leaves its slot busy. *)
DropNothing(w) ==
  /\ At(w, "guard")
  /\ worker' = [worker EXCEPT ![w] = None]
  /\ UNCHANGED <<slot, open, recent, cache, conn, work, queries>>

(* WorkGuard is dropped last: a slot that is busy then is taken to be one  *)
(* whose job ended early.                                                  *)
DropGuard(w) ==
  LET s == SlotOf(w) IN
  /\ At(w, "guard")
  /\ slot' = IF slot[s].busy THEN [slot EXCEPT ![s] = [@ EXCEPT !.busy = FALSE, !.phase = "error"]] ELSE slot
  /\ worker' = [worker EXCEPT ![w] = None]
  /\ UNCHANGED <<open, recent, cache, conn, work, queries>>

Handle(c) ==
  \/ FindSlot(c) \/ NoRoom(c) \/ \E evicted \in Evictions : OpenSlot(c, evicted)
  \/ Check(c) \/ Accepted(c) \/ Submit(c) \/ Refuse(c) \/ Reply(c)

Work(w) ==
  \/ TakeWork(w) \/ TakeQuery(w)
  \/ StartLoad(w) \/ Load(w) \/ FinishLoad(w)
  \/ LockRuntime(w) \/ Refresh(w) \/ Answer(w) \/ Publish(w)
  \/ Panic(w) \/ DropGuard(w)

Next ==
  \/ \E c \in Conns :
       \/ \E p \in Projects : AskStatus(c, p) \/ \E key \in Keys : Ask(c, p, key)
       \/ Handle(c)
  \/ \E w \in Workers : Work(w)

Spec == Init /\ [][Next]_vars

-----------------------------------------------------------------------------
(* Properties *)

(* The types of the variables. *)
TypeOK ==
  /\ slot \in [Slots -> Slot \cup {None}]
  /\ open \in [Projects -> Slots \cup {None}]
  /\ cache \subseteq Cached
  /\ conn \in [Conns -> Request \cup {None}]
  /\ \A c \in Conns : conn[c] # None => (conn[c].at = "find" <=> conn[c].slot = None)
  /\ work \in Seq(Job) /\ Len(work) <= Capacity
  /\ queries \in Seq(Job) /\ Len(queries) <= Capacity
  /\ worker \in [Workers -> Running \cup {None}]

(* Never more projects are open than the limit allows.                     *)
OpenIsBounded == Cardinality(OpenProjects) <= MaxOpen

(* A slot that a request or a job refers to, and with it a runtime, is     *)
(* always the one in the map: a project never has two.                     *)
OneSlotPerProject ==
  /\ \A p \in OpenProjects : slot[open[p]] # None /\ slot[open[p]].project = p
  /\ \A s \in Slots : slot[s] # None => open[slot[s].project] = s
  /\ \A s \in InUse \ {None} : slot[s] # None

(* A cached response is of an open project, of one snapshot of it, and was *)
(* computed from the graph of that snapshot, or is the error it got.       *)
CacheIsOfOpenGraphs ==
  \A e \in cache :
    /\ open[e.project] # None
    /\ e.response \in {e.snapshot, "error"}
    /\ \A o \in cache : o.project = e.project => o.snapshot = e.snapshot

(* A busy slot has a job, waiting or running, that will end it.            *)
BusyHasJob ==
  \A s \in Slots :
    slot[s] # None /\ slot[s].busy =>
      (\E job \in Queued : job.slot = s) \/ (\E w \in Busy : SlotOf(w) = s)

(* The order of use lists each open project once: none is forgotten by     *)
(* every eviction, or found there after it is gone.                        *)
OrderListsOpen == ToSet(recent) = OpenProjects /\ Len(recent) = Cardinality(OpenProjects)

(* Slots are accounted for: few enough, each its project's only one and    *)
(* with one place in the order of use, and what makes it busy will end.    *)
SlotsAreSound == OpenIsBounded /\ OneSlotPerProject /\ BusyHasJob /\ OrderListsOpen

=============================================================================
