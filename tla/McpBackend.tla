------------------------------- MODULE McpBackend -------------------------------
(***************************************************************************)
(* The backend of the MCP server over one managed repository:              *)
(* crates/cgrx-cli/src/mcp_backend.rs and index_source, which it calls.    *)
(* Every tool call first refreshes the runtime; when HEAD has moved it     *)
(* indexes HEAD into the generation store, opens the generation and        *)
(* refreshes again.  Preparations of orient and the handles of expand are  *)
(* kept between calls and dropped when the graph has changed.  Calls are   *)
(* served one at a time.  The generation store is GenerationStore's        *)
(* promise: one immutable generation per revision, and CURRENT.            *)
(***************************************************************************)
EXTENDS RuntimeRefresh, FiniteSets, Sequences, SequencesExt

CONSTANTS
  Queries,    \* orient requests, less their budgets
  CacheLimit, \* ORIENT_PREPARATION_CACHE_LIMIT
  MaxHandles  \* bound: handles issued in a behaviour

ASSUME CacheAssumption == CacheLimit \in Nat \ {0} /\ MaxHandles \in Nat

VARIABLES
  stage,      \* where the tool call is
  request,    \* the tool call, or None
  revision,   \* what index_source read of rev-parse HEAD, or None
  listing,    \* what it then read of ls-tree HEAD, or None
  generation, \* [Revs -> tree or None]: the store
  current,    \* the revision whose generation is CURRENT
  prepared,   \* [Queries -> snapshot or None]: orient_preparations
  order,      \* orient_preparation_order
  expansions, \* the handles and what they expand
  cursor      \* next_handle_cursor

caches == <<prepared, order, expansions, cursor>>
store == <<generation, current>>
allVars == <<vars, stage, request, revision, listing, store, caches>>

Expands == [handle : Nat]

Init ==
  /\ RefreshInit
  /\ stage = "idle"
  /\ request = None
  /\ revision = None
  /\ listing = None
  /\ generation = [r \in Revs |-> IF r = head THEN Committed[r] ELSE None]
  /\ current = head
  /\ prepared = [q \in Queries |-> None]
  /\ order = <<>>
  /\ expansions = {}
  /\ cursor = 0

(* The tool call is over: answered, or refused with an error. *)
Reply ==
  /\ stage' = "idle"
  /\ request' = None

NoCaches ==
  /\ prepared' = [q \in Queries |-> None]
  /\ order' = <<>>
  /\ expansions' = {}
  /\ UNCHANGED cursor

-----------------------------------------------------------------------------
(* The tool call and its refresh *)

Request(req) ==
  /\ stage = "idle"
  /\ request' = req
  /\ stage' = "refresh"
  /\ call' = Begun
  /\ UNCHANGED <<tree, rt, seen, failed, revision, listing, store, caches>>

RefreshRuntime ==
  /\ stage \in {"refresh", "again"}
  /\ RefreshStep
  /\ UNCHANGED <<stage, request, revision, listing, store, caches>>

(* The first refresh returned: a changed graph drops the caches. *)
Refreshed ==
  /\ stage = "refresh"
  /\ call.result \in {"same", "changed"}
  /\ stage' = "answer"
  /\ IF call.result = "changed" THEN NoCaches ELSE UNCHANGED caches
  /\ UNCHANGED <<vars, request, revision, listing, store>>

RefreshFailed ==
  /\ stage = "refresh"
  /\ call.result = "error"
  /\ Reply
  /\ UNCHANGED <<vars, revision, listing, store, caches>>

-----------------------------------------------------------------------------
(* index_committed_head, after revision_changed *)

(* git rev-parse HEAD. *)
IndexRevision ==
  /\ stage = "refresh"
  /\ call.result = "revision_changed"
  /\ revision' = head
  /\ stage' = "list"
  /\ UNCHANGED <<vars, request, listing, store, caches>>

(* git ls-tree HEAD: another process, which looks HEAD up again. *)
IndexListing ==
  /\ stage = "list"
  /\ listing' = Committed[head]
  /\ stage' = "publish"
  /\ UNCHANGED <<vars, request, revision, store, caches>>

(* A CURRENT of this snapshot is reused, a new generation published, and an*)
(* old one reactivated if it holds the same bytes.  The store may be busy, *)
(* too, or fail.                                                           *)
Publish ==
  LET usable == current = revision \/ generation[revision] \in {None, listing} IN
  /\ stage = "publish"
  /\ \/ /\ usable
        /\ generation' = [generation EXCEPT ![revision] = IF @ = None THEN listing ELSE @]
        /\ current' = revision
        /\ stage' = "open"
        /\ UNCHANGED request
     \/ /\ Reply
        /\ UNCHANGED store
  /\ revision' = None
  /\ listing' = None
  /\ UNCHANGED <<vars, caches>>

(* Runtime::open replaces the runtime, which is then refreshed. *)
OpenCurrent ==
  /\ stage = "open"
  /\ rt' = Opened(current, generation[current])
  /\ call' = Begun
  /\ failed' = FALSE
  /\ stage' = "again"
  /\ UNCHANGED <<tree, seen, request, revision, listing, store, caches>>

(* Runtime::open returns an error: CURRENT has moved, the runtime has not. *)
OpenFails ==
  /\ stage = "open"
  /\ Reply
  /\ UNCHANGED <<vars, revision, listing, store, caches>>

(* A faulty Reopened: the caches of the old graph stay. *)
ReopenedKeepingCaches ==
  /\ stage = "again"
  /\ call.result \in {"same", "changed"}
  /\ stage' = "answer"
  /\ UNCHANGED <<vars, request, revision, listing, store, caches>>

(* The refresh of the new runtime returned: the caches are dropped. *)
Reopened ==
  /\ stage = "again"
  /\ call.result \in {"same", "changed"}
  /\ stage' = "answer"
  /\ NoCaches
  /\ UNCHANGED <<vars, request, revision, listing, store>>

(* It failed: the call returns with the runtime replaced, the caches kept. *)
ReopenFailed ==
  /\ stage = "again"
  /\ call.result \in {"error", "revision_changed"}
  /\ failed' = TRUE
  /\ Reply
  /\ UNCHANGED <<tree, rt, call, seen, revision, listing, store, caches>>

-----------------------------------------------------------------------------
(* orient and expand *)

(* What did not fit the budget can be asked for with a new handle. *)
Issue(expiring, snapshot) ==
  \/ /\ cursor < MaxHandles
     /\ expansions' = (expansions \ expiring) \cup {[handle |-> cursor, snapshot |-> snapshot]}
     /\ cursor' = cursor + 1
  \/ /\ expansions' = expansions \ expiring
     /\ UNCHANGED cursor

(* A cached preparation is used and becomes the latest. *)
Hit(q) ==
  /\ prepared[q] # None
  /\ order' = Append(RemoveFirst(order, q), q)
  /\ Issue({}, prepared[q])
  /\ UNCHANGED prepared

(* A new one is kept, in the place of the least recently used if need be.  *)
Miss(q) ==
  LET full == Cardinality({o \in Queries : prepared[o] # None}) >= CacheLimit
      kept == IF full THEN Tail(order) ELSE order
  IN
  /\ prepared[q] = None
  /\ prepared' = [o \in Queries |->
       IF o = q THEN rt.snapshot
       ELSE IF full /\ o = Head(order) THEN None ELSE prepared[o]]
  /\ order' = Append(kept, q)
  /\ Issue({}, rt.snapshot)

AnswerOrient(q) ==
  /\ stage = "answer"
  /\ request = [query |-> q]
  /\ Hit(q) \/ Miss(q)
  /\ Reply
  /\ UNCHANGED <<vars, revision, listing, store>>

(* A handle is spent by its use, and unknown after. *)
AnswerExpand ==
  LET found == {e \in expansions : e.handle = request.handle} IN
  /\ stage = "answer"
  /\ request \in Expands
  /\ IF found = {} THEN UNCHANGED <<expansions, cursor>>
     ELSE \E e \in found : Issue(found, e.snapshot)
  /\ Reply
  /\ UNCHANGED <<vars, revision, listing, store, prepared, order>>

Serve ==
  \/ RefreshRuntime \/ Refreshed \/ RefreshFailed
  \/ IndexRevision \/ IndexListing \/ Publish
  \/ OpenCurrent \/ OpenFails \/ Reopened \/ ReopenFailed
  \/ (\E q \in Queries : AnswerOrient(q)) \/ AnswerExpand

Elsewhere ==
  /\ Environment
  /\ UNCHANGED <<stage, request, revision, listing, store, caches>>

RequestCapsule ==
  \/ \E q \in Queries : Request([query |-> q])
  \/ \E h \in 0 .. cursor : Request([handle |-> h])

Next ==
  \/ RequestCapsule
  \/ Serve
  \/ Elsewhere

Spec == Init /\ [][Next]_allVars

-----------------------------------------------------------------------------
(* Properties *)

Stages == {"idle", "refresh", "list", "publish", "open", "again", "answer"}

(* Types, and the call of refresh is at rest when its caller has moved on. *)
TypeOK ==
  /\ RefreshTypeOK
  /\ stage \in Stages
  /\ request \in {[query |-> q] : q \in Queries} \cup {[handle |-> h] : h \in 0 .. MaxHandles} \cup {None}
  /\ request = None <=> stage = "idle"
  /\ stage \notin {"refresh", "again"} => At("rest")
  /\ revision \in Revs \cup {None}
  /\ listing \in Trees \cup {None}
  /\ generation \in [Revs -> Trees \cup {None}]
  /\ generation[current] # None
  /\ prepared \in [Queries -> Snapshots \cup {None}]
  /\ order \in Seq(Queries)
  /\ expansions \subseteq [handle : 0 .. MaxHandles, snapshot : Snapshots]
  /\ cursor \in 0 .. MaxHandles

(* A generation holds the tree of the revision it is named after.          *)
GenerationsHoldTheirRevision ==
  \A r \in Revs : generation[r] \in {None, Committed[r]}

(* The documents and the arcs are of the same sources, those of snapshot.  *)
OneGraph ==
  /\ rt.arcs = rt.hashes
  /\ rt.snapshot.diff = Diff(rt.base, rt.hashes)

(* Where no refresh failed, a tool call is answered from the graph that its*)
(* snapshot names.                                                         *)
SnapshotNamesGraph == stage = "answer" /\ ~failed => OneGraph

(* A runtime that no refresh failed answers from the files: each file of  *)
(* an answer is as it was at some moment of the call's refresh, however it *)
(* was edited and HEAD moved meanwhile.                                    *)
AnswersAreOfTheFiles ==
  stage = "answer" /\ ~failed => \A p \in Paths : rt.hashes[p] \in seen[p]

(* The same, where HEAD did not move between the two looks of index_source,*)
(* so that every generation is of its revision; and an answer is always of *)
(* the graph that its snapshot names.                                      *)
AnswersAreFresh ==
  /\ GenerationsHoldTheirRevision => AnswersAreOfTheFiles
  /\ SnapshotNamesGraph

(* The two structures of the preparation cache agree: the order lists each *)
(* cached query once, and the cache is within its limit.                   *)
CacheIsBounded ==
  /\ {order[i] : i \in DOMAIN order} = {q \in Queries : prepared[q] # None}
  /\ Len(order) = Cardinality({q \in Queries : prepared[q] # None})
  /\ Len(order) <= CacheLimit

(* Where no refresh failed, what was kept of earlier calls is of the graph *)
(* that answers: a cached preparation or a handle is never stale, and what *)
(* is to leave the cache next is in it.                                    *)
CachesAreOfTheGraph ==
  /\ CacheIsBounded
  /\ stage = "answer" /\ ~failed =>
       /\ \A q \in Queries : prepared[q] \in {None, rt.snapshot}
       /\ \A e \in expansions : e.snapshot = rt.snapshot

=============================================================================
