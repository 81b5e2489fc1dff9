----------------------------- MODULE McpServerProofs -----------------------------
(***************************************************************************)
(* Proofs about the MCP server and its backend, for any files, revisions,  *)
(* edits, requests, cache size and tools: what a call is answered from is  *)
(* fresh, no cache is stale, the pages of a search are of one graph and a  *)
(* risk scan is of HEAD; and what a model gets to see of an answer tells   *)
(* the truth.                                                              *)
(***************************************************************************)
EXTENDS McpServer, FiniteSetTheorems, SequenceTheorems, TLAPS

-----------------------------------------------------------------------------
(* The invariant *)

(* Types, and which values the steps of a re-index have.                   *)
Typed ==
  /\ RefreshTypeOK
  /\ stage \in Stages
  /\ stage \notin {"refresh", "again"} => At("rest")
  /\ stage = "answer" => call.result \in {"same", "changed"}
  /\ stage \in {"list", "publish"} => revision \in Revs
  /\ stage = "publish" => listing \in Trees
  /\ generation \in [Revs -> Trees \cup {None}]
  /\ current \in Revs /\ generation[current] \in Trees
  /\ prepared \in [Queries -> Snapshots \cup {None}]
  /\ order \in Seq(Queries)
  /\ expansions \subseteq [handle : 0 .. MaxHandles, snapshot : Snapshots]
  /\ cursor \in 0 .. MaxHandles

(* A call of refresh that has not ended has no result, and asks for the    *)
(* arcs to be rebuilt only once it has looked at a file.                   *)
CallInv ==
  /\ ~At("rest") => call.result = "none"
  /\ call.at \in {"rest", "status"} => call.todo = {} /\ ~call.normalize
  /\ At("read") => call.path \in Paths /\ call.stamp \in Nat

(* No fingerprint is later than the last edit; one that is the file's own  *)
(* is of the text that the file still has.                                 *)
StampInv ==
  /\ \A p \in Paths : /\ stamp[p] <= edits
                      /\ rt.fingerprints[p] # None => rt.fingerprints[p] <= edits
                      /\ rt.fingerprints[p] = stamp[p] /\ rt.hashes[p] # None => rt.hashes[p] = work[p]
  /\ call.stamp # None => call.stamp <= edits

(* The graph is what its snapshot names, but for what the call of refresh  *)
(* knows that it has changed.                                              *)
GraphInv ==
  /\ rt.snapshot.rev \in Revs
  /\ generation[rt.snapshot.rev] = rt.base
  /\ ~failed /\ ~call.normalize => OneGraph

(* What was looked at is as it was since the call began.                   *)
SeenInv ==
  /\ call.at \in {"examine", "read"} => \A p \in Paths : work[p] \in seen[p]
  /\ GenerationsHoldTheirRevision /\ ~failed
       /\ (call.at \in {"examine", "read"} \/ call.result \in {"same", "changed"}) =>
       \A p \in Paths \ call.todo : rt.hashes[p] \in seen[p]

(* What is kept is of this graph, unless the call is about to drop it.     *)
CacheInv ==
  ~failed /\ stage # "again" /\ ~(stage = "refresh" /\ call.result = "changed") =>
    /\ \A q \in Queries : prepared[q] \in {None, rt.snapshot}
    /\ \A e \in expansions : e.snapshot = rt.snapshot

(* A sequence lists what it lists once. *)
OnceEach(s) == \A i, j \in 1 .. Len(s) : s[i] = s[j] => i = j

(* A query is listed once, if its preparation is cached.                   *)
ListInv ==
  /\ \A i \in 1 .. Len(order) : prepared[order[i]] # None
  /\ \A q \in Queries : prepared[q] # None => \E i \in 1 .. Len(order) : order[i] = q
  /\ OnceEach(order)
  /\ Len(order) <= CacheLimit

(* A client that asks for another page has one; the pages that are surely  *)
(* of the graph they name are of the one that their snapshot names.        *)
PagesInv ==
  /\ stage # "idle" /\ request \in [tool : {"search_graph"}, expected : {TRUE}] => pages # None
  /\ pages # None => pages \in [of : Snapshots, files : SUBSET Trees, sure : BOOLEAN]
  /\ pages # None /\ pages.sure =>
       /\ generation[pages.of.rev] \in Trees
       /\ \E files \in Trees :
            /\ pages.files = {files}
            /\ pages.of.diff = Diff(generation[pages.of.rev], files)

(* The baseline is of the revision it names, and only where CURRENT did    *)
(* not stray surely of the runtime's.  What a scan found is told before    *)
(* the next call.                                                          *)
ScanInv ==
  /\ baseline # None => baseline.rev \in Revs /\ baseline.tree \in Trees /\ generation[baseline.rev] = baseline.tree
  /\ ~strayed => /\ stage # "open" => current = rt.snapshot.rev
                 /\ baseline # None => baseline.rev = rt.snapshot.rev
  /\ scan # None => stage = "idle"

IInv ==
  /\ Typed
  /\ CallInv
  /\ StampInv
  /\ GraphInv
  /\ SeenInv
  /\ CacheInv
  /\ ListInv
  /\ PagesInv
  /\ ScanInv
  /\ ScansAreOfHead

(* The part that is about the backend. *)
BackendInv == Typed /\ CallInv /\ StampInv /\ GraphInv /\ SeenInv /\ CacheInv /\ ListInv

USE CommittedAssumption, MaxEditsAssumption, NoneAssumption, CacheAssumption

-----------------------------------------------------------------------------
(* Records *)

(* A file is looked at anew. *)
Anew(r, p, f, h) == [r EXCEPT !.fingerprints[p] = f, !.hashes[p] = h]

LEMMA PathUpdated ==
  ASSUME NEW r \in Runtime, NEW p \in Paths, NEW h \in Texts \cup {None},
         NEW f \in 0 .. MaxEdits \cup {None}
  PROVE  LET n == Anew(r, p, f, h)
         IN /\ n \in Runtime
            /\ n.base = r.base /\ n.arcs = r.arcs /\ n.snapshot = r.snapshot
            /\ \A q \in Paths : /\ n.fingerprints[q] = IF q = p THEN f ELSE r.fingerprints[q]
                                /\ n.hashes[q] = IF q = p THEN h ELSE r.hashes[q]
            /\ r.hashes[p] = h => n.hashes = r.hashes
<1> DEFINE half == [r EXCEPT !.fingerprints[p] = f]
           n == [half EXCEPT !.hashes[p] = h]
<1>1. half = [base |-> r.base, hashes |-> r.hashes, arcs |-> r.arcs, snapshot |-> r.snapshot,
              fingerprints |-> [r.fingerprints EXCEPT ![p] = f]]
  BY DEF Runtime
<1> HIDE DEF half
<1>2. n = [base |-> r.base, hashes |-> [r.hashes EXCEPT ![p] = h], arcs |-> r.arcs,
           snapshot |-> r.snapshot, fingerprints |-> [r.fingerprints EXCEPT ![p] = f]]
  BY <1>1
<1>3. /\ r.base \in Trees /\ r.hashes \in Trees /\ r.arcs \in Trees /\ r.snapshot \in Snapshots
      /\ r.fingerprints \in [Paths -> 0 .. MaxEdits \cup {None}]
  BY DEF Runtime
<1>4. /\ [r.hashes EXCEPT ![p] = h] \in Trees
      /\ [r.fingerprints EXCEPT ![p] = f] \in [Paths -> 0 .. MaxEdits \cup {None}]
  BY <1>3 DEF Trees
<1> HIDE DEF n
<1>5. n \in Runtime
  BY <1>2, <1>3, <1>4 DEF Runtime
<1>6. n = Anew(r, p, f, h)
  BY DEF n, half, Anew
<1>7. /\ n.fingerprints = [r.fingerprints EXCEPT ![p] = f]
      /\ n.hashes = [r.hashes EXCEPT ![p] = h]
      /\ n.base = r.base /\ n.arcs = r.arcs /\ n.snapshot = r.snapshot
  BY <1>2
<1>8. /\ \A q \in Paths : /\ n.fingerprints[q] = IF q = p THEN f ELSE r.fingerprints[q]
                          /\ n.hashes[q] = IF q = p THEN h ELSE r.hashes[q]
      /\ r.hashes[p] = h => n.hashes = r.hashes
  BY <1>3, <1>7 DEF Trees
<1> QED
  BY <1>5, <1>6, <1>7, <1>8

LEMMA Renamed ==
  ASSUME NEW r \in Runtime, NEW a \in Trees, NEW s \in Snapshots
  PROVE  LET n == [r EXCEPT !.arcs = a, !.snapshot = s]
         IN n \in Runtime /\ n = [base |-> r.base, hashes |-> r.hashes, arcs |-> a, snapshot |-> s,
                                  fingerprints |-> r.fingerprints]
<1> DEFINE half == [r EXCEPT !.arcs = a]
           n == [half EXCEPT !.snapshot = s]
<1>1. half = [base |-> r.base, hashes |-> r.hashes, arcs |-> a, snapshot |-> r.snapshot,
              fingerprints |-> r.fingerprints]
  BY DEF Runtime
<1> HIDE DEF half
<1>2. n = [base |-> r.base, hashes |-> r.hashes, arcs |-> a, snapshot |-> s,
           fingerprints |-> r.fingerprints]
  BY <1>1
<1>3. n = [r EXCEPT !.arcs = a, !.snapshot = s]
  BY DEF n, half
<1>4. /\ r.base \in Trees /\ r.hashes \in Trees
      /\ r.fingerprints \in [Paths -> 0 .. MaxEdits \cup {None}]
  BY DEF Runtime
<1> HIDE DEF n
<1>5. n \in Runtime
  BY <1>2, <1>4 DEF Runtime
<1> QED
  BY <1>2, <1>3, <1>5

LEMMA ToExamine ==
  ASSUME NEW c \in Calls, NEW T \in SUBSET Paths
  PROVE  LET n == [c EXCEPT !.at = "examine", !.todo = T]
         IN n \in Calls /\ n = [at |-> "examine", todo |-> T, path |-> c.path, stamp |-> c.stamp,
                                normalize |-> c.normalize, result |-> c.result]
<1> DEFINE half == [c EXCEPT !.at = "examine"]
<1>1. half = [at |-> "examine", todo |-> c.todo, path |-> c.path, stamp |-> c.stamp,
              normalize |-> c.normalize, result |-> c.result]
  BY DEF Calls
<1> HIDE DEF half
<1>2. [half EXCEPT !.todo = T] = [at |-> "examine", todo |-> T, path |-> c.path, stamp |-> c.stamp,
                                  normalize |-> c.normalize, result |-> c.result]
  BY <1>1
<1>3. [at |-> "examine", todo |-> T, path |-> c.path, stamp |-> c.stamp,
       normalize |-> c.normalize, result |-> c.result] \in Calls
  BY DEF Calls
<1> QED
  BY <1>2, <1>3 DEF half

LEMMA Examined ==
  ASSUME NEW c \in Calls, NEW T \in SUBSET Paths, NEW b \in BOOLEAN
  PROVE  LET n == [c EXCEPT !.todo = T, !.normalize = b]
         IN n \in Calls /\ n = [at |-> c.at, todo |-> T, path |-> c.path, stamp |-> c.stamp,
                                normalize |-> b, result |-> c.result]
<1> DEFINE half == [c EXCEPT !.todo = T]
<1>1. half = [at |-> c.at, todo |-> T, path |-> c.path, stamp |-> c.stamp,
              normalize |-> c.normalize, result |-> c.result]
  BY DEF Calls
<1> HIDE DEF half
<1>2. [half EXCEPT !.normalize = b] = [at |-> c.at, todo |-> T, path |-> c.path, stamp |-> c.stamp,
                                       normalize |-> b, result |-> c.result]
  BY <1>1
<1>3. [at |-> c.at, todo |-> T, path |-> c.path, stamp |-> c.stamp,
       normalize |-> b, result |-> c.result] \in Calls
  BY DEF Calls
<1> QED
  BY <1>2, <1>3 DEF half

LEMMA ToRead ==
  ASSUME NEW c \in Calls, NEW p \in Paths, NEW s \in 0 .. MaxEdits
  PROVE  LET n == [c EXCEPT !.at = "read", !.path = p, !.stamp = s]
         IN n \in Calls /\ n = [at |-> "read", todo |-> c.todo, path |-> p, stamp |-> s,
                                normalize |-> c.normalize, result |-> c.result]
<1> DEFINE one == [c EXCEPT !.at = "read"]
           two == [one EXCEPT !.path = p]
<1>1. one = [at |-> "read", todo |-> c.todo, path |-> c.path, stamp |-> c.stamp,
             normalize |-> c.normalize, result |-> c.result]
  BY DEF Calls
<1> HIDE DEF one
<1>2. two = [at |-> "read", todo |-> c.todo, path |-> p, stamp |-> c.stamp,
             normalize |-> c.normalize, result |-> c.result]
  BY <1>1
<1> HIDE DEF two
<1>3. [two EXCEPT !.stamp = s] = [at |-> "read", todo |-> c.todo, path |-> p, stamp |-> s,
                                  normalize |-> c.normalize, result |-> c.result]
  BY <1>2
<1>4. [at |-> "read", todo |-> c.todo, path |-> p, stamp |-> s,
       normalize |-> c.normalize, result |-> c.result] \in Calls
  BY DEF Calls
<1> QED
  BY <1>3, <1>4 DEF one, two

LEMMA HasRead ==
  ASSUME NEW c \in Calls, NEW T \in SUBSET Paths, NEW b \in BOOLEAN
  PROVE  LET next == [c EXCEPT !.at = "examine", !.todo = T, !.path = None, !.stamp = None]
             n == [next EXCEPT !.normalize = b]
         IN n \in Calls /\ n = [at |-> "examine", todo |-> T, path |-> None, stamp |-> None,
                                normalize |-> b, result |-> c.result]
                        /\ next.normalize = c.normalize
<1> DEFINE one == [c EXCEPT !.at = "examine"]
           two == [one EXCEPT !.todo = T]
           three == [two EXCEPT !.path = None]
           next == [three EXCEPT !.stamp = None]
<1>1. one = [at |-> "examine", todo |-> c.todo, path |-> c.path, stamp |-> c.stamp,
             normalize |-> c.normalize, result |-> c.result]
  BY DEF Calls
<1> HIDE DEF one
<1>2. two = [at |-> "examine", todo |-> T, path |-> c.path, stamp |-> c.stamp,
             normalize |-> c.normalize, result |-> c.result]
  BY <1>1
<1> HIDE DEF two
<1>3. three = [at |-> "examine", todo |-> T, path |-> None, stamp |-> c.stamp,
               normalize |-> c.normalize, result |-> c.result]
  BY <1>2
<1> HIDE DEF three
<1>4. next = [at |-> "examine", todo |-> T, path |-> None, stamp |-> None,
              normalize |-> c.normalize, result |-> c.result]
  BY <1>3
<1>5. next = [c EXCEPT !.at = "examine", !.todo = T, !.path = None, !.stamp = None]
  BY DEF one, two, three
<1> HIDE DEF next
<1>6. [next EXCEPT !.normalize = b] = [at |-> "examine", todo |-> T, path |-> None, stamp |-> None,
                                       normalize |-> b, result |-> c.result]
  BY <1>4
<1>7. [at |-> "examine", todo |-> T, path |-> None, stamp |-> None,
       normalize |-> b, result |-> c.result] \in Calls
  BY DEF Calls
<1>8. next.normalize = c.normalize
  BY ONLY <1>4
<1> QED
  BY ONLY <1>5, <1>6, <1>7, <1>8

LEMMA BegunAndEnded ==
  /\ Begun = [at |-> "status", todo |-> {}, path |-> None, stamp |-> None, normalize |-> FALSE, result |-> "none"]
  /\ Begun \in Calls
  /\ \A result \in {"none", "same", "changed", "error", "revision_changed"} : Ended(result) \in Calls
<1>1. \A result \in {"none", "same", "changed", "error", "revision_changed"} : Ended(result) \in Calls
  BY DEF Ended, Calls
<1>2. Begun = [at |-> "status", todo |-> {}, path |-> None, stamp |-> None, normalize |-> FALSE, result |-> "none"]
  <2> DEFINE rest == Ended("none")
  <2>1. rest = [at |-> "rest", todo |-> {}, path |-> None, stamp |-> None, normalize |-> FALSE, result |-> "none"]
    BY DEF Ended
  <2>2. Begun = [rest EXCEPT !.at = "status"]
    BY DEF Begun
  <2> HIDE DEF rest
  <2> QED
    BY <2>1, <2>2
<1>3. Begun \in Calls
  BY <1>2 DEF Calls
<1> QED
  BY <1>1, <1>2, <1>3

(* What differs from a base tells what it is that differs.                 *)
LEMMA DiffDetermines ==
  ASSUME NEW base \in Trees, NEW f \in Trees, NEW g \in Trees, Diff(base, f) = Diff(base, g)
  PROVE  f = g
<1>1. ASSUME NEW p \in Paths
      PROVE  f[p] = g[p]
  <2>1. base[p] # f[p] <=> <<p, f[p]>> \in Diff(base, f)
    BY DEF Diff
  <2>2. base[p] # g[p] <=> <<p, g[p]>> \in Diff(base, g)
    BY DEF Diff
  <2>3. \A x : <<p, x>> \in Diff(base, g) => x = g[p] /\ base[p] # g[p]
    BY DEF Diff
  <2>4. \A x : <<p, x>> \in Diff(base, f) => x = f[p] /\ base[p] # f[p]
    BY DEF Diff
  <2> QED
    BY <2>1, <2>2, <2>3, <2>4
<1> QED
  BY <1>1 DEF Trees

LEMMA DiffIsTyped ==
  ASSUME NEW base \in Trees, NEW f \in Trees
  PROVE  Diff(base, f) \subseteq Paths \X (Texts \cup {None})
  BY DEF Diff, Trees

LEMMA SnapshotOf ==
  ASSUME NEW s \in Snapshots, NEW d \in SUBSET (Paths \X (Texts \cup {None}))
  PROVE  /\ [s EXCEPT !.diff = d] = [rev |-> s.rev, diff |-> d]
         /\ [s EXCEPT !.diff = d] \in Snapshots
         /\ s = [rev |-> s.rev, diff |-> s.diff]
  BY DEF Snapshots

-----------------------------------------------------------------------------
(* Generations *)

(* A generation is published once. *)
StoreGrows ==
  /\ generation' \in [Revs -> Trees \cup {None}]
  /\ \A r \in Revs : generation[r] # None => generation'[r] = generation[r]

(* Once one holds another tree than its revision's it does so for ever.    *)
LEMMA WrongForEver ==
  ASSUME StoreGrows, GenerationsHoldTheirRevision'
  PROVE  GenerationsHoldTheirRevision
  BY DEF StoreGrows, GenerationsHoldTheirRevision

LEMMA Untouched ==
  ASSUME BackendInv, UNCHANGED store
  PROVE  StoreGrows
  BY DEF BackendInv, Typed, StoreGrows, store

(* The runtime is as it was. *)
LEMMA RuntimeUntouched ==
  ASSUME BackendInv, UNCHANGED vars, StoreGrows
  PROVE  RefreshTypeOK' /\ CallInv' /\ StampInv' /\ GraphInv' /\ SeenInv'
<1> USE DEF vars, tree, BackendInv
<1>1. RefreshTypeOK'
  BY DEF Typed, RefreshTypeOK
<1>2. CallInv' /\ StampInv'
  BY DEF CallInv, StampInv, At
<1>3. GraphInv'
  <2>1. generation[rt.snapshot.rev] = rt.base /\ rt.base # None /\ rt.snapshot.rev \in Revs
    BY DEF GraphInv, Typed, RefreshTypeOK, Runtime
  <2> QED
    BY <2>1 DEF GraphInv, StoreGrows, OneGraph
<1>4. SeenInv'
  BY WrongForEver DEF SeenInv
<1> QED
  BY <1>1, <1>2, <1>3, <1>4

(* The caches are as they were, or empty. *)
LEMMA CachesUntouched ==
  ASSUME BackendInv, UNCHANGED caches
  PROVE  ListInv'
  BY DEF BackendInv, ListInv, caches

LEMMA CachesDropped ==
  ASSUME BackendInv, NoCaches
  PROVE  /\ ListInv' /\ CacheInv'
         /\ prepared' \in [Queries -> Snapshots \cup {None}]
         /\ order' \in Seq(Queries)
         /\ expansions' = {}
         /\ cursor' = cursor
  BY DEF BackendInv, ListInv, OnceEach, CacheInv, NoCaches

-----------------------------------------------------------------------------
(* Steps at rest *)

LEMMA RequestKeepsInv ==
  ASSUME BackendInv, NEW req, Request(req)
  PROVE  BackendInv'
<1> USE DEF BackendInv
<1>1. /\ call' = Begun /\ stage' = "refresh" /\ stage = "idle"
      /\ UNCHANGED <<tree, rt, seen, failed, revision, listing, store, caches>>
  BY DEF Request
<1>2. /\ call'.at = "status" /\ call'.todo = {} /\ call'.stamp = None /\ ~call'.normalize
      /\ call'.result = "none" /\ call' \in Calls
  BY <1>1, BegunAndEnded
<1>3. ~call.normalize
  BY <1>1 DEF Typed, CallInv, At
<1>4. Typed'
  BY <1>1, <1>2 DEF Typed, RefreshTypeOK, tree, store, caches, Stages
<1>5. CallInv'
  BY <1>2 DEF CallInv, At
<1>6. StampInv'
  BY <1>1, <1>2 DEF StampInv, tree
<1>7. GraphInv'
  BY <1>1, <1>3 DEF GraphInv, OneGraph, store
<1>8. SeenInv'
  BY <1>2 DEF SeenInv
<1>9. CacheInv'
  BY <1>1 DEF CacheInv, caches
<1>10. ListInv'
  BY <1>1, CachesUntouched
<1> QED
  BY <1>4, <1>5, <1>6, <1>7, <1>8, <1>9, <1>10

(* A step that leaves the runtime alone. *)
LEMMA RestKeepsInv ==
  ASSUME BackendInv, UNCHANGED vars, StoreGrows, Typed', CacheInv', ListInv'
  PROVE  BackendInv'
  BY RuntimeUntouched DEF BackendInv

LEMMA RefreshedKeepsInv ==
  ASSUME BackendInv, Refreshed
  PROVE  BackendInv'
<1> USE DEF BackendInv
<1>1. /\ stage = "refresh" /\ call.result \in {"same", "changed"} /\ stage' = "answer"
      /\ UNCHANGED <<vars, request, revision, listing, store>>
  BY DEF Refreshed
<1>2. At("rest")
  BY <1>1 DEF CallInv
<1>3. StoreGrows
  BY <1>1, Untouched
<1>4. CASE call.result = "changed"
  <2>1. NoCaches
    BY <1>4 DEF Refreshed
  <2>2. Typed'
    BY <1>1, <1>2, <2>1, CachesDropped DEF Typed, RefreshTypeOK, vars, tree, store, Stages, At
  <2> QED
    BY <1>1, <1>3, <2>1, <2>2, CachesDropped, RestKeepsInv
<1>5. CASE call.result # "changed"
  <2>1. UNCHANGED caches
    BY <1>5 DEF Refreshed
  <2>2. Typed'
    BY <1>1, <1>2, <2>1 DEF Typed, RefreshTypeOK, vars, tree, store, caches, Stages, At
  <2>3. CacheInv'
    BY <1>1, <1>5, <2>1 DEF CacheInv, vars, caches
  <2> QED
    BY <1>1, <1>3, <2>1, <2>2, <2>3, CachesUntouched, RestKeepsInv
<1> QED
  BY <1>4, <1>5

LEMMA RefreshFailedKeepsInv ==
  ASSUME BackendInv, RefreshFailed
  PROVE  BackendInv'
<1> USE DEF BackendInv
<1>1. /\ stage = "refresh" /\ call.result = "error" /\ stage' = "idle"
      /\ UNCHANGED <<vars, revision, listing, store, caches>>
  BY DEF RefreshFailed, Reply
<1>2. At("rest")
  BY <1>1 DEF CallInv
<1>3. StoreGrows
  BY <1>1, Untouched
<1>4. Typed'
  BY <1>1, <1>2 DEF Typed, RefreshTypeOK, vars, tree, store, caches, Stages, At
<1>5. CacheInv'
  BY <1>1 DEF CacheInv, vars, caches
<1> QED
  BY <1>1, <1>3, <1>4, <1>5, CachesUntouched, RestKeepsInv

LEMMA IndexRevisionKeepsInv ==
  ASSUME BackendInv, IndexRevision
  PROVE  BackendInv'
<1> USE DEF BackendInv
<1>1. /\ stage = "refresh" /\ call.result = "revision_changed" /\ revision' = head /\ stage' = "list"
      /\ UNCHANGED <<vars, request, listing, store, caches>>
  BY DEF IndexRevision
<1>2. At("rest")
  BY <1>1 DEF CallInv
<1>3. StoreGrows
  BY <1>1, Untouched
<1>4. Typed'
  BY <1>1, <1>2 DEF Typed, RefreshTypeOK, vars, tree, store, caches, Stages, At
<1>5. CacheInv'
  BY <1>1 DEF CacheInv, vars, caches
<1> QED
  BY <1>1, <1>3, <1>4, <1>5, CachesUntouched, RestKeepsInv

LEMMA IndexListingKeepsInv ==
  ASSUME BackendInv, IndexListing
  PROVE  BackendInv'
<1> USE DEF BackendInv
<1>1. /\ stage = "list" /\ listing' = Committed[head] /\ stage' = "publish"
      /\ UNCHANGED <<vars, request, revision, store, caches>>
  BY DEF IndexListing
<1>2. StoreGrows
  BY <1>1, Untouched
<1>3. Typed'
  BY <1>1 DEF Typed, RefreshTypeOK, vars, tree, store, caches, Stages, At
<1>4. CacheInv'
  BY <1>1 DEF CacheInv, vars, caches
<1> QED
  BY <1>1, <1>2, <1>3, <1>4, CachesUntouched, RestKeepsInv

LEMMA PublishGrows ==
  ASSUME BackendInv, Publish
  PROVE  StoreGrows /\ current' \in Revs /\ generation'[current'] \in Trees
<1> USE DEF BackendInv
<1>1. revision \in Revs /\ listing \in Trees /\ None \notin Trees
  BY DEF Publish, Typed
<1>2. CASE UNCHANGED store
  BY <1>2, Untouched DEF Typed, store
<1>3. CASE /\ current = revision \/ generation[revision] \in {None, listing}
           /\ generation' = [generation EXCEPT ![revision] = IF @ = None THEN listing ELSE @]
           /\ current' = revision
  BY <1>1, <1>3 DEF Typed, StoreGrows
<1> QED
  BY <1>2, <1>3 DEF Publish

LEMMA PublishKeepsInv ==
  ASSUME BackendInv, Publish
  PROVE  BackendInv'
<1> USE DEF BackendInv
<1>1. /\ stage = "publish" /\ stage' \in {"open", "idle"}
      /\ UNCHANGED <<vars, caches>>
  BY DEF Publish, Reply
<1>2. StoreGrows /\ current' \in Revs /\ generation'[current'] \in Trees
  BY PublishGrows
<1>3. Typed'
  BY <1>1, <1>2 DEF Typed, RefreshTypeOK, vars, tree, caches, Stages, At, StoreGrows
<1>4. CacheInv'
  BY <1>1 DEF CacheInv, vars, caches
<1> QED
  BY <1>1, <1>2, <1>3, <1>4, CachesUntouched, RestKeepsInv

LEMMA OpenCurrentKeepsInv ==
  ASSUME BackendInv, OpenCurrent
  PROVE  BackendInv'
<1> USE DEF BackendInv
<1> DEFINE files == generation[current]
<1>1. /\ rt' = Opened(current, files) /\ call' = Begun /\ failed' = FALSE /\ stage' = "again"
      /\ UNCHANGED <<tree, seen, request, revision, listing, store, caches>>
  BY DEF OpenCurrent
<1>2. files \in Trees /\ current \in Revs
  BY DEF Typed
<1>3. /\ rt'.base = files /\ rt'.hashes = files /\ rt'.arcs = files
      /\ rt'.snapshot = [rev |-> current, diff |-> {}]
      /\ rt'.fingerprints = [p \in Paths |-> None]
  BY <1>1 DEF Opened
<1>4. rt' \in Runtime
  BY <1>1, <1>2 DEF Opened, Runtime, Snapshots
<1>5. /\ call'.at = "status" /\ call'.todo = {} /\ call'.stamp = None /\ ~call'.normalize
      /\ call'.result = "none" /\ call' \in Calls
  BY <1>1, BegunAndEnded
<1>6. Typed'
  BY <1>1, <1>4, <1>5 DEF Typed, RefreshTypeOK, tree, store, caches, Stages
<1>7. CallInv'
  BY <1>5 DEF CallInv, At
<1>8. StampInv'
  <2>1. \A p \in Paths : rt'.fingerprints[p] = None /\ stamp'[p] = stamp[p] /\ stamp[p] \in Nat
    BY <1>1, <1>3 DEF Typed, RefreshTypeOK, tree
  <2> QED
    BY <1>1, <1>5, <2>1 DEF StampInv, tree
<1>9. GraphInv'
  <2>1. Diff(files, files) = {}
    BY DEF Diff
  <2> QED
    BY <1>1, <1>2, <1>3, <2>1 DEF GraphInv, OneGraph, store
<1>10. SeenInv'
  BY <1>5 DEF SeenInv
<1>11. CacheInv'
  BY <1>1 DEF CacheInv
<1>12. ListInv'
  BY <1>1, CachesUntouched
<1> QED
  BY <1>6, <1>7, <1>8, <1>9, <1>10, <1>11, <1>12

LEMMA OpenFailsKeepsInv ==
  ASSUME BackendInv, OpenFails
  PROVE  BackendInv'
<1> USE DEF BackendInv
<1>1. stage = "open" /\ stage' = "idle" /\ UNCHANGED <<vars, revision, listing, store, caches>>
  BY DEF OpenFails, Reply
<1>2. StoreGrows
  BY <1>1, Untouched
<1>3. Typed'
  BY <1>1 DEF Typed, RefreshTypeOK, vars, tree, store, caches, Stages, At
<1>4. CacheInv'
  BY <1>1 DEF CacheInv, vars, caches
<1> QED
  BY <1>1, <1>2, <1>3, <1>4, CachesUntouched, RestKeepsInv

LEMMA ReopenedKeepsInv ==
  ASSUME BackendInv, Reopened
  PROVE  BackendInv'
<1> USE DEF BackendInv
<1>1. /\ stage = "again" /\ call.result \in {"same", "changed"} /\ stage' = "answer" /\ NoCaches
      /\ UNCHANGED <<vars, request, revision, listing, store>>
  BY DEF Reopened
<1>2. At("rest")
  BY <1>1 DEF CallInv
<1>3. StoreGrows
  BY <1>1, Untouched
<1>4. Typed'
  BY <1>1, <1>2, CachesDropped DEF Typed, RefreshTypeOK, vars, tree, store, Stages, At
<1> QED
  BY <1>1, <1>3, <1>4, CachesDropped, RestKeepsInv

LEMMA ReopenFailedKeepsInv ==
  ASSUME BackendInv, ReopenFailed
  PROVE  BackendInv'
<1> USE DEF BackendInv
<1>1. /\ stage = "again" /\ call.result \in {"error", "revision_changed"} /\ failed' = TRUE /\ stage' = "idle"
      /\ UNCHANGED <<tree, rt, call, seen, revision, listing, store, caches>>
  BY DEF ReopenFailed, Reply
<1>2. At("rest")
  BY <1>1 DEF CallInv
<1>3. Typed'
  BY <1>1, <1>2 DEF Typed, RefreshTypeOK, tree, store, caches, Stages, At
<1>4. CallInv' /\ StampInv' /\ GraphInv' /\ SeenInv' /\ CacheInv'
  BY <1>1, <1>2 DEF CallInv, StampInv, GraphInv, SeenInv, CacheInv, tree, store, At
<1>5. ListInv'
  BY <1>1, CachesUntouched
<1> QED
  BY <1>3, <1>4, <1>5

-----------------------------------------------------------------------------
(* The steps of refresh *)

(* A step of refresh leaves the rest of the backend alone. *)
LEMMA RefreshStepKeepsInv ==
  ASSUME BackendInv, RefreshRuntime, RefreshTypeOK', CallInv', StampInv', GraphInv', SeenInv',
         ~failed' => /\ ~failed
                     /\ rt'.snapshot = rt.snapshot \/ call'.result = "changed"
                     /\ call.result # "changed"
  PROVE  BackendInv'
<1> USE DEF BackendInv
<1>1. /\ stage \in {"refresh", "again"}
      /\ UNCHANGED <<stage, request, revision, listing, store, caches>>
  BY DEF RefreshRuntime
<1>2. Typed'
  BY <1>1 DEF Typed, store, caches
<1>3. CacheInv'
  BY <1>1 DEF CacheInv, caches
<1>4. ListInv'
  BY <1>1, CachesUntouched
<1> QED
  BY <1>2, <1>3, <1>4

LEMMA ReadStatusKeepsInv ==
  ASSUME BackendInv, RefreshRuntime, ReadStatus
  PROVE  BackendInv'
<1> USE DEF BackendInv
<1>1. /\ At("status") /\ seen' = [p \in Paths |-> {work[p]}] /\ UNCHANGED <<tree, rt, failed>>
      /\ UNCHANGED store
  BY DEF ReadStatus, RefreshRuntime
<1>2. call \in Calls /\ call.result = "none" /\ call.todo = {} /\ ~call.normalize
  BY <1>1 DEF Typed, RefreshTypeOK, CallInv, At
<1>3. \A p \in Paths : seen'[p] = {work[p]} /\ work[p] \in Texts \cup {None}
  BY <1>1 DEF Typed, RefreshTypeOK, Trees
<1>4. seen' \in [Paths -> SUBSET (Texts \cup {None})]
  BY <1>1, <1>3
<1>5. ChangedPaths \subseteq Paths
  BY DEF Typed, RefreshTypeOK, Runtime, Snapshots, ChangedPaths
<1>6. CASE call' = Ended("revision_changed")
  <2>1. /\ call' \in Calls /\ call'.at = "rest" /\ call'.todo = {} /\ ~call'.normalize
        /\ call'.result = "revision_changed" /\ call'.stamp = None
    BY <1>6, BegunAndEnded DEF Ended
  <2>2. RefreshTypeOK'
    BY <1>1, <1>4, <2>1 DEF Typed, RefreshTypeOK, tree
  <2>3. CallInv' /\ StampInv' /\ GraphInv' /\ SeenInv'
    BY <1>1, <1>2, <2>1 DEF CallInv, StampInv, GraphInv, OneGraph, SeenInv, At, tree, store
  <2> QED
    BY <1>1, <1>2, <2>2, <2>3, RefreshStepKeepsInv
<1>7. CASE /\ head = rt.snapshot.rev
           /\ call' = [call EXCEPT !.at = "examine",
                                   !.todo = ChangedPaths \cup {p \in Paths : work[p] # Committed[head][p]}]
  <2> DEFINE todo == ChangedPaths \cup {p \in Paths : work[p] # Committed[head][p]}
  <2>1. /\ call' \in Calls /\ call'.at = "examine" /\ call'.todo = todo /\ ~call'.normalize
        /\ call'.result = "none" /\ call'.stamp = call.stamp /\ call'.path = call.path
    <3>1. todo \in SUBSET Paths /\ call' = [call EXCEPT !.at = "examine", !.todo = todo]
      BY <1>5, <1>7
    <3> HIDE DEF todo
    <3>2. /\ call' \in Calls
          /\ call' = [at |-> "examine", todo |-> todo, path |-> call.path, stamp |-> call.stamp,
                      normalize |-> call.normalize, result |-> call.result]
      BY ONLY <1>2, <3>1, ToExamine
    <3> QED
      BY <1>2, <3>2
  <2>2. RefreshTypeOK'
    BY <1>1, <1>4, <2>1 DEF Typed, RefreshTypeOK, tree
  <2>3. CallInv' /\ StampInv' /\ GraphInv'
    BY <1>1, <1>2, <2>1 DEF CallInv, StampInv, GraphInv, OneGraph, At, tree, store
  <2>4. SeenInv'
    <3>1. ASSUME GenerationsHoldTheirRevision, ~failed, NEW p \in Paths \ todo
          PROVE  rt.hashes[p] = work[p]
      <4>1. rt.snapshot.rev \in Revs /\ rt.base = Committed[rt.snapshot.rev] /\ OneGraph
        BY <1>2, <3>1 DEF GraphInv, GenerationsHoldTheirRevision, Typed, RefreshTypeOK, Runtime
      <4>2. work[p] = rt.base[p]
        BY <1>7, <3>1, <4>1
      <4>3. rt.base[p] # rt.hashes[p] => <<p, rt.hashes[p]>> \in rt.snapshot.diff
        BY <4>1 DEF OneGraph, Diff
      <4>4. <<p, rt.hashes[p]>> \notin rt.snapshot.diff
        BY <3>1 DEF ChangedPaths
      <4> QED
        BY <4>2, <4>3, <4>4
    <3>2. GenerationsHoldTheirRevision' => GenerationsHoldTheirRevision
      BY <1>1 DEF GenerationsHoldTheirRevision, store
    <3>3. /\ rt' = rt /\ work' = work /\ failed' = failed
      BY <1>1 DEF tree
    <3> HIDE DEF todo
    <3> QED
      BY <1>3, <2>1, <3>1, <3>2, <3>3 DEF SeenInv
  <2> QED
    BY <1>1, <1>2, <2>2, <2>3, <2>4, RefreshStepKeepsInv
<1> QED
  BY <1>6, <1>7 DEF ReadStatus

LEMMA ExaminePathKeepsInv ==
  ASSUME BackendInv, RefreshRuntime, NEW p \in Paths, ExaminePath(p)
  PROVE  BackendInv'
<1> USE DEF BackendInv
<1>1. /\ At("examine") /\ p \in call.todo /\ UNCHANGED <<tree, seen, failed>>
      /\ UNCHANGED store
  BY DEF ExaminePath, RefreshRuntime
<1>2. /\ call \in Calls /\ call.result = "none" /\ rt \in Runtime
      /\ call.todo \in SUBSET Paths /\ call.todo \ {p} \in SUBSET Paths
      /\ work[p] \in Texts \cup {None} /\ stamp[p] \in 0 .. MaxEdits /\ call.normalize \in BOOLEAN
  BY <1>1 DEF Typed, RefreshTypeOK, CallInv, At, Calls, Trees
<1>3. work[p] \in seen[p]
  BY <1>1 DEF SeenInv, At
<1>4. GenerationsHoldTheirRevision' => GenerationsHoldTheirRevision
  BY <1>1 DEF GenerationsHoldTheirRevision, store
<1>5. \A q \in Paths : seen'[q] = seen[q] /\ work'[q] = work[q] /\ stamp'[q] = stamp[q] /\ edits' = edits
  BY <1>1 DEF tree
<1>6. GenerationsHoldTheirRevision /\ ~failed => \A q \in Paths \ call.todo : rt.hashes[q] \in seen[q]
  BY <1>1 DEF SeenInv, At
<1>7. \A q \in Paths : work[q] \in seen[q]
  BY <1>1 DEF SeenInv, At
<1>8. CASE /\ work[p] = None
           /\ rt' = [rt EXCEPT !.fingerprints[p] = None, !.hashes[p] = None]
           /\ call' = [call EXCEPT !.todo = @ \ {p}, !.normalize = @ \/ rt.hashes[p] # None]
  <2> DEFINE norm == call.normalize \/ rt.hashes[p] # None
  <2>1. /\ call' \in Calls /\ call'.at = call.at /\ call'.todo = call.todo \ {p} /\ call'.normalize = norm
        /\ call'.result = "none" /\ call'.stamp = call.stamp /\ call'.path = call.path
    <3> DEFINE todo == call.todo \ {p}
    <3>1. todo \in SUBSET Paths /\ norm \in BOOLEAN /\ call' = [call EXCEPT !.todo = todo, !.normalize = norm]
      BY <1>2, <1>8
    <3> HIDE DEF todo, norm
    <3>2. /\ call' \in Calls
          /\ call' = [at |-> call.at, todo |-> todo, path |-> call.path, stamp |-> call.stamp,
                      normalize |-> norm, result |-> call.result]
      BY ONLY <1>2, <3>1, Examined
    <3> QED
      BY <1>2, <3>2 DEF todo
  <2>2. /\ rt' \in Runtime /\ rt'.base = rt.base /\ rt'.arcs = rt.arcs /\ rt'.snapshot = rt.snapshot
        /\ \A q \in Paths : /\ rt'.fingerprints[q] = IF q = p THEN None ELSE rt.fingerprints[q]
                            /\ rt'.hashes[q] = IF q = p THEN None ELSE rt.hashes[q]
        /\ rt.hashes[p] = None => rt'.hashes = rt.hashes
    <3> DEFINE f == None
               h == None
               n == Anew(rt, p, f, h)
    <3>1. rt' = n
      BY <1>8 DEF Anew
    <3>2. rt \in Runtime /\ p \in Paths /\ h \in Texts \cup {None} /\ f \in 0 .. MaxEdits \cup {None}
      BY <1>2
    <3>3. f = None /\ h = None
      OBVIOUS
    <3> HIDE DEF f, h, norm
    <3>4. n \in Runtime /\ n.base = rt.base /\ n.arcs = rt.arcs /\ n.snapshot = rt.snapshot
      BY ONLY <3>2, PathUpdated
    <3>5. \A q \in Paths : /\ n.fingerprints[q] = IF q = p THEN f ELSE rt.fingerprints[q]
                           /\ n.hashes[q] = IF q = p THEN h ELSE rt.hashes[q]
      BY ONLY <3>2, PathUpdated
    <3>6. rt.hashes[p] = h => n.hashes = rt.hashes
      BY ONLY <3>2, PathUpdated
    <3> HIDE DEF n
    <3> QED
      BY ONLY <3>1, <3>3, <3>4, <3>5, <3>6
  <2>4. RefreshTypeOK'
    BY <1>1, <2>1, <2>2 DEF Typed, RefreshTypeOK, tree
  <2>5. CallInv'
    BY <1>1, <1>2, <2>1 DEF CallInv, At
  <2>6. StampInv'
    BY <1>5, <2>1, <2>2 DEF StampInv
  <2>7. GraphInv'
    BY <1>1, <2>1, <2>2 DEF GraphInv, OneGraph, store
  <2>8. SeenInv'
    BY <1>1, <1>3, <1>4, <1>5, <1>6, <1>7, <1>8, <2>1, <2>2 DEF SeenInv, At
  <2> QED
    BY <1>1, <1>2, <2>2, <2>4, <2>5, <2>6, <2>7, <2>8, RefreshStepKeepsInv
<1>9. CASE /\ rt.fingerprints[p] = stamp[p] /\ rt.hashes[p] # None
           /\ call' = [call EXCEPT !.todo = @ \ {p}]
           /\ rt' = rt
  <2>1. /\ call' \in Calls /\ call'.at = call.at /\ call'.todo = call.todo \ {p} /\ call'.normalize = call.normalize
        /\ call'.result = "none" /\ call'.stamp = call.stamp /\ call'.path = call.path
    BY <1>2, <1>9 DEF Calls
  <2>2. RefreshTypeOK'
    BY <1>1, <1>9, <2>1 DEF Typed, RefreshTypeOK, tree
  <2>3. CallInv' /\ StampInv' /\ GraphInv'
    BY <1>1, <1>2, <1>9, <2>1 DEF CallInv, StampInv, GraphInv, OneGraph, At, tree, store
  <2>4. rt.hashes[p] = work[p]
    BY <1>9 DEF StampInv
  <2>5. SeenInv'
    BY <1>1, <1>3, <1>4, <1>5, <1>6, <1>7, <1>9, <2>1, <2>4 DEF SeenInv, At
  <2> QED
    BY <1>1, <1>2, <1>9, <2>2, <2>3, <2>5, RefreshStepKeepsInv
<1>10. CASE /\ call' = [call EXCEPT !.at = "read", !.path = p, !.stamp = stamp[p]]
            /\ rt' = rt
  <2>1. /\ call' \in Calls /\ call'.at = "read" /\ call'.todo = call.todo /\ call'.normalize = call.normalize
        /\ call'.result = "none" /\ call'.stamp = stamp[p] /\ call'.path = p
    <3>1. /\ call' \in Calls
          /\ call' = [at |-> "read", todo |-> call.todo, path |-> p, stamp |-> stamp[p],
                      normalize |-> call.normalize, result |-> call.result]
      BY ONLY <1>2, <1>10, ToRead, p \in Paths
    <3> QED
      BY <1>2, <3>1
  <2>2. RefreshTypeOK'
    BY <1>1, <1>10, <2>1 DEF Typed, RefreshTypeOK, tree
  <2>3. CallInv'
    BY <1>2, <2>1 DEF CallInv, At
  <2>4. StampInv' /\ GraphInv'
    BY <1>1, <1>10, <2>1 DEF StampInv, GraphInv, OneGraph, tree, store
  <2>5. SeenInv'
    BY <1>1, <1>4, <1>5, <1>6, <1>7, <1>10, <2>1 DEF SeenInv, At
  <2> QED
    BY <1>1, <1>2, <1>10, <2>2, <2>3, <2>4, <2>5, RefreshStepKeepsInv
<1> QED
  BY <1>8, <1>9, <1>10 DEF ExaminePath

LEMMA ReadPathKeepsInv ==
  ASSUME BackendInv, RefreshRuntime, ReadPath
  PROVE  BackendInv'
<1> USE DEF BackendInv
<1> DEFINE p == call.path
<1>1. At("read") /\ UNCHANGED <<tree, seen>> /\ UNCHANGED store
  BY DEF ReadPath, RefreshRuntime
<1>2. /\ call \in Calls /\ call.result = "none" /\ rt \in Runtime
      /\ p \in Paths /\ call.stamp \in 0 .. MaxEdits /\ call.stamp <= edits
      /\ call.todo \ {p} \in SUBSET Paths
      /\ work[p] \in Texts \cup {None} /\ call.normalize \in BOOLEAN
  BY <1>1 DEF Typed, RefreshTypeOK, CallInv, StampInv, At, Calls, Trees
<1>3. \A q \in Paths : work[q] \in seen[q]
  BY <1>1 DEF SeenInv, At
<1>4. GenerationsHoldTheirRevision' => GenerationsHoldTheirRevision
  BY <1>1 DEF GenerationsHoldTheirRevision, store
<1>5. \A q \in Paths : seen'[q] = seen[q] /\ work'[q] = work[q] /\ stamp'[q] = stamp[q] /\ edits' = edits
  BY <1>1 DEF tree
<1>6. GenerationsHoldTheirRevision /\ ~failed => \A q \in Paths \ call.todo : rt.hashes[q] \in seen[q]
  BY <1>1 DEF SeenInv, At
<1>7. CASE call' = Ended("error") /\ failed' = TRUE /\ rt' = rt
  <2>1. /\ call' \in Calls /\ call'.at = "rest" /\ call'.todo = {} /\ ~call'.normalize
        /\ call'.result = "error" /\ call'.stamp = None
    BY <1>7, BegunAndEnded DEF Ended
  <2>2. RefreshTypeOK'
    BY <1>1, <1>7, <2>1 DEF Typed, RefreshTypeOK, tree
  <2>3. CallInv' /\ StampInv' /\ GraphInv' /\ SeenInv'
    BY <1>1, <1>7, <2>1 DEF CallInv, StampInv, GraphInv, OneGraph, SeenInv, At, tree, store
  <2> QED
    BY <1>7, <2>2, <2>3, RefreshStepKeepsInv
<1>8. CASE /\ work[p] # None
           /\ rt' = [rt EXCEPT !.fingerprints[p] = call.stamp, !.hashes[p] = work[p]]
           /\ call' = [[call EXCEPT !.at = "examine", !.todo = @ \ {p}, !.path = None, !.stamp = None]
                         EXCEPT !.normalize = @ \/ rt.hashes[p] # work[p]]
           /\ failed' = failed
  <2> DEFINE norm == call.normalize \/ rt.hashes[p] # work[p]
             todo == call.todo \ {p}
             next == [call EXCEPT !.at = "examine", !.todo = todo, !.path = None, !.stamp = None]
  <2>1. /\ call' \in Calls /\ call'.at = "examine" /\ call'.todo = call.todo \ {p} /\ call'.normalize = norm
        /\ call'.result = "none" /\ call'.stamp = None
    <3>1. norm \in BOOLEAN /\ todo \in SUBSET Paths
      BY <1>2
    <3>2. call' = [next EXCEPT !.normalize = next.normalize \/ rt.hashes[p] # work[p]]
      BY <1>8
    <3>3. next.normalize = call.normalize
      <4> HIDE DEF todo
      <4> QED
        BY ONLY <1>2, <3>1, HasRead
    <3>4. call' = [next EXCEPT !.normalize = norm]
      BY <3>2, <3>3
    <3> HIDE DEF norm, todo
    <3>5. /\ call' \in Calls
          /\ call' = [at |-> "examine", todo |-> todo, path |-> None, stamp |-> None,
                      normalize |-> norm, result |-> call.result]
      BY ONLY <1>2, <3>1, <3>4, HasRead
    <3> QED
      BY <1>2, <3>5 DEF todo
  <2>2. /\ rt' \in Runtime /\ rt'.base = rt.base /\ rt'.arcs = rt.arcs /\ rt'.snapshot = rt.snapshot
        /\ \A q \in Paths : /\ rt'.fingerprints[q] = IF q = p THEN call.stamp ELSE rt.fingerprints[q]
                            /\ rt'.hashes[q] = IF q = p THEN work[p] ELSE rt.hashes[q]
        /\ rt.hashes[p] = work[p] => rt'.hashes = rt.hashes
    <3>1. rt' = Anew(rt, p, call.stamp, work[p])
      BY <1>8 DEF Anew
    <3>2. call.stamp \in 0 .. MaxEdits \cup {None}
      BY <1>2
    <3> HIDE DEF p
    <3> DEFINE n == Anew(rt, p, call.stamp, work[p])
    <3>3. /\ n \in Runtime
          /\ n.base = rt.base /\ n.arcs = rt.arcs /\ n.snapshot = rt.snapshot
      BY <1>2, <3>2, PathUpdated
    <3>4. \A q \in Paths : /\ n.fingerprints[q] = IF q = p THEN call.stamp ELSE rt.fingerprints[q]
                           /\ n.hashes[q] = IF q = p THEN work[p] ELSE rt.hashes[q]
      <4> DEFINE f == call.stamp
                 h == work[p]
      <4>1. f \in 0 .. MaxEdits \cup {None} /\ h \in Texts \cup {None} /\ p \in Paths /\ rt \in Runtime
        BY <1>2, <3>2
      <4>2. n = Anew(rt, p, f, h)
        OBVIOUS
      <4> HIDE DEF f, h, n, p
      <4>3. \A q \in Paths : /\ Anew(rt, p, f, h).fingerprints[q] = IF q = p THEN f ELSE rt.fingerprints[q]
                             /\ Anew(rt, p, f, h).hashes[q] = IF q = p THEN h ELSE rt.hashes[q]
        BY ONLY <4>1, PathUpdated
      <4> QED
        BY <4>2, <4>3 DEF f, h
    <3>5. rt.hashes[p] = work[p] => n.hashes = rt.hashes
      BY <1>2, <3>2, PathUpdated
    <3> HIDE DEF n, p
    <3> QED
      BY <3>1, <3>3, <3>4, <3>5 DEF n
  <2>3. RefreshTypeOK'
    BY <1>1, <1>8, <2>1, <2>2 DEF Typed, RefreshTypeOK, tree
  <2>4. CallInv'
    BY <2>1 DEF CallInv, At
  <2>5. StampInv'
    BY <1>2, <1>5, <2>1, <2>2 DEF StampInv
  <2>6. GraphInv'
    BY <1>1, <1>8, <2>1, <2>2 DEF GraphInv, OneGraph, store
  <2>7. SeenInv'
    BY <1>1, <1>3, <1>4, <1>5, <1>6, <1>8, <2>1, <2>2 DEF SeenInv, At
  <2> QED
    BY <1>2, <1>8, <2>2, <2>3, <2>4, <2>5, <2>6, <2>7, RefreshStepKeepsInv
<1> QED
  BY <1>7, <1>8 DEF ReadPath

LEMMA FinishRefreshKeepsInv ==
  ASSUME BackendInv, RefreshRuntime, FinishRefresh
  PROVE  BackendInv'
<1> USE DEF BackendInv
<1> DEFINE snapshot == [rt.snapshot EXCEPT !.diff = Diff(rt.base, rt.hashes)]
<1>1. /\ At("examine") /\ call.todo = {} /\ UNCHANGED <<tree, seen, failed>> /\ UNCHANGED store
  BY DEF FinishRefresh, RefreshRuntime
<1>2. /\ call.result = "none" /\ rt \in Runtime /\ rt.snapshot \in Snapshots
      /\ rt.base \in Trees /\ rt.hashes \in Trees
  BY <1>1 DEF Typed, RefreshTypeOK, CallInv, At, Runtime
<1>3. GenerationsHoldTheirRevision' => GenerationsHoldTheirRevision
  BY <1>1 DEF GenerationsHoldTheirRevision, store
<1>4. \A q \in Paths : seen'[q] = seen[q] /\ work'[q] = work[q] /\ stamp'[q] = stamp[q] /\ edits' = edits
  BY <1>1 DEF tree
<1>5. GenerationsHoldTheirRevision /\ ~failed => \A q \in Paths : rt.hashes[q] \in seen[q]
  BY <1>1 DEF SeenInv, At
<1>6. snapshot \in Snapshots /\ snapshot.rev = rt.snapshot.rev /\ snapshot.diff = Diff(rt.base, rt.hashes)
  <2> DEFINE d == Diff(rt.base, rt.hashes)
  <2>1. d \in SUBSET (Paths \X (Texts \cup {None}))
    BY <1>2, DiffIsTyped
  <2>2. snapshot = [rt.snapshot EXCEPT !.diff = d]
    OBVIOUS
  <2> HIDE DEF d, snapshot
  <2>3. snapshot = [rev |-> rt.snapshot.rev, diff |-> d] /\ snapshot \in Snapshots
    BY ONLY <1>2, <2>1, <2>2, SnapshotOf
  <2> QED
    BY <2>3 DEF d
<1> HIDE DEF snapshot
<1>7. ASSUME NEW result \in {"same", "changed"}, call' = Ended(result),
             rt' \in Runtime, rt'.base = rt.base, rt'.hashes = rt.hashes, rt'.fingerprints = rt.fingerprints,
             rt'.snapshot.rev = rt.snapshot.rev, rt'.snapshot = rt.snapshot \/ result = "changed",
             ~failed => OneGraph'
      PROVE  BackendInv'
  <2>1. /\ call' \in Calls /\ call'.at = "rest" /\ call'.todo = {} /\ ~call'.normalize
        /\ call'.result = result /\ call'.stamp = None
    BY <1>7, BegunAndEnded DEF Ended
  <2>2. RefreshTypeOK'
    BY <1>1, <1>7, <2>1 DEF Typed, RefreshTypeOK, tree
  <2>3. CallInv'
    BY <2>1 DEF CallInv, At
  <2>4. StampInv'
    BY <1>4, <1>7, <2>1 DEF StampInv
  <2>5. GraphInv'
    BY <1>1, <1>7, <2>1 DEF GraphInv, store
  <2>6. SeenInv'
    BY <1>1, <1>3, <1>4, <1>5, <1>7, <2>1 DEF SeenInv
  <2> QED
    BY <1>1, <1>2, <1>7, <2>1, <2>2, <2>3, <2>4, <2>5, <2>6, RefreshStepKeepsInv
<1>8. CASE /\ rt' = [rt EXCEPT !.arcs = rt.hashes, !.snapshot = snapshot]
           /\ call' = Ended(IF snapshot # rt.snapshot THEN "changed" ELSE "same")
  <2>1. /\ rt' \in Runtime
        /\ rt' = [base |-> rt.base, hashes |-> rt.hashes, arcs |-> rt.hashes, snapshot |-> snapshot,
                  fingerprints |-> rt.fingerprints]
    BY <1>2, <1>6, <1>8, Renamed
  <2>2. OneGraph'
    BY <1>6, <2>1 DEF OneGraph
  <2> DEFINE result == IF snapshot # rt.snapshot THEN "changed" ELSE "same"
  <2>3. result \in {"same", "changed"} /\ (rt'.snapshot = rt.snapshot \/ result = "changed")
    BY <2>1
  <2>4. /\ rt'.base = rt.base /\ rt'.hashes = rt.hashes /\ rt'.fingerprints = rt.fingerprints
        /\ rt'.snapshot.rev = rt.snapshot.rev
    BY <1>6, <2>1
  <2>5. call' = Ended(result)
    BY <1>8
  <2> HIDE DEF result
  <2> QED
    BY <1>7, <2>1, <2>2, <2>3, <2>4, <2>5
<1>9. CASE ~call.normalize /\ call' = Ended("same") /\ rt' = rt
  BY <1>2, <1>7, <1>9 DEF GraphInv, OneGraph
<1> QED
  BY <1>8, <1>9 DEF FinishRefresh, snapshot

LEMMA RefreshRuntimeKeepsInv ==
  ASSUME BackendInv, RefreshRuntime
  PROVE  BackendInv'
  BY ReadStatusKeepsInv, ExaminePathKeepsInv, ReadPathKeepsInv, FinishRefreshKeepsInv
  DEF RefreshRuntime, RefreshStep

-----------------------------------------------------------------------------
(* Elsewhere *)

(* Files are written, and HEAD moves. *)
LEMMA WriteKeepsInv ==
  ASSUME BackendInv, NEW rev \in Revs, NEW files \in Trees, NEW written \in SUBSET Paths,
         Write(rev, files, written), \A p \in Paths \ written : files[p] = work[p],
         UNCHANGED <<stage, request, revision, listing, store, caches>>
  PROVE  BackendInv'
<1> USE DEF BackendInv
<1>1. /\ edits < MaxEdits /\ head' = rev /\ work' = files /\ edits' = edits + 1
      /\ stamp' = [p \in Paths |-> IF p \in written THEN edits + 1 ELSE stamp[p]]
      /\ seen' = [p \in Paths |-> seen[p] \cup {files[p]}]
      /\ UNCHANGED <<rt, call, failed>>
  BY DEF Write
<1>2. edits \in Nat /\ edits + 1 \in 0 .. MaxEdits
  BY <1>1 DEF Typed, RefreshTypeOK
<1>3. \A p \in Paths : /\ stamp[p] \in 0 .. MaxEdits
                       /\ seen[p] \subseteq Texts \cup {None} /\ files[p] \in Texts \cup {None}
  BY DEF Typed, RefreshTypeOK, Trees
<1>4. RefreshTypeOK'
  <2>1. stamp' \in [Paths -> 0 .. MaxEdits]
    BY <1>1, <1>2, <1>3
  <2>2. seen' \in [Paths -> SUBSET (Texts \cup {None})]
    BY <1>1, <1>3
  <2> QED
    BY <1>1, <1>2, <2>1, <2>2 DEF Typed, RefreshTypeOK
<1>5. Typed'
  BY <1>1, <1>4 DEF Typed, store, caches, At
<1>6. CallInv'
  BY <1>1 DEF CallInv, At
<1>7. StampInv'
  <2>1. ASSUME NEW p \in Paths
        PROVE  /\ stamp'[p] <= edits'
               /\ rt'.fingerprints[p] # None => rt'.fingerprints[p] <= edits'
               /\ rt'.fingerprints[p] = stamp'[p] /\ rt'.hashes[p] # None => rt'.hashes[p] = work'[p]
    <3>1. rt.fingerprints[p] # None => rt.fingerprints[p] \in Nat /\ rt.fingerprints[p] <= edits
      BY DEF StampInv, Typed, RefreshTypeOK, Runtime
    <3>2. stamp[p] <= edits /\ stamp[p] \in Nat
      BY <1>3 DEF StampInv
    <3>3. CASE p \in written
      BY <1>1, <1>2, <3>1, <3>3
    <3>4. CASE p \notin written
      <4>1. stamp'[p] = stamp[p] /\ work'[p] = work[p]
        BY <1>1, <3>4
      <4> QED
        BY <1>1, <1>2, <3>1, <3>2, <4>1 DEF StampInv
    <3> QED
      BY <3>3, <3>4
  <2>2. call'.stamp # None => call'.stamp <= edits'
    <3>1. call.stamp # None => call.stamp \in Nat /\ call.stamp <= edits
      BY DEF StampInv, Typed, RefreshTypeOK, Calls
    <3> QED
      BY <1>1, <1>2, <3>1
  <2> QED
    BY <2>1, <2>2 DEF StampInv
<1>8. GraphInv'
  BY <1>1 DEF GraphInv, OneGraph, store
<1>9. SeenInv'
  <2>1. \A p \in Paths : seen'[p] = seen[p] \cup {work'[p]}
    BY <1>1
  <2>2. GenerationsHoldTheirRevision' => GenerationsHoldTheirRevision
    BY DEF GenerationsHoldTheirRevision, store
  <2> QED
    BY <1>1, <2>1, <2>2 DEF SeenInv
<1>10. CacheInv'
  BY <1>1 DEF CacheInv, caches
<1>11. ListInv'
  BY CachesUntouched
<1> QED
  BY <1>5, <1>6, <1>7, <1>8, <1>9, <1>10, <1>11

LEMMA ElsewhereKeepsInv ==
  ASSUME BackendInv, Elsewhere
  PROVE  BackendInv'
<1>1. UNCHANGED <<stage, request, revision, listing, store, caches>>
  BY DEF Elsewhere
<1>2. head \in Revs /\ work \in Trees
  BY DEF BackendInv, Typed, RefreshTypeOK
<1>3. ASSUME NEW p \in Paths, NEW text \in Texts \cup {None}, Edit(p, text)
      PROVE  BackendInv'
  <2> DEFINE files == [work EXCEPT ![p] = text]
  <2>1. files \in Trees /\ \A q \in Paths \ {p} : files[q] = work[q]
    BY <1>2 DEF Trees
  <2>2. Write(head, files, {p})
    BY <1>3 DEF Edit
  <2> HIDE DEF files
  <2> QED
    BY <1>1, <1>2, <2>1, <2>2, WriteKeepsInv
<1>4. ASSUME NEW r \in Revs, Commit(r)
      PROVE  BackendInv'
  BY <1>1, <1>2, <1>4, WriteKeepsInv DEF Commit
<1>5. ASSUME NEW r \in Revs, Checkout(r)
      PROVE  BackendInv'
  <2> DEFINE edited == {p \in Paths : work[p] # Committed[head][p]}
             written == {p \in Paths \ edited : work[p] # Committed[r][p]}
             files == [p \in Paths |-> IF p \in edited THEN work[p] ELSE Committed[r][p]]
  <2>1. files \in Trees
    BY <1>2 DEF Trees
  <2>2. written \in SUBSET Paths /\ \A p \in Paths \ written : files[p] = work[p]
    OBVIOUS
  <2>3. Write(r, files, written)
    BY <1>5 DEF Checkout
  <2> HIDE DEF files, written, edited
  <2> QED
    BY <1>1, <2>1, <2>2, <2>3, WriteKeepsInv
<1> QED
  BY <1>3, <1>4, <1>5 DEF Elsewhere, Environment

-----------------------------------------------------------------------------
(* The order of the preparation cache *)

(* An element is taken out, and the others close up. *)
LEMMA RemoveFirstCloses ==
  ASSUME NEW S, NEW s \in Seq(S), NEW k \in 1 .. Len(s), OnceEach(s)
  PROVE  LET r == RemoveFirst(s, s[k])
         IN /\ r \in Seq(S)
            /\ Len(r) = Len(s) - 1
            /\ \A i \in 1 .. Len(r) : r[i] = IF i < k THEN s[i] ELSE s[i + 1]
<1> DEFINE e == s[k]
           I == {i \in 1 .. Len(s) : s[i] = e}
<1>1. Len(s) \in Nat /\ \A i \in 1 .. Len(s) : s[i] \in S
  BY LenProperties, ElementOfSeq
<1>2. I = {k}
  BY DEF OnceEach
<1>3. SelectInSeq(s, LAMBDA v : v = e) = k
  <2>1. SelectInSeq(s, LAMBDA v : v = e) = IF I # {} THEN Min(I) ELSE 0
    BY DEF SelectInSeq
  <2>2. Min({k}) = k
    BY <1>1 DEF Min
  <2> QED
    BY <1>2, <2>1, <2>2
<1>4. RemoveFirst(s, e) = RemoveAt(s, k)
  BY <1>3 DEF RemoveFirst
<1> DEFINE l == SubSeq(s, 1, k - 1)
           r == SubSeq(s, k + 1, Len(s))
<1>5. l \in Seq(S) /\ Len(l) = k - 1 /\ \A i \in 1 .. k - 1 : l[i] = s[i]
  BY <1>1, SubSeqProperties
<1>6. r \in Seq(S) /\ Len(r) = Len(s) - k /\ \A i \in 1 .. Len(s) - k : r[i] = s[k + i]
  BY <1>1, SubSeqProperties
<1> HIDE DEF l, r
<1>7. /\ l \o r \in Seq(S)
      /\ Len(l \o r) = Len(s) - 1
      /\ \A i \in 1 .. Len(s) - 1 : (l \o r)[i] = IF i <= Len(l) THEN l[i] ELSE r[i - Len(l)]
  <2>1. Len(l) + Len(r) = Len(s) - 1
    BY <1>1, <1>5, <1>6
  <2>2. /\ l \o r \in Seq(S)
        /\ Len(l \o r) = Len(l) + Len(r)
        /\ \A i \in 1 .. Len(l) + Len(r) : (l \o r)[i] = IF i <= Len(l) THEN l[i] ELSE r[i - Len(l)]
    BY ONLY <1>5, <1>6, ConcatProperties
  <2> QED
    BY <2>1, <2>2
<1>8. ASSUME NEW i \in 1 .. Len(s) - 1
      PROVE  (l \o r)[i] = IF i < k THEN s[i] ELSE s[i + 1]
  <2>1. CASE i < k
    BY <1>1, <1>5, <1>7, <2>1
  <2>2. CASE i >= k
    <3>1. (l \o r)[i] = r[i - (k - 1)] /\ i - (k - 1) \in 1 .. Len(s) - k /\ k + (i - (k - 1)) = i + 1
      BY <1>1, <1>5, <1>7, <2>2
    <3>2. r[i - (k - 1)] = s[k + (i - (k - 1))]
      BY <1>6, <3>1
    <3> QED
      BY <1>1, <2>2, <3>1, <3>2
  <2>3. i < k \/ i >= k
    BY <1>1
  <2> QED
    BY <2>1, <2>2, <2>3
<1>9. RemoveFirst(s, e) = l \o r
  BY <1>4 DEF RemoveAt, l, r
<1> QED
  BY <1>7, <1>8, <1>9

LEMMA OnceCounts ==
  ASSUME NEW S, NEW s \in Seq(S), OnceEach(s)
  PROVE  Cardinality({s[i] : i \in 1 .. Len(s)}) = Len(s)
<1> DEFINE D == 1 .. Len(s)
           T == {s[i] : i \in D}
           f == [i \in D |-> s[i]]
<1>1. Len(s) \in Nat
  BY LenProperties
<1>2. f \in Bijection(D, T)
  BY DEF OnceEach, Bijection, Injection, Surjection, IsInjective
<1>3. Cardinality(T) = Len(s)
  BY <1>1, <1>2, FS_CountingElements DEF ExistsBijection
<1> QED
  BY <1>3

(* The list is of the cached queries, and as long as they are many. *)
LEMMA ListCounts ==
  ASSUME BackendInv
  PROVE  LET cached == {q \in Queries : prepared[q] # None}
         IN /\ {order[i] : i \in DOMAIN order} = cached
            /\ Len(order) = Cardinality(cached)
<1>1. order \in Seq(Queries) /\ OnceEach(order)
  BY DEF BackendInv, Typed, ListInv
<1>2. DOMAIN order = 1 .. Len(order) /\ \A i \in 1 .. Len(order) : order[i] \in Queries
  BY <1>1, LenProperties, ElementOfSeq
<1>3. {order[i] : i \in 1 .. Len(order)} = {q \in Queries : prepared[q] # None}
  BY <1>2 DEF BackendInv, ListInv
<1> QED
  BY <1>1, <1>2, <1>3, OnceCounts

(* A query that is used becomes the last of the list. *)
LEMMA HitListsOnce ==
  ASSUME BackendInv, NEW q \in Queries, Hit(q)
  PROVE  ListInv' /\ order' \in Seq(Queries)
<1> DEFINE r == RemoveFirst(order, q)
           n == Append(r, q)
<1>1. order \in Seq(Queries) /\ Len(order) \in Nat /\ OnceEach(order) /\ Len(order) <= CacheLimit
  BY LenProperties DEF BackendInv, Typed, ListInv
<1>2. prepared[q] # None /\ prepared' = prepared /\ order' = n
  BY DEF Hit
<1>3. PICK k \in 1 .. Len(order) : order[k] = q
  BY <1>2 DEF BackendInv, ListInv
<1>4. /\ r \in Seq(Queries)
      /\ Len(r) = Len(order) - 1
      /\ \A i \in 1 .. Len(r) : r[i] = IF i < k THEN order[i] ELSE order[i + 1]
  BY <1>1, <1>3, RemoveFirstCloses
<1> HIDE DEF r
<1>5. /\ n \in Seq(Queries)
      /\ Len(n) = Len(r) + 1
      /\ \A i \in 1 .. Len(r) : n[i] = r[i]
      /\ n[Len(r) + 1] = q
  BY <1>4, AppendProperties
<1> HIDE DEF n
<1>6. Len(n) = Len(order)
  BY <1>1, <1>4, <1>5
<1> DEFINE at(i) == IF i = Len(order) THEN k ELSE IF i < k THEN i ELSE i + 1
<1>7. \A i \in 1 .. Len(order) : at(i) \in 1 .. Len(order) /\ n[i] = order[at(i)]
  BY <1>1, <1>3, <1>4, <1>5, <1>6
<1>8. \A i, j \in 1 .. Len(order) : at(i) = at(j) => i = j
  BY <1>1
<1>9. \A j \in 1 .. Len(order) : \E i \in 1 .. Len(order) : at(i) = j
  <2> TAKE j \in 1 .. Len(order)
  <2> DEFINE i == IF j = k THEN Len(order) ELSE IF j < k THEN j ELSE j - 1
  <2>1. i \in 1 .. Len(order) /\ at(i) = j
    BY <1>1
  <2> QED
    BY <2>1
<1> HIDE DEF at
<1>10. \A i \in 1 .. Len(n) : prepared[n[i]] # None
  BY <1>6, <1>7 DEF BackendInv, ListInv
<1>11. ASSUME NEW o \in Queries, prepared[o] # None
       PROVE  \E i \in 1 .. Len(n) : n[i] = o
  <2>1. PICK j \in 1 .. Len(order) : order[j] = o
    BY <1>11 DEF BackendInv, ListInv
  <2>2. PICK i \in 1 .. Len(order) : at(i) = j
    BY <1>9
  <2> QED
    BY <1>6, <1>7, <2>1, <2>2
<1>12. OnceEach(n)
  BY <1>1, <1>6, <1>7, <1>8 DEF OnceEach
<1> QED
  BY <1>1, <1>2, <1>5, <1>6, <1>10, <1>11, <1>12 DEF ListInv

(* A query that is new is the last of the list; the first leaves a full    *)
(* one, and the cache.                                                     *)
LEMMA MissListsOnce ==
  ASSUME BackendInv, NEW q \in Queries, Miss(q), rt.snapshot # None
  PROVE  ListInv' /\ order' \in Seq(Queries)
<1> DEFINE full == Cardinality({o \in Queries : prepared[o] # None}) >= CacheLimit
           kept == IF full THEN Tail(order) ELSE order
           n == Append(kept, q)
<1>1. order \in Seq(Queries) /\ Len(order) \in Nat /\ OnceEach(order) /\ Len(order) <= CacheLimit
  BY LenProperties DEF BackendInv, Typed, ListInv
<1>2. /\ prepared[q] = None /\ order' = n
      /\ prepared' = [o \in Queries |->
           IF o = q THEN rt.snapshot
           ELSE IF full /\ o = Head(order) THEN None ELSE prepared[o]]
  BY DEF Miss
<1>3. full <=> Len(order) >= CacheLimit
  BY ListCounts
<1> HIDE DEF full
<1>4. \A i \in 1 .. Len(order) : order[i] # q /\ order[i] \in Queries /\ prepared[order[i]] # None
  BY <1>1, <1>2, ElementOfSeq DEF BackendInv, ListInv
<1>5. CASE full
  <2>1. order # << >> /\ Len(order) >= 1 /\ Head(order) = order[1]
    BY <1>1, <1>3, <1>5, EmptySeq
  <2>2. /\ kept = Tail(order) /\ kept \in Seq(Queries) /\ Len(kept) = Len(order) - 1
        /\ \A i \in 1 .. Len(kept) : kept[i] = order[i + 1]
    BY <1>1, <1>5, <2>1, HeadTailProperties
  <2> HIDE DEF kept
  <2>3. n \in Seq(Queries) /\ Len(n) = Len(kept) + 1 /\ n[Len(kept) + 1] = q
        /\ \A i \in 1 .. Len(kept) : n[i] = kept[i]
    BY <2>2, AppendProperties
  <2> HIDE DEF n
  <2>4. Len(n) = Len(order) /\ n[Len(order)] = q
        /\ \A i \in 1 .. Len(order) - 1 : n[i] = order[i + 1]
    BY <1>1, <2>1, <2>2, <2>3
  <2>5. \A i \in 1 .. Len(order) - 1 : order[i + 1] # order[1]
    BY <1>1, <2>1 DEF OnceEach
  <2>6. /\ prepared'[q] # None
        /\ \A o \in Queries : o # q => prepared'[o] = IF o = order[1] THEN None ELSE prepared[o]
    BY <1>2, <1>5, <2>1
  <2>7. ASSUME NEW i \in 1 .. Len(n)
        PROVE  prepared'[n[i]] # None
    <3>1. CASE i = Len(order)
      BY <2>4, <2>6, <3>1
    <3>2. CASE i \in 1 .. Len(order) - 1
      <4>1. i + 1 \in 1 .. Len(order) /\ n[i] = order[i + 1] /\ order[i + 1] # order[1]
        BY <1>1, <2>4, <2>5, <3>2
      <4> QED
        BY <1>4, <2>6, <4>1
    <3> QED
      BY <1>1, <2>4, <3>1, <3>2
  <2>8. ASSUME NEW o \in Queries, prepared'[o] # None
        PROVE  \E i \in 1 .. Len(n) : n[i] = o
    <3>1. CASE o = q
      BY <1>1, <2>1, <2>4, <3>1
    <3>2. CASE o # q
      <4>1. prepared[o] # None /\ o # order[1]
        BY <2>6, <2>8, <3>2
      <4>2. PICK j \in 1 .. Len(order) : order[j] = o
        BY <4>1 DEF BackendInv, ListInv
      <4>3. j # 1 /\ j - 1 \in 1 .. Len(order) - 1 /\ (j - 1) + 1 = j
        BY <1>1, <4>1, <4>2
      <4>4. n[j - 1] = o /\ j - 1 \in 1 .. Len(n)
        BY <1>1, <2>4, <4>2, <4>3
      <4> QED
        BY <4>4
    <3> QED
      BY <3>1, <3>2
  <2>9. OnceEach(n)
    <3>1. \A i \in 1 .. Len(order) - 1 : i + 1 \in 1 .. Len(order) /\ n[i] = order[i + 1] /\ n[i] # q
      BY <1>1, <1>4, <2>4
    <3> QED
      BY <1>1, <2>1, <2>4, <3>1 DEF OnceEach
  <2> QED
    BY <1>1, <1>2, <2>3, <2>4, <2>7, <2>8, <2>9 DEF ListInv
<1>6. CASE ~full
  <2>1. kept = order
    BY <1>6
  <2> HIDE DEF kept
  <2>2. n \in Seq(Queries) /\ Len(n) = Len(order) + 1 /\ n[Len(order) + 1] = q
        /\ \A i \in 1 .. Len(order) : n[i] = order[i]
    BY <1>1, <2>1, AppendProperties
  <2> HIDE DEF n
  <2>3. prepared'[q] # None /\ \A o \in Queries : o # q => prepared'[o] = prepared[o]
    BY <1>2, <1>6
  <2>4. \A i \in 1 .. Len(n) : i = Len(order) + 1 \/ i \in 1 .. Len(order)
    BY <1>1, <2>2
  <2>5. \A i \in 1 .. Len(n) : prepared'[n[i]] # None
    BY <1>4, <2>2, <2>3, <2>4
  <2>6. ASSUME NEW o \in Queries, prepared'[o] # None
        PROVE  \E i \in 1 .. Len(n) : n[i] = o
    <3>1. CASE o = q
      <4>1. Len(order) + 1 \in 1 .. Len(n)
        BY <1>1, <2>2
      <4> QED
        BY <2>2, <3>1, <4>1
    <3>2. CASE o # q
      <4>1. PICK j \in 1 .. Len(order) : order[j] = o
        BY <2>3, <2>6, <3>2 DEF BackendInv, ListInv
      <4>2. j \in 1 .. Len(n) /\ n[j] = o
        BY <1>1, <2>2, <4>1
      <4> QED
        BY <4>2
    <3> QED
      BY <3>1, <3>2
  <2>7. OnceEach(n)
    <3>1. \A i \in 1 .. Len(order) : n[i] = order[i] /\ n[i] # q
      BY <1>4, <2>2
    <3> QED
      BY <1>1, <2>2, <2>4, <3>1 DEF OnceEach
  <2>8. Len(n) <= CacheLimit
    BY <1>1, <1>3, <1>6, <2>2
  <2> QED
    BY <1>2, <2>2, <2>5, <2>6, <2>7, <2>8 DEF ListInv
<1> QED
  BY <1>5, <1>6

-----------------------------------------------------------------------------
(* orient, expand, and other processes *)

(* A handle is issued for a snapshot, or none. *)
LEMMA IssueKeepsTypes ==
  ASSUME BackendInv, NEW expiring, NEW s \in Snapshots, Issue(expiring, s)
  PROVE  /\ cursor' \in 0 .. MaxHandles
         /\ expansions' \subseteq [handle : 0 .. MaxHandles, snapshot : Snapshots]
         /\ \A e \in expansions' : e \in expansions \/ e.snapshot = s
<1>1. /\ cursor \in 0 .. MaxHandles
      /\ expansions \subseteq [handle : 0 .. MaxHandles, snapshot : Snapshots]
  BY DEF BackendInv, Typed
<1>2. CASE /\ cursor < MaxHandles
           /\ expansions' = (expansions \ expiring) \cup {[handle |-> cursor, snapshot |-> s]}
           /\ cursor' = cursor + 1
  <2> DEFINE new == [handle |-> cursor, snapshot |-> s]
  <2>1. new \in [handle : 0 .. MaxHandles, snapshot : Snapshots] /\ new.snapshot = s
    BY <1>1
  <2>2. expansions' = (expansions \ expiring) \cup {new}
    BY <1>2
  <2> HIDE DEF new
  <2>3. cursor' \in 0 .. MaxHandles
    BY <1>1, <1>2
  <2> QED
    BY <1>1, <2>1, <2>2, <2>3
<1>3. CASE expansions' = expansions \ expiring /\ UNCHANGED cursor
  BY <1>1, <1>3
<1> QED
  BY <1>2, <1>3 DEF Issue

LEMMA AnswerOrientKeepsInv ==
  ASSUME BackendInv, NEW q \in Queries, AnswerOrient(q)
  PROVE  BackendInv'
<1> USE DEF BackendInv
<1>1. /\ stage = "answer" /\ stage' = "idle" /\ UNCHANGED <<vars, revision, listing, store>>
  BY DEF AnswerOrient, Reply
<1>2. rt.snapshot \in Snapshots /\ rt.snapshot # None
  BY DEF Typed, RefreshTypeOK, Runtime
<1>3. prepared \in [Queries -> Snapshots \cup {None}]
  BY DEF Typed
<1>4. ASSUME NEW s \in Snapshots, Issue({}, s), ListInv', order' \in Seq(Queries),
             prepared' \in [Queries -> Snapshots \cup {None}],
             ~failed => \A o \in Queries : prepared'[o] \in {None, rt.snapshot},
             ~failed => s = rt.snapshot
      PROVE  BackendInv'
  <2>1. /\ cursor' \in 0 .. MaxHandles
        /\ expansions' \subseteq [handle : 0 .. MaxHandles, snapshot : Snapshots]
        /\ \A e \in expansions' : e \in expansions \/ e.snapshot = s
    BY <1>4, IssueKeepsTypes
  <2>2. StoreGrows
    BY <1>1, Untouched
  <2>3. Typed'
    BY <1>1, <1>4, <2>1 DEF Typed, RefreshTypeOK, vars, tree, store, Stages, At
  <2>4. CacheInv'
    BY <1>1, <1>4, <2>1 DEF CacheInv, vars
  <2> QED
    BY <1>1, <1>4, <2>2, <2>3, <2>4, RestKeepsInv
<1>5. ~failed => \A o \in Queries : prepared[o] \in {None, rt.snapshot}
  BY <1>1 DEF CacheInv
<1>6. CASE Hit(q)
  <2>1. prepared[q] # None /\ prepared' = prepared /\ Issue({}, prepared[q])
    BY <1>6 DEF Hit
  <2>2. prepared[q] \in Snapshots
    BY <1>3, <2>1
  <2>3. ListInv' /\ order' \in Seq(Queries)
    BY <1>6, HitListsOnce
  <2>4. ~failed => prepared[q] = rt.snapshot
    BY <1>5, <2>1
  <2> QED
    BY <1>3, <1>4, <1>5, <2>1, <2>2, <2>3, <2>4
<1>7. CASE Miss(q)
  <2>1. Issue({}, rt.snapshot) /\ prepared' \in [Queries -> Snapshots \cup {None}]
        /\ \A o \in Queries : prepared'[o] \in {None, rt.snapshot, prepared[o]}
    BY <1>2, <1>3, <1>7 DEF Miss
  <2>2. ListInv' /\ order' \in Seq(Queries)
    BY <1>2, <1>7, MissListsOnce
  <2>3. ~failed => \A o \in Queries : prepared'[o] \in {None, rt.snapshot}
    BY <1>5, <2>1
  <2> QED
    BY <1>2, <1>4, <2>1, <2>2, <2>3
<1> QED
  BY <1>6, <1>7 DEF AnswerOrient

LEMMA AnswerExpandKeepsInv ==
  ASSUME BackendInv, AnswerExpand
  PROVE  BackendInv'
<1> USE DEF BackendInv
<1> DEFINE found == {e \in expansions : e.handle = request.handle}
<1>1. /\ stage = "answer" /\ stage' = "idle" /\ UNCHANGED <<vars, revision, listing, store, prepared, order>>
      /\ \/ UNCHANGED <<expansions, cursor>>
         \/ \E e \in found : Issue(found, e.snapshot)
  BY DEF AnswerExpand, Reply
<1>2. expansions \subseteq [handle : 0 .. MaxHandles, snapshot : Snapshots] /\ found \subseteq expansions
  BY DEF Typed
<1> HIDE DEF found
<1>3. /\ cursor' \in 0 .. MaxHandles
      /\ expansions' \subseteq [handle : 0 .. MaxHandles, snapshot : Snapshots]
      /\ \A e \in expansions' : e \in expansions \/ \E f \in expansions : e.snapshot = f.snapshot
  <2>1. CASE UNCHANGED <<expansions, cursor>>
    BY <2>1 DEF Typed
  <2>2. CASE \E e \in found : Issue(found, e.snapshot)
    <3>1. PICK e \in found : Issue(found, e.snapshot)
      BY <2>2
    <3>2. e \in expansions /\ e.snapshot \in Snapshots
      BY <1>2
    <3> QED
      BY <3>1, <3>2, IssueKeepsTypes
  <2> QED
    BY <1>1, <2>1, <2>2
<1>4. StoreGrows
  BY <1>1, Untouched
<1>5. Typed'
  BY <1>1, <1>3 DEF Typed, RefreshTypeOK, vars, tree, store, Stages, At
<1>6. CacheInv'
  BY <1>1, <1>3 DEF CacheInv, vars
<1>7. ListInv'
  BY <1>1 DEF ListInv
<1> QED
  BY <1>1, <1>4, <1>5, <1>6, <1>7, RestKeepsInv

LEMMA ServeKeepsInv ==
  ASSUME BackendInv, Serve
  PROVE  BackendInv'
  BY RefreshRuntimeKeepsInv, RefreshedKeepsInv, RefreshFailedKeepsInv, IndexRevisionKeepsInv,
     IndexListingKeepsInv, PublishKeepsInv, OpenCurrentKeepsInv, OpenFailsKeepsInv,
     ReopenedKeepsInv, ReopenFailedKeepsInv, AnswerOrientKeepsInv, AnswerExpandKeepsInv
  DEF Serve

(* A reader, a search or a scan is answered. *)
LEMMA ReplyKeepsInv ==
  ASSUME BackendInv, stage = "answer", Reply, UNCHANGED <<vars, revision, listing, store, caches>>
  PROVE  BackendInv'
<1> USE DEF BackendInv
<1>1. stage' = "idle"
  BY DEF Reply
<1>2. StoreGrows
  BY Untouched
<1>3. Typed'
  BY <1>1 DEF Typed, RefreshTypeOK, vars, tree, store, caches, Stages, At
<1>4. CacheInv'
  BY <1>1 DEF CacheInv, vars, caches
<1> QED
  BY <1>2, <1>3, <1>4, CachesUntouched, RestKeepsInv

(* Another process publishes HEAD, unless it is. *)
LEMMA OtherProcessGrows ==
  ASSUME BackendInv, OtherProcess
  PROVE  StoreGrows /\ current' \in Revs /\ generation'[current'] \in Trees
<1>1. head \in Revs /\ Committed[head] \in Trees /\ generation \in [Revs -> Trees \cup {None}]
  BY DEF BackendInv, Typed, RefreshTypeOK
<1> QED
  BY <1>1 DEF OtherProcess, StoreGrows

LEMMA OtherProcessKeepsInv ==
  ASSUME BackendInv, OtherProcess
  PROVE  BackendInv'
<1> USE DEF BackendInv
<1>1. UNCHANGED <<vars, stage, request, revision, listing, caches>>
  BY DEF OtherProcess
<1>2. StoreGrows /\ current' \in Revs /\ generation'[current'] \in Trees
  BY OtherProcessGrows
<1>3. Typed'
  BY <1>1, <1>2 DEF Typed, RefreshTypeOK, vars, tree, caches, Stages, At, StoreGrows
<1>4. CacheInv'
  BY <1>1 DEF CacheInv, vars, caches
<1> QED
  BY <1>1, <1>2, <1>3, <1>4, CachesUntouched, RestKeepsInv

-----------------------------------------------------------------------------
(* The pages of a search, and the risk scan *)

(* A refresh does not change the revision that the graph is built on. *)
LEMMA RefreshKeepsRevision ==
  ASSUME BackendInv, RefreshRuntime
  PROVE  rt'.snapshot.rev = rt.snapshot.rev
<1>1. rt \in Runtime /\ rt.snapshot \in Snapshots
  BY DEF BackendInv, Typed, RefreshTypeOK, Runtime
<1>2. CASE UNCHANGED rt
  BY <1>2
<1>3. ASSUME NEW p \in Paths, NEW f, NEW h, rt' = [rt EXCEPT !.fingerprints[p] = f, !.hashes[p] = h]
      PROVE  rt'.snapshot.rev = rt.snapshot.rev
  <2> DEFINE half == [rt EXCEPT !.fingerprints[p] = f]
  <2>1. half = [base |-> rt.base, hashes |-> rt.hashes, arcs |-> rt.arcs, snapshot |-> rt.snapshot,
                fingerprints |-> [rt.fingerprints EXCEPT ![p] = f]]
    BY <1>1 DEF Runtime
  <2>2. rt' = [half EXCEPT !.hashes[p] = h]
    BY <1>3
  <2> HIDE DEF half
  <2>3. rt'.snapshot = rt.snapshot
    BY <2>1, <2>2
  <2> QED
    BY <2>3
<1>4. ASSUME NEW p \in Paths, ExaminePath(p)
      PROVE  rt'.snapshot.rev = rt.snapshot.rev
  BY <1>2, <1>3, <1>4 DEF ExaminePath
<1>5. CASE ReadPath
  <2>1. call.path \in Paths
    BY <1>5 DEF ReadPath, BackendInv, CallInv
  <2> QED
    BY <1>2, <1>3, <1>5, <2>1 DEF ReadPath
<1>6. CASE FinishRefresh
  <2> DEFINE d == Diff(rt.base, rt.hashes)
             snapshot == [rt.snapshot EXCEPT !.diff = d]
  <2>1. snapshot \in Snapshots /\ snapshot.rev = rt.snapshot.rev
    <3>1. d \in SUBSET (Paths \X (Texts \cup {None}))
      BY <1>1, DiffIsTyped DEF Runtime
    <3>2. snapshot = [rt.snapshot EXCEPT !.diff = d]
      OBVIOUS
    <3> HIDE DEF d, snapshot
    <3>3. snapshot = [rev |-> rt.snapshot.rev, diff |-> d] /\ snapshot \in Snapshots
      BY ONLY <1>1, <3>1, <3>2, SnapshotOf
    <3> QED
      BY <3>3
  <2>2. UNCHANGED rt \/ rt' = [rt EXCEPT !.arcs = rt.hashes, !.snapshot = snapshot]
    BY <1>6 DEF FinishRefresh
  <2> HIDE DEF snapshot
  <2>3. CASE rt' = [rt EXCEPT !.arcs = rt.hashes, !.snapshot = snapshot]
    <3>1. rt.hashes \in Trees
      BY <1>1 DEF Runtime
    <3>2. rt' = [base |-> rt.base, hashes |-> rt.hashes, arcs |-> rt.hashes, snapshot |-> snapshot,
                 fingerprints |-> rt.fingerprints]
      BY <1>1, <2>1, <2>3, <3>1, Renamed
    <3> QED
      BY <2>1, <3>2
  <2> QED
    BY <1>2, <2>2, <2>3
<1> QED
  BY <1>2, <1>4, <1>5, <1>6 DEF RefreshRuntime, RefreshStep, ReadStatus

(* What a step of the backend does to what the server looks at. *)
LEMMA ServeSteps ==
  ASSUME BackendInv, Serve
  PROVE  /\ StoreGrows
         /\ stage # "idle"
         /\ stage' # "idle" => request' = request
         /\ \/ stage # "open" /\ stage' = "open" /\ rt' = rt
            \/ stage = "open" /\ rt' = rt
            \/ stage = "open" /\ current' = current /\ rt'.snapshot.rev = current
            \/ stage # "open" /\ current' = current /\ rt'.snapshot.rev = rt.snapshot.rev
<1>1. CASE RefreshRuntime
  <2>1. UNCHANGED <<stage, request, store>> /\ stage \in {"refresh", "again"}
    BY <1>1 DEF RefreshRuntime
  <2> QED
    BY <1>1, <2>1, Untouched, RefreshKeepsRevision DEF store
<1>2. CASE Publish
  <2>1. StoreGrows /\ stage = "publish" /\ rt' = rt
    BY <1>2, PublishGrows DEF Publish, vars
  <2>2. \/ stage' = "open" /\ request' = request
        \/ stage' = "idle" /\ UNCHANGED store
    BY <1>2 DEF Publish, Reply
  <2> QED
    BY <2>1, <2>2 DEF store
<1>3. CASE OpenCurrent
  <2>1. stage = "open" /\ stage' = "again" /\ UNCHANGED <<request, store>> /\ rt' = Opened(current, generation[current])
    BY <1>3 DEF OpenCurrent
  <2>2. rt'.snapshot.rev = current
    BY <2>1 DEF Opened
  <2> QED
    BY <2>1, <2>2, Untouched DEF store
<1>4. CASE \/ Refreshed \/ RefreshFailed \/ IndexRevision \/ IndexListing \/ OpenFails \/ Reopened \/ ReopenFailed
  <2>1. UNCHANGED <<store, rt>> /\ stage # "idle" /\ (stage' # "idle" => request' = request)
    BY <1>4 DEF Refreshed, RefreshFailed, IndexRevision, IndexListing, OpenFails, Reopened, ReopenFailed, Reply, vars
  <2> QED
    BY <2>1, Untouched DEF store
<1>5. CASE (\E q \in Queries : AnswerOrient(q)) \/ AnswerExpand
  <2>1. UNCHANGED <<store, rt>> /\ stage = "answer" /\ stage' = "idle"
    BY <1>5 DEF AnswerOrient, AnswerExpand, Reply, vars
  <2> QED
    BY <2>1, Untouched DEF store
<1> QED
  BY <1>1, <1>2, <1>3, <1>4, <1>5 DEF Serve

(* The pages are as they were. *)
LEMMA PagesUntouched ==
  ASSUME BackendInv, PagesInv, StoreGrows, pages' = pages,
         stage' # "idle" => stage # "idle" /\ request' = request
  PROVE  PagesInv'
<1>1. pages # None => pages \in [of : Snapshots, files : SUBSET Trees, sure : BOOLEAN]
  BY DEF PagesInv
<1>2. ASSUME pages # None, pages.sure
      PROVE  generation'[pages.of.rev] = generation[pages.of.rev]
  <2>1. pages.of.rev \in Revs /\ generation[pages.of.rev] # None
    BY <1>1, <1>2 DEF PagesInv, Snapshots
  <2> QED
    BY <2>1 DEF StoreGrows
<1> QED
  BY <1>1, <1>2 DEF PagesInv

(* The baseline is as it was, and so is the revision of the graph. *)
LEMMA BaselineUntouched ==
  ASSUME BackendInv, ScanInv, StoreGrows, baseline' = baseline, scan' = None \/ (scan' = scan /\ stage' = stage),
         ~strayed' => ~strayed /\ rt'.snapshot.rev = rt.snapshot.rev
                      /\ (stage' # "open" => stage # "open" /\ current' = current)
  PROVE  ScanInv'
<1>1. baseline # None => /\ baseline.rev \in Revs /\ baseline.tree \in Trees
                         /\ generation[baseline.rev] = baseline.tree
  BY DEF ScanInv
<1>2. baseline # None => generation'[baseline.rev] = baseline.tree
  BY <1>1 DEF StoreGrows
<1> QED
  BY <1>1, <1>2 DEF ScanInv

LEMMA BeginKeepsInv ==
  ASSUME IInv, Begin
  PROVE  IInv'
<1>1. PICK req : Request(req) /\ (req \in [tool : {"search_graph"}, expected : {TRUE}] => pages # None)
  <2>1. CASE RequestCapsule
    <3>1. PICK req : Request(req) /\ (\/ \E q \in Queries : req = [query |-> q]
                                      \/ \E h \in 0 .. cursor : req = [handle |-> h])
      BY <2>1 DEF RequestCapsule
    <3>2. req \notin [tool : {"search_graph"}, expected : {TRUE}]
      <4>1. \A r \in [tool : {"search_graph"}, expected : {TRUE}] : DOMAIN r = {"tool", "expected"}
        OBVIOUS
      <4>2. DOMAIN req = {"query"} \/ DOMAIN req = {"handle"}
        BY <3>1
      <4>3. "query" \notin {"tool", "expected"} /\ "handle" \notin {"tool", "expected"}
        OBVIOUS
      <4> QED
        BY <4>1, <4>2, <4>3
    <3> QED
      BY <3>1, <3>2
  <2>2. CASE pages # None /\ Request([tool |-> "search_graph", expected |-> TRUE])
    BY <2>2
  <2>3. ASSUME NEW t, Request([tool |-> t, expected |-> FALSE])
        PROVE  \E req : Request(req) /\ (req \in [tool : {"search_graph"}, expected : {TRUE}] => pages # None)
    <3>1. [tool |-> t, expected |-> FALSE] \notin [tool : {"search_graph"}, expected : {TRUE}]
      OBVIOUS
    <3> QED
      BY <2>3, <3>1
  <2> QED
    BY <2>1, <2>2, <2>3 DEF Begin
<1>2. /\ stage = "idle" /\ stage' = "refresh" /\ request' = req
      /\ UNCHANGED <<rt, store, pages, baseline, strayed>> /\ scan' = None
  BY <1>1 DEF Begin, Request
<1>3. BackendInv /\ BackendInv'
  BY <1>1, RequestKeepsInv DEF IInv, BackendInv
<1>4. StoreGrows
  BY <1>2, <1>3, Untouched
<1>5. PagesInv'
  BY <1>1, <1>2 DEF IInv, PagesInv, store
<1>6. ScanInv' /\ ScansAreOfHead'
  BY <1>2, <1>3, <1>4, BaselineUntouched DEF IInv, ScansAreOfHead, store
<1> QED
  BY <1>3, <1>5, <1>6 DEF IInv, BackendInv

LEMMA ServeBackendKeepsInv ==
  ASSUME IInv, ServeBackend
  PROVE  IInv'
<1>1. Serve /\ BackendInv /\ PagesInv /\ ScanInv
  BY DEF IInv, BackendInv, ServeBackend
<1>2. BackendInv'
  BY <1>1, ServeKeepsInv
<1>3. /\ pages' = pages /\ scan' = scan
      /\ baseline' = IF stage = "open" THEN None ELSE baseline
      /\ strayed' = (strayed \/ (stage = "open" /\ rt' = rt))
  BY DEF ServeBackend, Kept
<1>4. /\ StoreGrows
      /\ stage # "idle"
      /\ stage' # "idle" => request' = request
      /\ \/ stage # "open" /\ stage' = "open" /\ rt' = rt
         \/ stage = "open" /\ rt' = rt
         \/ stage = "open" /\ current' = current /\ rt'.snapshot.rev = current
         \/ stage # "open" /\ current' = current /\ rt'.snapshot.rev = rt.snapshot.rev
  BY <1>1, ServeSteps
<1>5. scan = None
  BY <1>1, <1>4 DEF ScanInv
<1>6. PagesInv'
  BY <1>1, <1>3, <1>4, PagesUntouched
<1>7. ScanInv'
  <2>1. CASE stage = "open"
    BY <1>3, <1>4, <1>5, <2>1 DEF ScanInv
  <2>2. CASE stage # "open"
    BY <1>1, <1>3, <1>4, <1>5, <2>2, BaselineUntouched
  <2> QED
    BY <2>1, <2>2
<1>8. ScansAreOfHead'
  BY <1>3, <1>5 DEF ScansAreOfHead
<1> QED
  BY <1>2, <1>6, <1>7, <1>8 DEF IInv, BackendInv

LEMMA AnswerReaderKeepsInv ==
  ASSUME IInv, NEW t, AnswerReader(t)
  PROVE  IInv'
<1>1. /\ stage = "answer" /\ Reply /\ stage' = "idle"
      /\ UNCHANGED <<vars, revision, listing, store, caches>>
      /\ UNCHANGED <<rt, store, pages, baseline, scan, strayed>>
  BY DEF AnswerReader, Called, Reply, vars
<1>2. BackendInv /\ PagesInv /\ ScanInv
  BY DEF IInv, BackendInv
<1>3. BackendInv'
  BY <1>1, <1>2, ReplyKeepsInv
<1>4. StoreGrows
  BY <1>1, <1>2, Untouched
<1>5. PagesInv'
  BY <1>1, <1>2, <1>4, PagesUntouched
<1>6. scan = None
  BY <1>1, <1>2 DEF ScanInv
<1>7. ScanInv'
  BY <1>1, <1>2, <1>4, <1>6, BaselineUntouched DEF store
<1>8. ScansAreOfHead'
  BY <1>1, <1>6 DEF ScansAreOfHead
<1> QED
  BY <1>3, <1>5, <1>7, <1>8 DEF IInv, BackendInv

(* A page is of the graph that its snapshot names, and a next page is of   *)
(* the same one: what differs from the generation tells of the files.      *)
LEMMA AnswerSearchKeepsInv ==
  ASSUME IInv, AnswerSearch
  PROVE  IInv'
<1>1. /\ stage = "answer" /\ Reply /\ stage' = "idle"
      /\ UNCHANGED <<vars, revision, listing, store, caches>>
      /\ UNCHANGED <<rt, failed, generation, store, baseline, scan, strayed>>
      /\ request \in [tool : {"search_graph"}, expected : BOOLEAN]
  BY DEF AnswerSearch, Called, Reply, vars, store
<1>2. BackendInv /\ PagesInv /\ ScanInv
  BY DEF IInv, BackendInv
<1>3. BackendInv'
  BY <1>1, <1>2, ReplyKeepsInv
<1>4. StoreGrows
  BY <1>1, <1>2, Untouched
<1>5. /\ rt.snapshot \in Snapshots /\ rt.hashes \in Trees /\ rt.base \in Trees /\ failed \in BOOLEAN
      /\ generation[rt.snapshot.rev] = rt.base
      /\ ~failed => rt.snapshot.diff = Diff(rt.base, rt.hashes)
  BY <1>1, <1>2 DEF BackendInv, Typed, RefreshTypeOK, Runtime, GraphInv, OneGraph, CallInv, At
<1>6. PagesInv'
  <2>1. CASE ~request.expected /\ pages' = [of |-> rt.snapshot, files |-> {rt.hashes}, sure |-> ~failed]
    <3>1. /\ pages'.of = rt.snapshot /\ pages'.files = {rt.hashes} /\ pages'.sure = ~failed
          /\ pages' \in [of : Snapshots, files : SUBSET Trees, sure : BOOLEAN]
      BY <1>5, <2>1
    <3> QED
      BY <1>1, <1>5, <3>1 DEF PagesInv
  <2>2. CASE /\ request.expected /\ pages.of = rt.snapshot
             /\ pages' = [pages EXCEPT !.files = @ \cup {rt.hashes}, !.sure = @ /\ ~failed]
    <3> DEFINE files == pages.files \cup {rt.hashes}
               sure == pages.sure /\ ~failed
               half == [pages EXCEPT !.files = files]
    <3>1. pages # None
      BY <1>1, <1>2, <2>2 DEF PagesInv
    <3>2. pages \in [of : Snapshots, files : SUBSET Trees, sure : BOOLEAN]
      BY <1>2, <3>1 DEF PagesInv
    <3>3. files \in SUBSET Trees /\ sure \in BOOLEAN
      BY <1>5, <3>2
    <3>4. pages' = [half EXCEPT !.sure = sure]
      BY <2>2
    <3>5. /\ sure => pages.sure /\ ~failed
          /\ files = pages.files \cup {rt.hashes}
      BY <3>2
    <3> HIDE DEF files, sure
    <3>6. half = [of |-> pages.of, files |-> files, sure |-> pages.sure]
      BY <3>2
    <3> HIDE DEF half
    <3>7. pages' = [of |-> pages.of, files |-> files, sure |-> sure]
      BY <3>4, <3>6
    <3>8. /\ pages' \in [of : Snapshots, files : SUBSET Trees, sure : BOOLEAN]
          /\ pages'.of = pages.of /\ pages'.files = files /\ pages'.sure = sure
      BY <3>2, <3>3, <3>7
    <3>9. ASSUME sure
          PROVE  files = {rt.hashes}
      <4>1. PICK g \in Trees : pages.files = {g} /\ pages.of.diff = Diff(generation[pages.of.rev], g)
        BY <1>2, <3>1, <3>5, <3>9 DEF PagesInv
      <4>2. Diff(rt.base, g) = Diff(rt.base, rt.hashes)
        BY <1>5, <2>2, <3>5, <3>9, <4>1
      <4>3. g = rt.hashes
        BY <1>5, <4>2, DiffDetermines
      <4> QED
        BY <3>5, <4>1, <4>3
    <3> QED
      BY <1>1, <1>5, <2>2, <3>5, <3>8, <3>9 DEF PagesInv
  <2>3. CASE pages' = None
    BY <1>1, <2>3 DEF PagesInv
  <2> QED
    BY <2>1, <2>2, <2>3 DEF AnswerSearch, SameSearch
<1>7. scan = None
  BY <1>1, <1>2 DEF ScanInv
<1>8. ScanInv'
  BY <1>1, <1>2, <1>4, <1>7, BaselineUntouched DEF store
<1>9. ScansAreOfHead'
  BY <1>1, <1>7 DEF ScansAreOfHead
<1> QED
  BY <1>3, <1>6, <1>8, <1>9 DEF IInv, BackendInv

(* The baseline of the revision of the graph is its generation. *)
LEMMA AnswerScanKeepsInv ==
  ASSUME IInv, AnswerScan
  PROVE  IInv'
<1> DEFINE base == IF baseline # None THEN baseline ELSE [rev |-> current, tree |-> generation[current]]
<1>1. /\ stage = "answer" /\ Reply /\ stage' = "idle"
      /\ UNCHANGED <<vars, revision, listing, store, caches>>
      /\ UNCHANGED <<rt, generation, current, store, pages, strayed>>
      /\ baseline' = base
  BY DEF AnswerScan, Called, Reply, vars, store
<1>2. scan' = IF base.rev # rt.snapshot.rev THEN [outcome |-> "stale", tree |-> None]
              ELSE IF head # rt.snapshot.rev THEN [outcome |-> "moved", tree |-> None]
              ELSE [outcome |-> "compared", tree |-> base.tree]
  BY DEF AnswerScan
<1>3. BackendInv /\ PagesInv /\ ScanInv
  BY DEF IInv, BackendInv
<1>4. BackendInv'
  BY <1>1, <1>3, ReplyKeepsInv
<1>5. StoreGrows
  BY <1>1, <1>3, Untouched
<1>6. PagesInv'
  BY <1>1, <1>3, <1>5, PagesUntouched
<1>7. /\ base.rev \in Revs /\ base.tree \in Trees /\ generation[base.rev] = base.tree
      /\ ~strayed => base.rev = rt.snapshot.rev /\ current = rt.snapshot.rev
  BY <1>1, <1>3 DEF ScanInv, BackendInv, Typed
<1> HIDE DEF base
<1>8. ScanInv'
  BY <1>1, <1>7 DEF ScanInv
<1>9. ScansAreOfHead'
  <2>1. generation[rt.snapshot.rev] = rt.base
    BY <1>3 DEF BackendInv, GraphInv
  <2>2. /\ scan'.outcome = "compared" => scan'.tree = base.tree /\ base.rev = rt.snapshot.rev
        /\ scan'.outcome = "stale" => base.rev # rt.snapshot.rev
    BY <1>2
  <2> QED
    BY <1>1, <1>7, <2>1, <2>2 DEF ScansAreOfHead
<1> QED
  BY <1>4, <1>6, <1>8, <1>9 DEF IInv, BackendInv

(* The files, HEAD and CURRENT change beside the server. *)
LEMMA OthersKeepInv ==
  ASSUME IInv, (Elsewhere /\ UNCHANGED serverVars) \/ OtherProcess
  PROVE  IInv'
<1>1. BackendInv /\ PagesInv /\ ScanInv /\ ScansAreOfHead
  BY DEF IInv, BackendInv
<1>2. CASE Elsewhere /\ UNCHANGED serverVars
  <2>1. UNCHANGED <<rt, stage, request, store, current, pages, baseline, scan, strayed>>
    BY <1>2 DEF Elsewhere, Environment, Edit, Commit, Checkout, Write, serverVars, store
  <2>2. BackendInv' /\ StoreGrows
    BY <1>1, <1>2, <2>1, ElsewhereKeepsInv, Untouched
  <2>3. PagesInv' /\ ScanInv'
    BY <1>1, <2>1, <2>2, PagesUntouched, BaselineUntouched
  <2>4. ScansAreOfHead'
    BY <1>1, <2>1 DEF ScansAreOfHead
  <2> QED
    BY <2>2, <2>3, <2>4 DEF IInv, BackendInv
<1>3. CASE OtherProcess
  <2>1. UNCHANGED <<rt, stage, request, pages, baseline, scan>> /\ strayed'
    BY <1>3 DEF OtherProcess, vars
  <2>2. BackendInv' /\ StoreGrows
    BY <1>1, <1>3, OtherProcessKeepsInv, OtherProcessGrows
  <2>3. PagesInv' /\ ScanInv'
    BY <1>1, <2>1, <2>2, PagesUntouched, BaselineUntouched
  <2>4. ScansAreOfHead'
    BY <1>1, <2>1 DEF ScansAreOfHead
  <2> QED
    BY <2>2, <2>3, <2>4 DEF IInv, BackendInv
<1> QED
  BY <1>2, <1>3

-----------------------------------------------------------------------------
(* Invariance *)

LEMMA InitIsInv ==
  ASSUME ServerInit
  PROVE  IInv
<1> USE DEF ServerInit, Init, RefreshInit
<1>1. /\ head \in Revs /\ work \in Trees /\ work = Committed[head]
      /\ Opened(head, work).snapshot = [rev |-> head, diff |-> {}]
      /\ rt.base = work /\ rt.hashes = work /\ rt.arcs = work
      /\ rt.snapshot = [rev |-> head, diff |-> {}] /\ rt.fingerprints = [p \in Paths |-> None]
  BY DEF Opened
<1>2. rt \in Runtime
  BY <1>1 DEF Opened, Runtime, Snapshots
<1>3. /\ call \in Calls /\ call.at = "rest" /\ call.result = "none" /\ call.todo = {}
      /\ ~call.normalize /\ call.stamp = None
  BY BegunAndEnded DEF Ended
<1>4. generation \in [Revs -> Trees \cup {None}] /\ generation[head] = work
  BY <1>1
<1>5. RefreshTypeOK
  <2>1. stamp \in [Paths -> 0 .. MaxEdits] /\ edits \in 0 .. MaxEdits
    OBVIOUS
  <2>2. seen \in [Paths -> SUBSET (Texts \cup {None})] /\ failed \in BOOLEAN
    OBVIOUS
  <2> QED
    BY <1>1, <1>2, <1>3, <2>1, <2>2 DEF RefreshTypeOK
<1>6. Typed
  BY <1>1, <1>3, <1>4, <1>5 DEF Typed, Stages, At
<1>7. CallInv /\ SeenInv
  BY <1>3 DEF CallInv, SeenInv, At
<1>8. StampInv
  BY <1>1, <1>3 DEF StampInv
<1>9. GraphInv
  BY <1>1, <1>4 DEF GraphInv, OneGraph, Diff
<1>10. CacheInv /\ ListInv
  BY DEF CacheInv, ListInv, OnceEach
<1>11. PagesInv /\ ScanInv /\ ScansAreOfHead
  BY <1>1 DEF PagesInv, ScanInv, ScansAreOfHead
<1> QED
  BY <1>6, <1>7, <1>8, <1>9, <1>10, <1>11 DEF IInv

LEMMA StutterKeepsInv ==
  ASSUME IInv, UNCHANGED server
  PROVE  IInv'
<1>1. UNCHANGED <<vars, stage, request, revision, listing, store, caches>> /\ UNCHANGED serverVars
  BY DEF server, allVars
<1>2. BackendInv /\ PagesInv /\ ScanInv /\ ScansAreOfHead
  BY DEF IInv, BackendInv
<1>3. StoreGrows
  BY <1>1, <1>2, Untouched
<1>4. Typed'
  BY <1>1, <1>2 DEF BackendInv, Typed, RefreshTypeOK, vars, tree, store, caches, Stages, At
<1>5. CacheInv'
  BY <1>1, <1>2 DEF BackendInv, CacheInv, vars, caches
<1>6. BackendInv'
  BY <1>1, <1>2, <1>3, <1>4, <1>5, CachesUntouched, RestKeepsInv
<1>7. UNCHANGED <<rt, stage, request, current, pages, baseline, scan, strayed>>
  BY <1>1 DEF vars, store, serverVars
<1>8. PagesInv' /\ ScanInv'
  BY <1>2, <1>3, <1>7, PagesUntouched, BaselineUntouched
<1>9. ScansAreOfHead'
  BY <1>2, <1>7 DEF ScansAreOfHead
<1> QED
  BY <1>6, <1>8, <1>9 DEF IInv, BackendInv

LEMMA Invariance == ServerSpec => []IInv
<1>1. ServerInit => IInv
  BY InitIsInv
<1>2. IInv /\ [ServerNext]_server => IInv'
  BY BeginKeepsInv, ServeBackendKeepsInv, AnswerSearchKeepsInv, AnswerScanKeepsInv,
     AnswerReaderKeepsInv, OthersKeepInv, StutterKeepsInv DEF ServerNext
<1> QED
  BY <1>1, <1>2, PTL DEF ServerSpec

(* Whatever is edited, committed and checked out while refresh looks at    *)
(* the files one by one, a call that is answered is answered from files as *)
(* they were at some moment of its own refresh (where each generation is of*)
(* the revision it is named after), and from the graph that its snapshot   *)
(* names (Runtime::refresh, McpBackend::refresh).                          *)
THEOREM AnswersStayFresh == ServerSpec => []AnswersAreFresh
<1>1. IInv => AnswersAreFresh
  <2> SUFFICES ASSUME IInv
               PROVE  AnswersAreFresh
    OBVIOUS
  <2>1. stage = "answer" => At("rest") /\ call.result \in {"same", "changed"}
    BY DEF IInv, Typed
  <2>2. SnapshotNamesGraph
    BY <2>1 DEF IInv, CallInv, GraphInv, SnapshotNamesGraph, At
  <2>3. GenerationsHoldTheirRevision => AnswersAreOfTheFiles
    BY <2>1 DEF IInv, CallInv, SeenInv, AnswersAreOfTheFiles, At
  <2> QED
    BY <2>2, <2>3 DEF AnswersAreFresh
<1> QED
  BY <1>1, Invariance, PTL

(* What is kept of earlier calls is of the graph that answers, in any      *)
(* order of edits, commits, re-indexes and failures; the two structures of *)
(* the preparation cache agree and stay within its limit (orient_from_graph*)
(* and the eviction of its least recently used preparation).               *)
THEOREM CachesStayOfTheGraph == ServerSpec => []CachesAreOfTheGraph
<1>1. IInv => CachesAreOfTheGraph
  <2> SUFFICES ASSUME IInv
               PROVE  CachesAreOfTheGraph
    OBVIOUS
  <2>1. BackendInv
    BY DEF IInv, BackendInv
  <2>2. CacheIsBounded
    BY <2>1, ListCounts DEF BackendInv, ListInv, CacheIsBounded
  <2>3. stage = "answer" /\ ~failed => /\ \A q \in Queries : prepared[q] \in {None, rt.snapshot}
                                       /\ \A e \in expansions : e.snapshot = rt.snapshot
    BY <2>1 DEF BackendInv, CacheInv
  <2> QED
    BY <2>2, <2>3 DEF CachesAreOfTheGraph
<1> QED
  BY <1>1, Invariance, PTL

(* The pages that a client collects under the snapshot of the first are of *)
(* one graph: a snapshot tells of every file, and a page under another is  *)
(* refused (search_graph and its expected snapshot).                       *)
THEOREM PagesStayOfOneGraph == ServerSpec => []PagesAreOfOneGraph
<1>1. IInv => PagesAreOfOneGraph
  BY FS_Singleton DEF IInv, PagesInv, PagesAreOfOneGraph
<1> QED
  BY <1>1, Invariance, PTL

(* A risk scan compares the graph with the commit it was built on, and is  *)
(* refused for its baseline only if CURRENT was moved to a revision that   *)
(* this runtime did not open (scan_risks and its cached baseline).         *)
THEOREM ScansStayOfHead == ServerSpec => []ScansAreOfHead
<1>1. IInv => ScansAreOfHead
  BY DEF IInv
<1> QED
  BY <1>1, Invariance, PTL

-----------------------------------------------------------------------------
(* Visible answers: picking places *)

(* Later places have a higher rank, and all ranks are below their number.  *)
LEMMA RankRises ==
  ASSUME NEW places \in SUBSET Nat, IsFiniteSet(places)
  PROVE  /\ \A k \in places : Rank(places, k) \in 0 .. Cardinality(places) - 1
         /\ \A j, k \in places : j < k => Rank(places, j) < Rank(places, k)
<1> DEFINE Below(k) == {j \in places : j < k}
<1>1. \A k : IsFiniteSet(Below(k)) /\ Cardinality(Below(k)) \in Nat
  BY FS_Subset, FS_CardinalityType
<1>2. ASSUME NEW k \in places
      PROVE  Rank(places, k) \in 0 .. Cardinality(places) - 1
  <2>1. Below(k) \subseteq places /\ Below(k) # places
    OBVIOUS
  <2>2. Cardinality(Below(k)) < Cardinality(places)
    BY <1>1, <2>1, FS_Subset, FS_CardinalityType
  <2>3. Rank(places, k) = Cardinality(Below(k))
    BY DEF Rank
  <2>4. Cardinality(places) \in Nat
    BY FS_CardinalityType
  <2> QED
    BY <1>1, <2>2, <2>3, <2>4
<1>3. ASSUME NEW j \in places, NEW k \in places, j < k
      PROVE  Rank(places, j) < Rank(places, k)
  <2>1. \A i \in places : i < j => i < k
    BY <1>3
  <2>2. j \in Below(k) /\ j \notin Below(j)
    BY <1>3
  <2>3. Below(j) \in SUBSET Below(k) /\ Below(j) # Below(k)
    BY <2>1, <2>2
  <2> DEFINE few == Below(j)
             many == Below(k)
  <2>4. IsFiniteSet(many) /\ Cardinality(few) \in Nat /\ Cardinality(many) \in Nat
    BY <1>1
  <2> HIDE DEF few, many
  <2>5. Cardinality(few) < Cardinality(many)
    <3>1. few \in SUBSET many /\ few # many
      BY <2>3 DEF few, many
    <3> QED
      BY <2>4, <3>1, FS_Subset
  <2>6. Cardinality(few) = Rank(places, j) /\ Cardinality(many) = Rank(places, k)
    BY DEF few, many, Rank
  <2> QED
    BY <2>5, <2>6
<1> QED
  BY <1>2, <1>3

(* So each rank is that of one place.                                      *)
LEMMA NthIsThere ==
  ASSUME NEW places \in SUBSET Nat, IsFiniteSet(places), NEW n \in 1 .. Cardinality(places)
  PROVE  /\ Nth(places, n) \in places
         /\ Rank(places, Nth(places, n)) = n - 1
<1> DEFINE f == [k \in places |-> Rank(places, k) + 1]
<1>0. Cardinality(places) \in Nat
  BY FS_CardinalityType
<1>1. f \in [places -> 1 .. Cardinality(places)]
  BY <1>0, RankRises
<1>2. \A j, k \in places : f[j] = f[k] => j = k
  <2> TAKE j, k \in places
  <2> HAVE f[j] = f[k]
  <2>1. Rank(places, j) = Rank(places, k)
    BY <1>0, RankRises
  <2> QED
    BY <1>0, <2>1, RankRises
<1>3. f \in Injection(places, 1 .. Cardinality(places))
  BY <1>1, <1>2 DEF Injection, IsInjective
<1>4. IsFiniteSet(1 .. Cardinality(places)) /\ Cardinality(1 .. Cardinality(places)) = Cardinality(places)
  BY <1>0, FS_Interval
<1>5. f \in Surjection(places, 1 .. Cardinality(places))
  BY <1>3, <1>4, FS_Injection
<1>6. PICK k \in places : f[k] = n
  BY <1>5 DEF Surjection
<1>7. Rank(places, k) = n - 1
  BY <1>0, <1>6, RankRises
<1> QED
  BY <1>7 DEF Nth

(* A place of the rank is the nth one.                                     *)
LEMMA NthOfRank ==
  ASSUME NEW places \in SUBSET Nat, IsFiniteSet(places), NEW k \in places, NEW n,
         n - 1 = Rank(places, k), n \in Nat
  PROVE  n \in 1 .. Cardinality(places) /\ Nth(places, n) = k
<1>1. Cardinality(places) \in Nat /\ Rank(places, k) \in 0 .. Cardinality(places) - 1
  BY FS_CardinalityType, RankRises
<1>2. n \in 1 .. Cardinality(places)
  BY <1>1
<1>3. Nth(places, n) \in places /\ Rank(places, Nth(places, n)) = Rank(places, k)
  BY <1>2, NthIsThere
<1> DEFINE x == Nth(places, n)
<1> HIDE DEF x
<1>4. x \in places /\ Rank(places, x) = Rank(places, k)
  BY <1>3 DEF x
<1>5. ~(x < k) /\ ~(k < x)
  BY <1>1, <1>4, RankRises
<1>6. x = k
  BY <1>4, <1>5
<1> QED
  BY <1>2, <1>6 DEF x

(* The number of a path is the place where it stands among the paths.      *)
LEMMA NumbersReadBack ==
  ASSUME NEW used, NEW len \in Nat, DOMAIN used = 1 .. len, NEW k \in 1 .. len
  PROVE  PathIds(used).paths[PathIds(used).ids[k] + 1] = used[k]
<1> DEFINE firsts == {i \in DOMAIN used : \A j \in 1 .. i - 1 : used[j] # used[i]}
           first == CHOOSE j \in firsts : used[j] = used[k]
           same == {j \in 1 .. len : used[j] = used[k]}
<1>1. IsFiniteSet(firsts) /\ firsts \in SUBSET Nat /\ IsFiniteSet(same) /\ same \in SUBSET Nat
  <2>1. IsFiniteSet(1 .. len) /\ 1 .. len \subseteq Nat
    BY FS_Interval
  <2>2. firsts \subseteq 1 .. len /\ same \subseteq 1 .. len
    OBVIOUS
  <2> HIDE DEF firsts, same
  <2> QED
    BY ONLY <2>1, <2>2, FS_Subset
<1>2. 1 \in 1 .. Cardinality(same)
  <2>1. same # {}
    OBVIOUS
  <2> HIDE DEF same
  <2>2. Cardinality(same) # 0 /\ Cardinality(same) \in Nat
    BY <1>1, <2>1, FS_EmptySet, FS_CardinalityType
  <2> QED
    BY <2>2
<1>3. Nth(same, 1) \in same /\ Rank(same, Nth(same, 1)) = 0
  BY <1>1, <1>2, NthIsThere
<1>4. \A j \in same : ~(j < Nth(same, 1))
  <2> TAKE j \in same
  <2>1. Rank(same, j) \in Nat
    BY <1>1, RankRises, FS_CardinalityType
  <2> DEFINE x == Nth(same, 1)
  <2> HIDE DEF x, same
  <2>2. x \in same /\ Rank(same, x) = 0
    BY <1>3 DEF x
  <2>3. j < x => Rank(same, j) < Rank(same, x)
    BY ONLY <1>1, <2>2, RankRises
  <2> QED
    BY <2>1, <2>2, <2>3 DEF x
<1>5. Nth(same, 1) \in firsts
  <2> DEFINE x == Nth(same, 1)
  <2> HIDE DEF x
  <2>1. x \in 1 .. len /\ used[x] = used[k] /\ \A j \in same : ~(j < x)
    BY <1>3, <1>4 DEF x
  <2>2. ASSUME NEW j \in 1 .. x - 1
        PROVE  used[j] # used[x]
    <3>1. j \in 1 .. len /\ j < x
      BY <2>1
    <3> QED
      BY <2>1, <3>1
  <2> QED
    BY <2>1, <2>2 DEF x
<1>6. first \in firsts /\ used[first] = used[k]
  BY <1>3, <1>5
<1>7. Rank(firsts, first) \in 0 .. Cardinality(firsts) - 1 /\ Cardinality(firsts) \in Nat
  BY <1>1, <1>6, RankRises, FS_CardinalityType
<1>8. /\ Rank(firsts, first) + 1 \in 1 .. Cardinality(firsts)
      /\ Nth(firsts, Rank(firsts, first) + 1) = first
  <2> DEFINE n == Rank(firsts, first) + 1
  <2>1. n \in Nat /\ n - 1 = Rank(firsts, first)
    BY <1>7
  <2> HIDE DEF n
  <2>2. n \in 1 .. Cardinality(firsts) /\ Nth(firsts, n) = first
    BY <1>1, <1>6, <2>1, NthOfRank
  <2> QED
    BY <2>2 DEF n
<1>9. PathIds(used).ids[k] = Rank(firsts, first)
  BY DEF PathIds
<1>10. PathIds(used).paths = Picked(used, firsts)
  BY DEF PathIds
<1>11. Picked(used, firsts)[Rank(firsts, first) + 1] = used[first]
  BY <1>8 DEF Picked
<1> QED
  BY <1>6, <1>9, <1>10, <1>11

(* What is picked of the first ones comes first in what is picked of all.  *)
LEMMA PickedOfFirst ==
  ASSUME NEW places \in SUBSET Nat, IsFiniteSet(places), NEW m \in Nat,
         NEW n \in 1 .. Cardinality({k \in places : k <= m})
  PROVE  /\ Nth({k \in places : k <= m}, n) = Nth(places, n)
         /\ Nth(places, n) \in {k \in places : k <= m}
         /\ n \in 1 .. Cardinality(places)
<1> DEFINE early == {k \in places : k <= m}
           x == Nth(early, n)
<1>1. IsFiniteSet(early) /\ early \in SUBSET Nat
  BY FS_Subset
<1>2. x \in early /\ Rank(early, x) = n - 1
  BY <1>1, NthIsThere
<1>3. {j \in early : j < x} = {j \in places : j < x}
  <2>1. x \in Nat /\ x <= m
    BY <1>2
  <2>2. \A j \in places : j < x => j <= m
    BY <2>1
  <2> HIDE DEF x
  <2> QED
    BY <2>2
<1>4. Rank(places, x) = n - 1
  BY <1>2, <1>3 DEF Rank
<1>5. n \in Nat
  BY <1>1, FS_CardinalityType
<1>6. n \in 1 .. Cardinality(places) /\ Nth(places, n) = x
  BY <1>2, <1>4, <1>5, NthOfRank
<1> QED
  BY <1>2, <1>6

-----------------------------------------------------------------------------
(* Visible answers: rows *)

USE ListsAssumption

IsList(s) == Len(s) \in Nat /\ s = [k \in 1 .. Len(s) |-> s[k]]

(* Columns that stand for themselves, and those with numbered paths too.   *)
Plain(cols) == IsList(cols) /\ \A k \in 1 .. Len(cols) : cols[k] \notin {"path_id", "other_id"}
Numbered(cols) == IsList(cols) /\ \A k \in 1 .. Len(cols) : cols[k] # "other_id"

LEMMA ListIsSequence ==
  ASSUME NEW s, IsList(s)
  PROVE  /\ Len(s) \in Nat /\ DOMAIN s = 1 .. Len(s)
         /\ \E S : s \in Seq(S)
<1> DEFINE S == {s[k] : k \in 1 .. Len(s)}
<1>1. s \in [1 .. Len(s) -> S]
  BY DEF IsList
<1>2. s \in Seq(S)
  <2>1. Len(s) \in Nat
    BY DEF IsList
  <2> HIDE DEF S
  <2>2. \E n \in Nat : s \in [1 .. n -> S]
    BY <1>1, <2>1
  <2>3. Seq(S) = UNION {[1 .. n -> S] : n \in Nat}
    OBVIOUS
  <2> QED
    BY <2>2, <2>3, Zenon
<1> QED
  BY <1>1, <1>2 DEF IsList

LEMMA SequenceIsList ==
  ASSUME NEW S, NEW s \in Seq(S)
  PROVE  IsList(s)
  BY DEF IsList

LEMMA FirstOfList ==
  ASSUME NEW s, IsList(s), NEW m \in Nat
  PROVE  /\ IsList(Take(m, s))
         /\ Len(Take(m, s)) = Least(m, Len(s))
         /\ \A n \in 1 .. Len(Take(m, s)) : n \in 1 .. Len(s) /\ Take(m, s)[n] = s[n]
<1> DEFINE len == Least(m, Len(s))
<1>1. len \in Nat /\ len <= Len(s) /\ 1 .. len \subseteq 1 .. Len(s)
  BY DEF Least, IsList
<1> HIDE DEF len
<1>2. PICK S : s \in Seq(S)
  BY ListIsSequence
<1>3. \A n \in 1 .. len : s[n] \in S
  BY <1>1, <1>2
<1>4. /\ SubSeq(s, 1, len) \in Seq(S)
      /\ Len(SubSeq(s, 1, len)) = len
      /\ \A n \in 1 .. len : SubSeq(s, 1, len)[n] = s[n]
  BY <1>1, <1>3, SubSeqProperties
<1> QED
  BY <1>1, <1>4, SequenceIsList DEF Take, len

LEMMA RowsAreListed ==
  ASSUME NEW items, IsList(items), NEW fields
  PROVE  /\ IsList(Rows(items, fields)) /\ Len(Rows(items, fields)) = Len(items)
         /\ IsList(NumberedRows(items, fields)) /\ Len(NumberedRows(items, fields)) = Len(items)
  BY DEF Rows, NumberedRows, IsList

(* A row reads as its item.                                                *)
LEMMA RowsRead ==
  ASSUME NEW v, NEW l, NEW of, NEW items,
         LET shown == IF l = "issues" THEN Recommended(of.lists[l]) ELSE of.lists[l]
         IN  \A n \in 1 .. Len(items) : items[n] = shown[n],
         IsList(items), Plain(v.lists[l].cols),
         v.lists[l].rows = Rows(items, v.lists[l].cols)
  PROVE  Readable(v, l, of)
<1> DEFINE t == v.lists[l]
           shown == IF l = "issues" THEN Recommended(of.lists[l]) ELSE of.lists[l]
<1>1. ASSUME NEW n \in DOMAIN t.rows
      PROVE  /\ Len(t.rows[n]) = Len(t.cols)
             /\ \A k \in DOMAIN t.cols : Meant(v, t.rows[n][k], t.cols[k]) = Fact(shown[n], t.cols[k])
  <2>1. n \in 1 .. Len(items) /\ items[n] = shown[n]
    BY DEF Rows, IsList
  <2>2. t.rows[n] = [k \in 1 .. Len(t.cols) |-> Cell(items[n], t.cols[k])]
    BY <2>1 DEF Rows, IsList, Plain
  <2>3. Len(t.rows[n]) = Len(t.cols)
    BY <2>2 DEF Plain, IsList
  <2>4. ASSUME NEW k \in DOMAIN t.cols
        PROVE  Meant(v, t.rows[n][k], t.cols[k]) = Fact(shown[n], t.cols[k])
    <3>1. k \in 1 .. Len(t.cols) /\ t.cols[k] \notin {"path_id", "other_id"}
      BY DEF Plain, IsList
    <3>2. t.rows[n][k] = Cell(shown[n], t.cols[k])
      BY <2>1, <2>2, <3>1
    <3> QED
      BY <3>1, <3>2 DEF Meant, Fact
  <2> QED
    BY <2>3, <2>4
<1> QED
  BY <1>1 DEF Readable

LEMMA NumberedRowsRead ==
  ASSUME NEW v, NEW l, NEW of, l # "issues", IsList(of.lists[l]), Numbered(v.lists[l].cols),
         v.lists[l].rows = NumberedRows(of.lists[l], v.lists[l].cols),
         v.paths = PathIds(PathsOf(of.lists[l])).paths
  PROVE  Readable(v, l, of)
<1> DEFINE t == v.lists[l]
           items == of.lists[l]
           used == PathsOf(items)
<1>1. DOMAIN used = 1 .. Len(items) /\ \A n \in 1 .. Len(items) : used[n] = items[n].path
  BY DEF PathsOf, IsList
<1>2. ASSUME NEW n \in DOMAIN t.rows
      PROVE  /\ Len(t.rows[n]) = Len(t.cols)
             /\ \A k \in DOMAIN t.cols : Meant(v, t.rows[n][k], t.cols[k]) = Fact(items[n], t.cols[k])
  <2>1. n \in 1 .. Len(items)
    BY DEF NumberedRows, IsList
  <2>2. t.rows[n] = [k \in 1 .. Len(t.cols) |->
                       IF t.cols[k] = "path_id" THEN PathIds(used).ids[n] ELSE Cell(items[n], t.cols[k])]
    BY <2>1 DEF NumberedRows, IsList, Numbered
  <2>3. Len(t.rows[n]) = Len(t.cols)
    BY <2>2 DEF Numbered, IsList
  <2>4. ASSUME NEW k \in DOMAIN t.cols
        PROVE  Meant(v, t.rows[n][k], t.cols[k]) = Fact(items[n], t.cols[k])
    <3>1. k \in 1 .. Len(t.cols) /\ t.cols[k] # "other_id"
      BY DEF Numbered, IsList
    <3>2. CASE t.cols[k] = "path_id"
      <4>1. t.rows[n][k] = PathIds(used).ids[n]
        BY <2>2, <3>1, <3>2
      <4>2. PathIds(used).paths[PathIds(used).ids[n] + 1] = used[n]
        BY <1>1, <2>1, NumbersReadBack DEF IsList
      <4> QED
        BY <1>1, <2>1, <3>2, <4>1, <4>2 DEF Meant, Fact
    <3>3. CASE t.cols[k] # "path_id"
      <4>1. t.rows[n][k] = Cell(items[n], t.cols[k])
        BY <2>2, <3>1, <3>3
      <4> QED
        BY <3>1, <3>3, <4>1 DEF Meant, Fact
    <3> QED
      BY <3>2, <3>3
  <2> QED
    BY <2>3, <2>4
<1> QED
  BY <1>2 DEF Readable

(* Columns are put together from such columns.                             *)
LEMMA Joined ==
  ASSUME NEW s, NEW t, IsList(s), IsList(t)
  PROVE  /\ Len(s \o t) = Len(s) + Len(t) /\ IsList(s \o t)
         /\ \A k \in 1 .. Len(s) : (s \o t)[k] = s[k]
         /\ \A k \in 1 .. Len(t) : (s \o t)[Len(s) + k] = t[k]
         /\ \A k \in 1 .. Len(s \o t) : \/ k \in 1 .. Len(s) /\ (s \o t)[k] = s[k]
                                        \/ k - Len(s) \in 1 .. Len(t) /\ (s \o t)[k] = t[k - Len(s)]
<1>1. PICK S : s \in Seq(S)
  BY ListIsSequence
<1>2. PICK T : t \in Seq(T)
  BY ListIsSequence
<1>3. s \in Seq(S \cup T) /\ t \in Seq(S \cup T)
  BY <1>1, <1>2
<1>4. /\ s \o t \in Seq(S \cup T)
      /\ Len(s \o t) = Len(s) + Len(t)
      /\ \A i \in 1 .. Len(s) + Len(t) : (s \o t)[i] = IF i <= Len(s) THEN s[i] ELSE t[i - Len(s)]
  BY <1>3, ConcatProperties
<1>5. Len(s) \in Nat /\ Len(t) \in Nat
  BY DEF IsList
<1>6. IsList(s \o t)
  BY <1>4, SequenceIsList
<1>7. ASSUME NEW k \in 1 .. Len(s)
      PROVE  (s \o t)[k] = s[k]
  <2>1. k \in 1 .. Len(s) + Len(t) /\ k <= Len(s)
    BY <1>5
  <2> QED
    BY <1>4, <2>1
<1>8. ASSUME NEW k \in 1 .. Len(t)
      PROVE  (s \o t)[Len(s) + k] = t[k]
  <2>1. Len(s) + k \in 1 .. Len(s) + Len(t) /\ ~(Len(s) + k <= Len(s)) /\ (Len(s) + k) - Len(s) = k
    BY <1>5
  <2> QED
    BY <1>4, <2>1
<1>9. ASSUME NEW k \in 1 .. Len(s \o t)
      PROVE  \/ k \in 1 .. Len(s) /\ (s \o t)[k] = s[k]
             \/ k - Len(s) \in 1 .. Len(t) /\ (s \o t)[k] = t[k - Len(s)]
  <2>1. k \in 1 .. Len(s) + Len(t)
    BY <1>4
  <2>2. (s \o t)[k] = IF k <= Len(s) THEN s[k] ELSE t[k - Len(s)]
    BY <1>4, <2>1
  <2> QED
    BY <1>5, <2>1, <2>2
<1> QED
  BY <1>4, <1>6, <1>7, <1>8, <1>9

LEMMA ColumnsJoined ==
  ASSUME NEW s, NEW t
  PROVE  /\ Plain(s) /\ Plain(t) => Plain(s \o t)
         /\ Numbered(s) /\ Numbered(t) => Numbered(s \o t)
         /\ Plain(s) => Numbered(s)
         /\ \A b \in BOOLEAN : Plain(s) => Plain(If(b, s))
<1>1. Plain(s) /\ Plain(t) => Plain(s \o t)
  BY Joined DEF Plain
<1>2. Numbered(s) /\ Numbered(t) => Numbered(s \o t)
  BY Joined DEF Numbered
<1>3. Plain(s) => Numbered(s)
  BY DEF Plain, Numbered
<1>4. Plain(<<>>)
  BY DEF Plain, IsList
<1> QED
  BY <1>1, <1>2, <1>3, <1>4 DEF If

-----------------------------------------------------------------------------
(* Visible answers: structured answers *)

(* What the shapes need to know of a structured answer.                    *)
Facts(tool, a) ==
  /\ a.gaps \in Nat /\ (tool \in Gapless => a.gaps = 0)
  /\ \A l \in ListsOf[tool] :
       /\ IsList(a.lists[l])
       /\ l \in Uncounted => a.total[l] = Null
       /\ l \notin Uncounted => a.total[l] \in Nat /\ Len(a.lists[l]) <= a.total[l]
       /\ l \in Unflagged => ~a.more[l]
       /\ l = "results" => Len(a.lists[l]) <= Most.results
       /\ tool = "explain_symbol" => a.total[l] = Len(a.lists[l]) /\ ~a.more[l]

LEMMA AnswersHaveFacts ==
  ASSUME NEW tool \in DOMAIN ListsOf, NEW x \in Answers(tool)
  PROVE  Facts(tool, x.of) /\ DOMAIN x.of.lists = ListsOf[tool]
<1>1. PICK found \in Found, limit \in 1 .. MostFound, evidence \in BOOLEAN, gaps \in 0 .. 1 :
        x = [tool |-> tool, of |-> Structured(tool, Item(found), limit, evidence, gaps)]
  BY DEF Answers
<1> DEFINE items == Item(found)
           Limit(l) == IF l \in Unlimited THEN Len(items)
                       ELSE IF l = "results" THEN Least(limit, Most.results) ELSE limit
           lists == [l \in ListsOf[tool] |-> Take(Limit(l), items)]
           explains == tool = "explain_symbol"
           told == IF tool \in Gapless \/ (evidence /\ tool \in {"trace_path", "find_usages"}) THEN 0 ELSE gaps
           a == x.of
<1>2. IsList(items)
  <2>1. PICK n \in 0 .. MostFound : DOMAIN found = 1 .. n
    BY DEF Found
  <2>2. DOMAIN items = 1 .. n /\ items = [k \in 1 .. n |-> items[k]]
    BY <2>1 DEF Item
  <2> HIDE DEF items
  <2>3. Len(items) = n /\ n \in Nat
    BY <2>1, <2>2
  <2> QED
    BY <2>2, <2>3 DEF IsList
<1>3. /\ a.lists = lists /\ a.gaps = told
      /\ a.total = [l \in DOMAIN lists |-> IF explains THEN Len(lists[l])
                                           ELSE IF l \in Uncounted THEN Null ELSE Len(items)]
      /\ a.more = [l \in DOMAIN lists |-> ~explains /\ l \notin Unflagged /\ Len(items) > Limit(l)]
  BY <1>1 DEF Structured
<1> HIDE DEF items, a
<1>4. a.gaps \in Nat /\ (tool \in Gapless => a.gaps = 0)
  BY <1>3
<1>5. ASSUME NEW l \in ListsOf[tool]
      PROVE  /\ IsList(a.lists[l])
             /\ l \in Uncounted => a.total[l] = Null
             /\ l \notin Uncounted => a.total[l] \in Nat /\ Len(a.lists[l]) <= a.total[l]
             /\ l \in Unflagged => ~a.more[l]
             /\ l = "results" => Len(a.lists[l]) <= Most.results
             /\ tool = "explain_symbol" => a.total[l] = Len(a.lists[l]) /\ ~a.more[l]
  <2>1. Len(items) \in Nat /\ limit \in Nat
    BY <1>2 DEF IsList
  <2>2. Limit(l) \in Nat /\ (l = "results" => Limit(l) <= Most.results)
    <3>1. Most.results \in Nat /\ (l = "results" => l \notin Unlimited)
      BY DEF Unlimited
    <3> QED
      BY <2>1, <3>1 DEF Least
  <2>3. a.lists[l] = Take(Limit(l), items)
    BY <1>3
  <2>4. a.total[l] = IF explains THEN Len(a.lists[l]) ELSE IF l \in Uncounted THEN Null ELSE Len(items)
    BY <1>3, <2>3
  <2>5. explains \/ l \in Unflagged => ~a.more[l]
    BY <1>3
  <2>6. explains => l \notin Uncounted
    BY DEF ListsOf, Uncounted, Unlimited
  <2> HIDE DEF Limit
  <2>7. IsList(a.lists[l]) /\ Len(a.lists[l]) = Least(Limit(l), Len(items))
    BY <1>2, <2>2, <2>3, FirstOfList
  <2>8. Len(a.lists[l]) \in Nat /\ Len(a.lists[l]) <= Len(items) /\ Len(a.lists[l]) <= Limit(l)
    BY <2>1, <2>2, <2>7 DEF Least
  <2>9. l = "results" => Len(a.lists[l]) <= Most.results
    BY <2>2, <2>8
  <2>10. l \in Uncounted => a.total[l] = Null
    BY <2>4, <2>6
  <2>11. l \notin Uncounted => a.total[l] \in Nat /\ Len(a.lists[l]) <= a.total[l]
    BY <2>1, <2>4, <2>8
  <2> HIDE DEF explains
  <2>12. tool = "explain_symbol" => a.total[l] = Len(a.lists[l]) /\ ~a.more[l]
    BY <2>4, <2>5 DEF explains
  <2> QED
    BY <2>5, <2>7, <2>9, <2>10, <2>11, <2>12
<1>6. DOMAIN a.lists = ListsOf[tool]
  BY <1>3
<1> QED
  BY <1>4, <1>5, <1>6 DEF Facts, a

(* What a list shows of the rest: its count or its flag is the answer's    *)
(* own, or it was not cut at all.                                          *)
LEMMA OwnCountTells ==
  ASSUME NEW tool, NEW v, NEW a, Facts(tool, a), NEW l \in ListsOf[tool],
         v.lists[l].count = a.total[l], v.lists[l].more = a.more[l],
         Len(v.lists[l].rows) = Len(a.lists[l])
  PROVE  TellsOfTheRest(v, l, a)
  BY DEF TellsOfTheRest, Facts, IsList

LEMMA UncutTells ==
  ASSUME NEW tool, NEW v, NEW a, Facts(tool, a), NEW l \in ListsOf[tool],
         l \in Unlimited \ {"import_gaps"} \/ tool = "explain_symbol",
         Len(v.lists[l].rows) = Len(a.lists[l])
  PROVE  TellsOfTheRest(v, l, a)
<1>1. ~a.more[l] /\ Len(a.lists[l]) \in Nat
  BY DEF Facts, Unflagged, IsList
<1>2. a.total[l] = Null \/ a.total[l] = Len(a.lists[l])
  BY DEF Facts, Uncounted
<1> QED
  BY <1>1, <1>2 DEF TellsOfTheRest

LEMMA OwnFlagTells ==
  ASSUME NEW tool, NEW v, NEW a, Facts(tool, a), NEW l \in ListsOf[tool], l \in Uncounted,
         v.lists[l].more = a.more[l], Len(v.lists[l].rows) = Len(a.lists[l])
  PROVE  TellsOfTheRest(v, l, a)
<1>1. a.total[l] = Null
  BY DEF Facts
<1>2. ~(Len(a.lists[l]) > Len(v.lists[l].rows))
  BY DEF Facts, IsList
<1> QED
  BY <1>1, <1>2 DEF TellsOfTheRest

(* A list that is cut again shows how many there were.                     *)
LEMMA TotalTells ==
  ASSUME NEW tool, NEW v, NEW a, Facts(tool, a), NEW l \in ListsOf[tool], l \notin Uncounted,
         v.lists[l].count = a.total[l],
         v.lists[l].more = a.more[l] \/ l \in Unflagged,
         Len(v.lists[l].rows) \in Nat
  PROVE  TellsOfTheRest(v, l, a)
<1>1. /\ a.total[l] \in Nat /\ Len(a.lists[l]) <= a.total[l] /\ Len(a.lists[l]) \in Nat
      /\ l \in Unflagged => ~a.more[l]
  BY DEF Facts, IsList
<1>2. a.total[l] # Null
  BY <1>1
<1>3. Len(a.lists[l]) > Len(v.lists[l].rows) => a.total[l] > Len(v.lists[l].rows)
  <2> DEFINE all == Len(a.lists[l])
             rows == Len(v.lists[l].rows)
             total == a.total[l]
  <2>1. all \in Nat /\ rows \in Nat /\ total \in Nat /\ all <= total
    BY <1>1
  <2> HIDE DEF all, rows, total
  <2>2. all > rows => total > rows
    BY ONLY <2>1
  <2> QED
    BY <2>2 DEF all, rows, total
<1> QED
  BY <1>1, <1>2, <1>3 DEF TellsOfTheRest

-----------------------------------------------------------------------------
(* Visible answers: their shapes *)

(* A list with a row for each item, and a count, a flag or all there is.   *)
LEMMA ListedTells ==
  ASSUME NEW tool, NEW v, NEW a, Facts(tool, a), NEW l \in ListsOf[tool], l # "issues",
         NEW cols, Plain(cols), NEW count, NEW more,
         v.lists[l] = Shown(cols, Rows(a.lists[l], cols), count, more),
         \/ count = a.total[l] /\ more = a.more[l]
         \/ l \in Unlimited \ {"import_gaps"}
         \/ l \in Uncounted /\ more = a.more[l]
  PROVE  Readable(v, l, a) /\ TellsOfTheRest(v, l, a)
<1>1. IsList(a.lists[l])
  BY DEF Facts
<1>2. /\ v.lists[l].cols = cols /\ v.lists[l].rows = Rows(a.lists[l], cols)
      /\ v.lists[l].count = count /\ v.lists[l].more = more
  BY DEF Shown
<1>3. Readable(v, l, a)
  <2> DEFINE items == a.lists[l]
  <2>1. \A n \in 1 .. Len(items) : items[n] = (IF l = "issues" THEN Recommended(a.lists[l]) ELSE a.lists[l])[n]
    OBVIOUS
  <2>2. IsList(items) /\ Plain(v.lists[l].cols) /\ v.lists[l].rows = Rows(items, v.lists[l].cols)
    BY <1>1, <1>2
  <2> HIDE DEF items
  <2> QED
    BY <2>1, <2>2, RowsRead
<1>4. Len(v.lists[l].rows) = Len(a.lists[l])
  BY <1>1, <1>2, RowsAreListed
<1>5. TellsOfTheRest(v, l, a)
  <2>1. CASE count = a.total[l] /\ more = a.more[l]
    BY <1>2, <1>4, <2>1, OwnCountTells
  <2>2. CASE l \in Unlimited \ {"import_gaps"}
    BY <1>4, <2>2, UncutTells
  <2>3. CASE l \in Uncounted /\ more = a.more[l]
    BY <1>2, <1>4, <2>3, OwnFlagTells
  <2> QED
    BY <2>1, <2>2, <2>3
<1> QED
  BY <1>3, <1>5

(* The same with numbered paths.                                           *)
LEMMA NumberedTells ==
  ASSUME NEW tool, NEW v, NEW a, Facts(tool, a), NEW l \in ListsOf[tool], l # "issues",
         NEW cols, Numbered(cols),
         v.lists[l] = Shown(cols, NumberedRows(a.lists[l], cols), a.total[l], a.more[l]),
         v.paths = PathIds(PathsOf(a.lists[l])).paths
  PROVE  Readable(v, l, a) /\ TellsOfTheRest(v, l, a)
<1>1. IsList(a.lists[l])
  BY DEF Facts
<1>2. /\ v.lists[l].cols = cols /\ v.lists[l].rows = NumberedRows(a.lists[l], cols)
      /\ v.lists[l].count = a.total[l] /\ v.lists[l].more = a.more[l]
  BY DEF Shown
<1>3. Readable(v, l, a)
  BY <1>1, <1>2, NumberedRowsRead
<1>4. Len(v.lists[l].rows) = Len(a.lists[l])
  BY <1>1, <1>2, RowsAreListed
<1> QED
  BY <1>2, <1>3, <1>4, OwnCountTells

(* A list without columns is read as it is.                                *)
LEMMA BareReads ==
  ASSUME NEW v, NEW l, NEW a, NEW rows, NEW count, NEW more, v.lists[l] = Shown(<<>>, rows, count, more)
  PROVE  Readable(v, l, a)
  BY DEF Shown, Readable

LEMMA RecordsTell ==
  ASSUME NEW tool \in {"orient", "expand"}, NEW a, Facts(tool, a), NEW gaps,
         a.gaps > 0 => gaps = a.gaps
  PROVE  TellsTheTruth(tool, Records(a, gaps), a)
<1> DEFINE fields == <<"path", "start", "end", "text", "provenance">>
           v == Records(a, gaps)
<1>1. Plain(fields)
  BY DEF Plain, IsList
<1> HIDE DEF fields
<1>2. /\ DOMAIN v.lists = {"records"} /\ v.gaps = gaps
      /\ v.lists["records"] = Shown(fields, Rows(a.lists["records"], fields),
                                    Len(Rows(a.lists["records"], fields)), FALSE)
  BY DEF Records, Visible, fields
<1>3. "records" \in ListsOf[tool] /\ "records" \in Unlimited
  BY DEF ListsOf, Unlimited
<1> HIDE DEF v
<1>4. Readable(v, "records", a) /\ TellsOfTheRest(v, "records", a)
  BY <1>1, <1>2, <1>3, ListedTells
<1> QED
  BY <1>2, <1>4 DEF TellsTheTruth, v

LEMMA SearchTells ==
  ASSUME NEW a, Facts("search_graph", a)
  PROVE  TellsTheTruth("search_graph", CompactSearch(a), a)
<1> DEFINE base == <<"symbol", "path", "start", "end", "callers", "callees">>
           ref == <<"symbol_ref">>
           match == <<"matched_by">>
           refs == HasRefs(a.lists["matches"])
           cols == (base \o If(refs, ref)) \o match
           v == CompactSearch(a)
<1>1. Plain(base) /\ Plain(ref) /\ Plain(match) /\ refs \in BOOLEAN
  BY DEF Plain, IsList, HasRefs
<1>2. /\ DOMAIN v.lists = {"matches"} /\ v.gaps = a.gaps
      /\ v.lists["matches"] = Shown(cols, Rows(a.lists["matches"], cols), a.total["matches"], a.more["matches"])
  BY DEF CompactSearch, Visible, Told
<1> HIDE DEF base, ref, match, refs, v
<1>3. Plain(cols)
  BY <1>1, ColumnsJoined
<1>4. "matches" \in ListsOf["search_graph"]
  BY DEF ListsOf
<1> HIDE DEF cols
<1>5. Readable(v, "matches", a) /\ TellsOfTheRest(v, "matches", a)
  BY <1>2, <1>3, <1>4, ListedTells
<1> QED
  BY <1>2, <1>5 DEF TellsTheTruth, v

LEMMA OutlineTells ==
  ASSUME NEW a, Facts("get_outline", a)
  PROVE  TellsTheTruth("get_outline", CompactOutline(a), a)
<1> DEFINE base == <<"symbol", "start", "end">>
           ref == <<"symbol_ref">>
           imports == <<"local", "symbol", "path", "start", "end", "site_start", "site_end",
                        "resolver", "confidence">>
           refs == HasRefs(a.lists["symbols"])
           cols == base \o If(refs, ref)
           v == CompactOutline(a)
<1>1. Plain(base) /\ Plain(ref) /\ Plain(imports) /\ refs \in BOOLEAN
  BY DEF Plain, IsList, HasRefs
<1>2. /\ DOMAIN v.lists = {"symbols", "imports"} /\ v.gaps = a.gaps
      /\ v.lists["symbols"] = Shown(cols, Rows(a.lists["symbols"], cols), a.total["symbols"], a.more["symbols"])
      /\ v.lists["imports"] = Shown(imports, Rows(a.lists["imports"], imports),
                                    a.total["imports"], a.more["imports"])
  BY DEF CompactOutline, Visible, Told
<1> HIDE DEF base, ref, imports, refs, v
<1>3. Plain(cols)
  BY <1>1, ColumnsJoined
<1>4. {"symbols", "imports"} \subseteq ListsOf["get_outline"]
  BY DEF ListsOf
<1> HIDE DEF cols
<1>5. Readable(v, "symbols", a) /\ TellsOfTheRest(v, "symbols", a)
  BY <1>2, <1>3, <1>4, ListedTells
<1>6. Readable(v, "imports", a) /\ TellsOfTheRest(v, "imports", a)
  BY <1>1, <1>2, <1>4, ListedTells
<1> QED
  BY <1>2, <1>5, <1>6 DEF TellsTheTruth, v

LEMMA TraceTells ==
  ASSUME NEW a, Facts("trace_path", a)
  PROVE  TellsTheTruth("trace_path", CompactTrace(a), a)
<1> DEFINE base == <<"symbol", "path_id", "hop", "direction">>
           ref == <<"symbol_ref">>
           noted == <<"evidence", "count">>
           refs == HasRefs(a.lists["nodes"])
           cols == (base \o If(a.evidence, noted)) \o If(refs, ref)
           v == CompactTrace(a)
<1>1. Numbered(base) /\ Plain(ref) /\ Plain(noted)
  BY DEF Plain, Numbered, IsList
<1>2. /\ DOMAIN v.lists = {"nodes"} /\ v.gaps = a.gaps /\ v.paths = PathIds(PathsOf(a.lists["nodes"])).paths
      /\ v.lists["nodes"] = Shown(cols, NumberedRows(a.lists["nodes"], cols), a.total["nodes"], a.more["nodes"])
  BY DEF CompactTrace, Visible, Told
<1> HIDE DEF base, ref, noted, refs, v
<1>3. Numbered(cols)
  BY <1>1, ColumnsJoined DEF If
<1>4. "nodes" \in ListsOf["trace_path"]
  BY DEF ListsOf
<1> HIDE DEF cols
<1>5. Readable(v, "nodes", a) /\ TellsOfTheRest(v, "nodes", a)
  BY <1>2, <1>3, <1>4, NumberedTells
<1> QED
  BY <1>2, <1>5 DEF TellsTheTruth, v

LEMMA UsagesTell ==
  ASSUME NEW a, Facts("find_usages", a)
  PROVE  TellsTheTruth("find_usages", CompactUsages(a), a)
<1> DEFINE base == <<"symbol", "path_id", "hop", "via", "relation", "site_start", "site_end", "resolver">>
           ref == <<"symbol_ref", "via_ref">>
           noted == <<"evidence", "count">>
           refs == HasRefs(a.lists["usages"])
           cols == (base \o If(a.evidence, noted)) \o If(refs, ref)
           v == CompactUsages(a)
<1>1. Numbered(base) /\ Plain(ref) /\ Plain(noted)
  BY DEF Plain, Numbered, IsList
<1>2. /\ DOMAIN v.lists = {"usages"} /\ v.gaps = a.gaps /\ v.paths = PathIds(PathsOf(a.lists["usages"])).paths
      /\ v.lists["usages"] = Shown(cols, NumberedRows(a.lists["usages"], cols), a.total["usages"], a.more["usages"])
  BY DEF CompactUsages, Visible, Told
<1> HIDE DEF base, ref, noted, refs, v
<1>3. Numbered(cols)
  BY <1>1, ColumnsJoined DEF If
<1>4. "usages" \in ListsOf["find_usages"]
  BY DEF ListsOf
<1> HIDE DEF cols
<1>5. Readable(v, "usages", a) /\ TellsOfTheRest(v, "usages", a)
  BY <1>2, <1>3, <1>4, NumberedTells
<1> QED
  BY <1>2, <1>5 DEF TellsTheTruth, v

LEMMA CandidateFieldsArePlain == Plain(CandidateFields)
BY DEF Plain, IsList, CandidateFields

LEMMA PairIsList ==
  LET pair == <<"path_id", "other_id">>
  IN  IsList(pair) /\ Len(pair) = 2 /\ pair[1] = "path_id" /\ pair[2] = "other_id"
BY DEF IsList

LEMMA CandidatesShown ==
  ASSUME NEW paths, NEW cols, NEW rows, NEW count, NEW more, NEW gaps, NEW partial
  PROVE  LET v == Visible(paths, [candidates |-> Shown(cols, rows, count, more)], gaps, partial)
             t == v.lists["candidates"]
         IN  /\ v.paths = paths /\ v.gaps = gaps /\ DOMAIN v.lists = {"candidates"}
             /\ t.cols = cols /\ t.rows = rows /\ t.count = count /\ t.more = more
<1> DEFINE shown == Shown(cols, rows, count, more)
           lists == [candidates |-> shown]
           v == Visible(paths, lists, gaps, partial)
<1>1. shown.cols = cols /\ shown.rows = rows /\ shown.count = count /\ shown.more = more
  BY ONLY DEF Shown
<1> HIDE DEF shown
<1>2. lists["candidates"] = shown /\ DOMAIN lists = {"candidates"}
  BY ONLY TRUE
<1> HIDE DEF lists
<1>3. v.paths = paths /\ v.gaps = gaps /\ v.lists = lists
  BY ONLY DEF Visible
<1> HIDE DEF v
<1>4. v.lists["candidates"] = shown /\ DOMAIN v.lists = {"candidates"}
  BY ONLY <1>2, <1>3
<1>5. /\ v.paths = paths /\ v.gaps = gaps /\ DOMAIN v.lists = {"candidates"}
      /\ v.lists["candidates"].cols = cols /\ v.lists["candidates"].rows = rows
      /\ v.lists["candidates"].count = count /\ v.lists["candidates"].more = more
  BY ONLY <1>1, <1>3, <1>4
<1> QED
  BY ONLY <1>5 DEF v, lists, shown

LEMMA RefactorsShown ==
  ASSUME NEW a
  PROVE  LET v == CompactRefactors(a)
             t == v.lists["candidates"]
             found == a.lists.candidates
         IN  /\ v.paths = PathIds(PathPairs(found)).paths /\ v.gaps = a.gaps /\ DOMAIN v.lists = {"candidates"}
             /\ t.cols = <<"path_id", "other_id">> \o CandidateFields /\ t.rows = PairRows(found, CandidateFields)
             /\ t.count = a.total["candidates"] /\ t.more = a.more["candidates"]
<1> DEFINE found == a.lists.candidates
           paths == PathIds(PathPairs(found)).paths
           cols == <<"path_id", "other_id">> \o CandidateFields
           rows == PairRows(found, CandidateFields)
           count == a.total["candidates"]
           more == a.more["candidates"]
           gaps == a.gaps
           partial == a.partial
           made == Visible(paths, [candidates |-> Shown(cols, rows, count, more)], gaps, partial)
           v == CompactRefactors(a)
<1>1. v = made
  BY ONLY DEF CompactRefactors, Told
<1>2. LET t == made.lists["candidates"]
      IN  /\ made.paths = paths /\ made.gaps = gaps /\ DOMAIN made.lists = {"candidates"}
          /\ t.cols = cols /\ t.rows = rows /\ t.count = count /\ t.more = more
  <2> HIDE DEF paths, cols, rows, count, more, gaps, partial
  <2> QED
    BY ONLY CandidatesShown
<1> HIDE DEF made, v, paths, cols, rows, count, more, gaps, partial
<1>3. LET t == v.lists["candidates"]
      IN  /\ v.paths = paths /\ v.gaps = gaps /\ DOMAIN v.lists = {"candidates"}
          /\ t.cols = cols /\ t.rows = rows /\ t.count = count /\ t.more = more
  BY ONLY <1>1, <1>2
<1> QED
  BY ONLY <1>3 DEF v, paths, cols, rows, count, more, gaps

(* Both functions of a candidate read back from the one list of paths.     *)
LEMMA CandidatesRead ==
  ASSUME NEW a, IsList(a.lists.candidates)
  PROVE  LET v == CompactRefactors(a)
         IN  /\ Readable(v, "candidates", a)
             /\ Len(v.lists["candidates"].rows) = Len(a.lists["candidates"])
<1> DEFINE found == a.lists.candidates
           used == PathPairs(found)
           ids == PathIds(used).ids
           pair == <<"path_id", "other_id">>
           after == CandidateFields
           v == CompactRefactors(a)
           t == v.lists["candidates"]
<1>1. Plain(after)
  BY ONLY CandidateFieldsArePlain
<1>2. IsList(pair) /\ Len(pair) = 2 /\ pair[1] = "path_id" /\ pair[2] = "other_id"
  BY ONLY PairIsList
<1>3. /\ v.paths = PathIds(used).paths
      /\ t.cols = pair \o after
      /\ t.rows = [n \in DOMAIN found |-> <<ids[2 * n - 1], ids[2 * n]>> \o Rows(found, after)[n]]
  <2>1. v.paths = PathIds(used).paths /\ t.cols = pair \o after /\ t.rows = PairRows(found, after)
    BY ONLY RefactorsShown
  <2>2. PairRows(found, after) = [n \in DOMAIN found |-> <<ids[2 * n - 1], ids[2 * n]>> \o Rows(found, after)[n]]
    BY ONLY DEF PairRows
  <2> HIDE DEF found, used, ids, pair, after, v
  <2> QED
    BY <2>1, <2>2
<1> HIDE DEF after, pair, v
<1>4. Len(found) \in Nat /\ DOMAIN found = 1 .. Len(found)
  BY DEF IsList
<1>5. ASSUME NEW n \in 1 .. Len(found)
      PROVE  /\ PathIds(used).paths[ids[2 * n - 1] + 1] = found[n].path
             /\ PathIds(used).paths[ids[2 * n] + 1] = found[n].other
  <2>1. /\ 2 * Len(found) \in Nat /\ DOMAIN used = 1 .. 2 * Len(found)
        /\ 2 * n - 1 \in 1 .. 2 * Len(found) /\ 2 * n \in 1 .. 2 * Len(found)
    <3>1. DOMAIN used = 1 .. 2 * Len(found)
      BY DEF PathPairs
    <3>2. /\ 2 * Len(found) \in Nat
          /\ 2 * n - 1 \in 1 .. 2 * Len(found) /\ 2 * n \in 1 .. 2 * Len(found)
      BY <1>4
    <3> QED
      BY ONLY <3>1, <3>2
  <2>2. /\ (2 * n - 1) % 2 = 1 /\ (2 * n) % 2 # 1
        /\ ((2 * n - 1) + 1) \div 2 = n /\ (2 * n) \div 2 = n
    BY <1>4
  <2>3. used[2 * n - 1] = found[n].path /\ used[2 * n] = found[n].other
    BY <2>1, <2>2 DEF PathPairs
  <2> HIDE DEF used, found
  <2>4. PathIds(used).paths[PathIds(used).ids[2 * n - 1] + 1] = used[2 * n - 1]
    BY <2>1, NumbersReadBack
  <2>5. PathIds(used).paths[PathIds(used).ids[2 * n] + 1] = used[2 * n]
    BY <2>1, NumbersReadBack
  <2> QED
    BY <2>3, <2>4, <2>5
<1> HIDE DEF used
<1>6. /\ IsList(t.cols) /\ Len(t.cols) = 2 + Len(after)
      /\ t.cols[1] = "path_id" /\ t.cols[2] = "other_id"
      /\ \A k \in 1 .. Len(t.cols) : k > 2 => k - 2 \in 1 .. Len(after) /\ t.cols[k] = after[k - 2]
  <2> DEFINE c == pair \o after
  <2>1. IsList(pair) /\ IsList(after)
    BY <1>1, <1>2 DEF Plain
  <2>2. /\ Len(c) = Len(pair) + Len(after) /\ IsList(c)
        /\ \A k \in 1 .. Len(pair) : c[k] = pair[k]
        /\ \A k \in 1 .. Len(c) : \/ k \in 1 .. Len(pair) /\ c[k] = pair[k]
                                  \/ k - Len(pair) \in 1 .. Len(after) /\ c[k] = after[k - Len(pair)]
    <3>1. Len(c) = Len(pair) + Len(after) /\ IsList(c)
      BY ONLY <2>1, Joined
    <3>2. \A k \in 1 .. Len(pair) : c[k] = pair[k]
      BY ONLY <2>1, Joined
    <3>3. \A k \in 1 .. Len(c) : \/ k \in 1 .. Len(pair) /\ c[k] = pair[k]
                                 \/ k - Len(pair) \in 1 .. Len(after) /\ c[k] = after[k - Len(pair)]
      BY ONLY <2>1, Joined
    <3> HIDE DEF c
    <3> QED
      BY ONLY <3>1, <3>2, <3>3
  <2>3. 1 \in 1 .. Len(pair) /\ 2 \in 1 .. Len(pair)
    BY <1>2
  <2> HIDE DEF c
  <2>4. c[1] = "path_id" /\ c[2] = "other_id"
    BY <1>2, <2>2, <2>3
  <2>5. ASSUME NEW k \in 1 .. Len(c), k > 2
        PROVE  k - 2 \in 1 .. Len(after) /\ c[k] = after[k - 2]
    BY <1>2, <2>2, <2>5
  <2>6. t.cols = c
    BY <1>3 DEF c
  <2> QED
    BY <1>2, <2>2, <2>4, <2>5, <2>6
<1>7. ASSUME NEW n \in DOMAIN t.rows
      PROVE  /\ Len(t.rows[n]) = Len(t.cols)
             /\ \A k \in DOMAIN t.cols : Meant(v, t.rows[n][k], t.cols[k]) = Fact(found[n], t.cols[k])
  <2> HIDE DEF found, ids, t
  <2> DEFINE first == <<ids[2 * n - 1], ids[2 * n]>>
             rest == Rows(found, after)[n]
  <2>1. n \in 1 .. Len(found) /\ t.rows[n] = first \o rest
    BY <1>3, <1>4
  <2>2. IsList(first) /\ Len(first) = 2 /\ first[1] = ids[2 * n - 1] /\ first[2] = ids[2 * n]
    BY DEF IsList
  <2>3. rest = [k \in 1 .. Len(after) |-> Cell(found[n], after[k])]
    BY <1>1, <1>4, <2>1 DEF Rows, Plain, IsList
  <2>4. Len(after) \in Nat
    BY <1>1 DEF Plain, IsList
  <2>5. IsList(rest) /\ Len(rest) = Len(after)
    BY <2>3, <2>4 DEF IsList
  <2> HIDE DEF first, rest
  <2>6. /\ Len(t.rows[n]) = 2 + Len(after)
        /\ t.rows[n][1] = first[1] /\ t.rows[n][2] = first[2]
        /\ \A k \in 1 .. Len(after) : t.rows[n][2 + k] = rest[k]
    <3> DEFINE r == first \o rest
    <3>1. /\ Len(r) = Len(first) + Len(rest)
          /\ \A k \in 1 .. Len(first) : r[k] = first[k]
          /\ \A k \in 1 .. Len(rest) : r[Len(first) + k] = rest[k]
      <4>1. IsList(first) /\ IsList(rest)
        BY <2>2, <2>5
      <4> QED
        BY ONLY <4>1, Joined
    <3>2. 1 \in 1 .. Len(first) /\ 2 \in 1 .. Len(first)
      BY <2>2
    <3> HIDE DEF r
    <3>3. t.rows[n] = r
      BY <2>1 DEF r
    <3> QED
      BY <2>2, <2>5, <3>1, <3>2, <3>3
  <2>7. ASSUME NEW k \in DOMAIN t.cols
        PROVE  Meant(v, t.rows[n][k], t.cols[k]) = Fact(found[n], t.cols[k])
    <3>1. k \in 1 .. Len(t.cols) /\ Len(t.cols) = 2 + Len(after)
      BY <1>6, ListIsSequence
    <3>2. CASE k = 1
      <4>1. t.cols[k] = "path_id" /\ t.rows[n][k] = ids[2 * n - 1]
        BY <1>6, <2>2, <2>6, <3>2
      <4>2. Meant(v, t.rows[n][k], t.cols[k]) = v.paths[ids[2 * n - 1] + 1]
        BY <4>1 DEF Meant
      <4>3. Fact(found[n], t.cols[k]) = found[n].path
        BY <4>1 DEF Fact
      <4> QED
        BY <1>3, <1>5, <2>1, <4>2, <4>3
    <3>3. CASE k = 2
      <4>1. t.cols[k] = "other_id" /\ t.rows[n][k] = ids[2 * n]
        BY <1>6, <2>2, <2>6, <3>3
      <4>2. Meant(v, t.rows[n][k], t.cols[k]) = v.paths[ids[2 * n] + 1]
        BY <4>1 DEF Meant
      <4>3. Fact(found[n], t.cols[k]) = found[n].other
        BY <4>1 DEF Fact
      <4> QED
        BY <1>3, <1>5, <2>1, <4>2, <4>3
    <3>4. CASE k > 2
      <4>1. k - 2 \in 1 .. Len(after) /\ t.cols[k] = after[k - 2] /\ 2 + (k - 2) = k
        BY <1>6, <3>1, <3>4
      <4>2. t.rows[n][k] = Cell(found[n], t.cols[k])
        BY <2>3, <2>6, <4>1
      <4>3. t.cols[k] \notin {"path_id", "other_id"}
        BY <1>1, <4>1 DEF Plain
      <4> QED
        BY <4>2, <4>3 DEF Meant, Fact
    <3> QED
      BY <2>4, <3>1, <3>2, <3>3, <3>4
  <2> QED
    BY <1>6, <2>6, <2>7
<1>8. Readable(v, "candidates", a)
  BY <1>7 DEF Readable
<1>9. Len(t.rows) = Len(found)
  BY <1>3, <1>4
<1> QED
  BY <1>8, <1>9 DEF v

LEMMA RefactorsTell ==
  ASSUME NEW a, Facts("suggest_refactors", a)
  PROVE  TellsTheTruth("suggest_refactors", CompactRefactors(a), a)
<1> DEFINE v == CompactRefactors(a)
<1>1. /\ DOMAIN v.lists = {"candidates"} /\ v.gaps = a.gaps
      /\ v.lists["candidates"].count = a.total["candidates"]
      /\ v.lists["candidates"].more = a.more["candidates"]
  BY ONLY RefactorsShown
<1>2. "candidates" \in ListsOf["suggest_refactors"]
  BY DEF ListsOf
<1>3. Readable(v, "candidates", a) /\ Len(v.lists["candidates"].rows) = Len(a.lists["candidates"])
  BY <1>2, CandidatesRead DEF Facts
<1> HIDE DEF v
<1>4. TellsOfTheRest(v, "candidates", a)
  BY <1>1, <1>2, <1>3, OwnCountTells
<1> QED
  BY <1>1, <1>3, <1>4 DEF TellsTheTruth, v

LEMMA DeadCodeTells ==
  ASSUME NEW a, Facts("detect_dead_code", a)
  PROVE  TellsTheTruth("detect_dead_code", CompactDeadCode(a), a)
<1> DEFINE cols == <<"symbol", "path", "span", "outgoing_calls">>
           v == CompactDeadCode(a)
<1>1. Plain(cols)
  BY DEF Plain, IsList
<1>2. /\ DOMAIN v.lists = {"dead_symbols"}
      /\ v.lists["dead_symbols"] = Shown(cols, Rows(a.lists["dead_symbols"], cols),
                                         a.total["dead_symbols"], a.more["dead_symbols"])
  BY DEF CompactDeadCode, Visible, Told
<1>3. "dead_symbols" \in ListsOf["detect_dead_code"]
  BY DEF ListsOf
<1> HIDE DEF cols, v
<1>4. Readable(v, "dead_symbols", a) /\ TellsOfTheRest(v, "dead_symbols", a)
  BY <1>1, <1>2, <1>3, ListedTells
<1> QED
  BY <1>2, <1>4 DEF TellsTheTruth, v

LEMMA ExplainTells ==
  ASSUME NEW a, Facts("explain_symbol", a)
  PROVE  TellsTheTruth("explain_symbol", CompactExplain(a), a)
<1> DEFINE v == CompactExplain(a)
<1>1. /\ DOMAIN v.lists = {"callers", "callees", "usages"}
      /\ \A l \in DOMAIN v.lists : v.lists[l] = Shown(<<>>, a.lists[l], a.total[l], FALSE)
  <2>1. v.lists = [callers |-> Shown(<<>>, a.lists["callers"], a.total["callers"], FALSE),
                   callees |-> Shown(<<>>, a.lists["callees"], a.total["callees"], FALSE),
                   usages |-> Shown(<<>>, a.lists["usages"], a.total["usages"], FALSE)]
    BY DEF CompactExplain, Visible, Told
  <2> HIDE DEF v
  <2>2. DOMAIN v.lists = {"callers", "callees", "usages"}
    BY <2>1
  <2>3. /\ v.lists["callers"] = Shown(<<>>, a.lists["callers"], a.total["callers"], FALSE)
        /\ v.lists["callees"] = Shown(<<>>, a.lists["callees"], a.total["callees"], FALSE)
        /\ v.lists["usages"] = Shown(<<>>, a.lists["usages"], a.total["usages"], FALSE)
    BY <2>1
  <2> QED
    BY <2>2, <2>3
<1>2. DOMAIN v.lists \subseteq ListsOf["explain_symbol"]
  BY <1>1 DEF ListsOf
<1> HIDE DEF v
<1>3. ASSUME NEW l \in DOMAIN v.lists
      PROVE  Readable(v, l, a) /\ TellsOfTheRest(v, l, a)
  <2>1. v.lists[l].rows = a.lists[l]
    BY <1>1 DEF Shown
  <2>2. Readable(v, l, a)
    BY <1>1, BareReads
  <2>3. TellsOfTheRest(v, l, a)
    BY <1>2, <2>1, UncutTells
  <2> QED
    BY <2>2, <2>3
<1> QED
  BY <1>3 DEF TellsTheTruth, Facts, Gapless, v

LEMMA CoverageTells ==
  ASSUME NEW a, Facts("check_index_coverage", a)
  PROVE  TellsTheTruth("check_index_coverage", CompactCoverage(a), a)
<1> DEFINE cols == <<"path", "status", "gaps">>
           v == CompactCoverage(a)
<1>1. Plain(cols)
  BY DEF Plain, IsList
<1>2. /\ DOMAIN v.lists = {"paths", "scopes"} /\ v.gaps = a.gaps
      /\ v.lists["paths"] = Shown(cols, Rows(a.lists["paths"], cols), Null, FALSE)
      /\ v.lists["scopes"] = Shown(<<>>, a.lists["scopes"], Null, FALSE)
  BY DEF CompactCoverage, Visible
<1>3. {"paths", "scopes"} \subseteq ListsOf["check_index_coverage"] \cap Unlimited
  BY DEF ListsOf, Unlimited
<1> HIDE DEF cols, v
<1>4. Readable(v, "paths", a) /\ TellsOfTheRest(v, "paths", a)
  BY <1>1, <1>2, <1>3, ListedTells
<1>5. Readable(v, "scopes", a)
  BY <1>2, BareReads
<1>6. TellsOfTheRest(v, "scopes", a)
  <2>1. Len(v.lists["scopes"].rows) = Len(a.lists["scopes"])
    BY <1>2 DEF Shown
  <2> QED
    BY <1>3, <2>1, UncutTells
<1> QED
  BY <1>2, <1>4, <1>5, <1>6 DEF TellsTheTruth, v

(* The store gives no more results than the visible form keeps.            *)
LEMMA RecallTells ==
  ASSUME NEW a, Facts("memory_recall", a)
  PROVE  TellsTheTruth("memory_recall", CompactRecall(a), a)
<1> DEFINE cols == <<"id", "confidence", "fact">>
           items == Take(Most.results, a.lists["results"])
           v == CompactRecall(a)
<1>1. Plain(cols)
  BY DEF Plain, IsList
<1>2. /\ DOMAIN v.lists = {"results"}
      /\ v.lists["results"] = Shown(cols, Rows(items, cols), Null, a.more["results"])
  BY DEF CompactRecall, Visible
<1>3. "results" \in ListsOf["memory_recall"] /\ "results" \in Uncounted
  BY DEF ListsOf, Uncounted
<1>4. IsList(a.lists["results"]) /\ Len(a.lists["results"]) <= Most["results"] /\ Most["results"] \in Nat
  BY <1>3 DEF Facts
<1>5. Len(items) = Len(a.lists["results"]) /\ IsList(items)
  <2>1. Least(Most["results"], Len(a.lists["results"])) = Len(a.lists["results"])
    BY <1>4 DEF Least, IsList
  <2> QED
    BY <1>4, <2>1, FirstOfList
<1>6. \A n \in 1 .. Len(items) : items[n] = a.lists["results"][n]
  BY <1>4, FirstOfList, SMTT(20)
<1> HIDE DEF cols, items, v
<1>7. /\ v.lists["results"].cols = cols /\ v.lists["results"].rows = Rows(items, cols)
      /\ v.lists["results"].more = a.more["results"]
  BY <1>2 DEF Shown
<1>8. Readable(v, "results", a)
  BY <1>1, <1>5, <1>6, <1>7, RowsRead
<1>9. TellsOfTheRest(v, "results", a)
  <2>1. Len(v.lists["results"].rows) = Len(a.lists["results"])
    BY <1>5, <1>7, RowsAreListed
  <2> QED
    BY <1>3, <1>7, <2>1, OwnFlagTells
<1> QED
  BY <1>2, <1>8, <1>9 DEF TellsTheTruth, Facts, Gapless, v

(* The recommended ones of the first issues are the first recommended ones.*)
LEMMA FirstRecommended ==
  ASSUME NEW issues, IsList(issues), NEW m \in Nat
  PROVE  LET chosen == Recommended(Take(m, issues))
         IN  /\ IsList(chosen)
             /\ \A n \in 1 .. Len(chosen) : chosen[n] = Recommended(issues)[n]
<1> DEFINE early == Take(m, issues)
           places == {n \in DOMAIN issues : "recommended" \notin issues[n].absent}
           within == {n \in DOMAIN early : "recommended" \notin early[n].absent}
           len == Least(m, Len(issues))
           chosen == Recommended(early)
<1>1. /\ DOMAIN issues = 1 .. Len(issues) /\ Len(issues) \in Nat
      /\ DOMAIN early = 1 .. Len(early) /\ Len(early) = len
      /\ \A n \in 1 .. Len(early) : n \in 1 .. Len(issues) /\ early[n] = issues[n]
  BY FirstOfList, ListIsSequence
<1> HIDE DEF early
<1>2. len \in Nat /\ \A n \in 1 .. Len(issues) : n \in 1 .. len <=> n <= m
  BY <1>1 DEF Least
<1> HIDE DEF len
<1>3. IsFiniteSet(places) /\ places \in SUBSET Nat
  <2>1. places \subseteq 1 .. Len(issues)
    BY <1>1
  <2>2. IsFiniteSet(1 .. Len(issues)) /\ 1 .. Len(issues) \subseteq Nat
    BY <1>1, FS_Interval
  <2> HIDE DEF places
  <2> QED
    BY ONLY <2>1, <2>2, FS_Subset
<1>4. within = {k \in places : k <= m}
  BY <1>1, <1>2
<1>5. /\ chosen = [n \in 1 .. Cardinality(within) |-> early[Nth(within, n)]]
      /\ Recommended(issues) = [n \in 1 .. Cardinality(places) |-> issues[Nth(places, n)]]
  BY DEF Recommended, Picked
<1> HIDE DEF chosen, within
<1>6. IsFiniteSet(within) /\ within \in SUBSET Nat /\ Cardinality(within) \in Nat
  BY <1>3, <1>4, FS_Subset, FS_CardinalityType
<1>7. IsList(chosen) /\ Len(chosen) = Cardinality(within)
  BY <1>5, <1>6 DEF IsList
<1>8. ASSUME NEW n \in 1 .. Len(chosen)
      PROVE  chosen[n] = Recommended(issues)[n]
  <2>1. n \in 1 .. Cardinality({k \in places : k <= m})
    BY <1>4, <1>7
  <2> HIDE DEF places
  <2>2. Nth(within, n) = Nth(places, n) /\ n \in 1 .. Cardinality(places)
    BY <1>3, <1>4, <2>1, PickedOfFirst
  <2>3. Nth(within, n) \in within
    BY <1>6, <1>7, NthIsThere
  <2>4. early[Nth(within, n)] = issues[Nth(within, n)]
    BY <1>1, <2>3 DEF within
  <2> QED
    BY <1>5, <1>7, <2>2, <2>4
<1> QED
  BY <1>7, <1>8 DEF chosen, early

LEMMA ArchitectureTells ==
  ASSUME NEW a, Facts("get_architecture", a)
  PROVE  TellsTheTruth("get_architecture", CompactArchitecture(a), a)
<1> DEFINE packages == <<"name", "files", "symbols", "fan_in", "fan_out">>
           boundaries == <<"source", "target", "edges", "relations", "confidence", "path", "start", "end">>
           hotspots == <<"symbol", "path", "fan_in">>
           cycles == <<"packages">>
           communities == <<"packages", "internal_weight", "cut_weight", "cohesion">>
           cols == <<"label", "members", "cohesion", "packages", "edge_types", "path", "top_symbols">>
           issue == <<"issue_id", "kind", "packages", "boundary", "policy", "score", "reasons", "strategy_id">>
           some == Take(Most.symbol_communities, a.lists["symbol_communities"])
           chosen == Recommended(Take(Most.issues, a.lists["issues"]))
           Listed(l, fields) == Shown(fields, Rows(a.lists[l], fields), a.total[l], a.more[l])
           v == CompactArchitecture(a)
<1>1. /\ Plain(packages) /\ Plain(boundaries) /\ Plain(hotspots) /\ Plain(cycles)
      /\ Plain(communities) /\ Plain(cols) /\ Plain(issue)
  BY DEF Plain, IsList
<1>2. /\ v.gaps = a.gaps
      /\ v.lists = [packages |-> Listed("packages", packages),
                    boundaries |-> Listed("boundaries", boundaries),
                    hotspots |-> Listed("hotspots", hotspots),
                    cycles |-> Listed("cycles", cycles),
                    communities |-> Listed("communities", communities),
                    symbol_communities |-> Shown(cols, Rows(some, cols), a.total["symbol_communities"],
                                                 a.more["symbol_communities"]),
                    issues |-> Shown(issue, Rows(chosen, issue), a.total["issues"],
                                     a.total["issues"] > Len(chosen))]
  BY DEF CompactArchitecture, Visible, Told
<1> DEFINE plain == {"packages", "boundaries", "hotspots", "cycles", "communities"}
<1> HIDE DEF packages, boundaries, hotspots, cycles, communities, cols, issue, some, chosen, v
<1>3. ListsOf["get_architecture"] = plain \cup {"symbol_communities", "issues"}
  BY DEF ListsOf
<1>4. /\ DOMAIN v.lists = plain \cup {"symbol_communities", "issues"}
      /\ v.lists["packages"] = Listed("packages", packages)
      /\ v.lists["boundaries"] = Listed("boundaries", boundaries)
      /\ v.lists["hotspots"] = Listed("hotspots", hotspots)
      /\ v.lists["cycles"] = Listed("cycles", cycles)
      /\ v.lists["communities"] = Listed("communities", communities)
      /\ v.lists["symbol_communities"] = Shown(cols, Rows(some, cols), a.total["symbol_communities"],
                                               a.more["symbol_communities"])
      /\ v.lists["issues"] = Shown(issue, Rows(chosen, issue), a.total["issues"],
                                   a.total["issues"] > Len(chosen))
  BY <1>2
<1>5. ASSUME NEW l \in plain
      PROVE  Readable(v, l, a) /\ TellsOfTheRest(v, l, a)
  <2>1. PICK fields : Plain(fields) /\ v.lists[l] = Listed(l, fields)
    BY <1>1, <1>4
  <2>2. l \in ListsOf["get_architecture"] /\ l # "issues"
    BY <1>3
  <2> QED
    BY <2>1, <2>2, ListedTells
<1>6. \A l \in {"symbol_communities", "issues"} :
        l \in ListsOf["get_architecture"] /\ l \notin Uncounted /\ IsList(a.lists[l])
  BY <1>3 DEF Facts, Uncounted, Unlimited
<1>7. Readable(v, "symbol_communities", a) /\ TellsOfTheRest(v, "symbol_communities", a)
  <2>1. Most["symbol_communities"] \in Nat
    OBVIOUS
  <2>2. IsList(some) /\ \A n \in 1 .. Len(some) : some[n] = a.lists["symbol_communities"][n]
    BY <1>6, <2>1, FirstOfList DEF some
  <2>3. /\ v.lists["symbol_communities"].cols = cols
        /\ v.lists["symbol_communities"].rows = Rows(some, cols)
        /\ v.lists["symbol_communities"].count = a.total["symbol_communities"]
        /\ v.lists["symbol_communities"].more = a.more["symbol_communities"]
    BY <1>4 DEF Shown
  <2>4. Readable(v, "symbol_communities", a)
    BY <1>1, <2>2, <2>3, RowsRead
  <2>5. Len(v.lists["symbol_communities"].rows) \in Nat
    BY <2>2, <2>3, RowsAreListed DEF IsList
  <2> QED
    BY <1>6, <2>3, <2>4, <2>5, TotalTells
<1>8. Readable(v, "issues", a) /\ TellsOfTheRest(v, "issues", a)
  <2>1. Most["issues"] \in Nat
    OBVIOUS
  <2>2. IsList(chosen) /\ \A n \in 1 .. Len(chosen) : chosen[n] = Recommended(a.lists["issues"])[n]
    BY <1>6, <2>1, FirstRecommended DEF chosen
  <2>3. /\ v.lists["issues"].cols = issue
        /\ v.lists["issues"].rows = Rows(chosen, issue)
        /\ v.lists["issues"].count = a.total["issues"]
    BY <1>4 DEF Shown
  <2>4. Readable(v, "issues", a)
    BY <1>1, <2>2, <2>3, RowsRead
  <2>5. Len(v.lists["issues"].rows) \in Nat
    BY <2>2, <2>3, RowsAreListed DEF IsList
  <2>6. "issues" \in Unflagged
    BY DEF Unflagged
  <2> QED
    BY <1>6, <2>3, <2>4, <2>5, <2>6, TotalTells
<1>9. /\ \A l \in DOMAIN v.lists : Readable(v, l, a)
      /\ \A l \in DOMAIN v.lists : TellsOfTheRest(v, l, a)
  BY <1>4, <1>5, <1>7, <1>8
<1> QED
  BY <1>2, <1>9 DEF TellsTheTruth, v

LEMMA RisksTell ==
  ASSUME NEW a, Facts("scan_risks", a)
  PROVE  TellsTheTruth("scan_risks", CompactRisks(a), a)
<1> DEFINE findings == <<"rule", "path", "line", "caller", "removed_path", "removed_symbol">>
           impacts == <<"path", "caller", "target_path", "target", "line">>
           tests == <<"path", "symbol", "line", "impact", "depth", "status">>
           some == Take(Most.unindexed, a.lists["unindexed"])
           v == CompactRisks(a)
<1>1. Plain(findings) /\ Plain(impacts) /\ Plain(tests)
  BY DEF Plain, IsList
<1>2. /\ DOMAIN v.lists = {"findings", "impacts", "tests", "unindexed"} /\ v.gaps = a.gaps
      /\ v.lists["findings"] = Shown(findings, Rows(a.lists["findings"], findings), Null, a.more["findings"])
      /\ v.lists["impacts"] = Shown(impacts, Rows(a.lists["impacts"], impacts), Null, a.more["impacts"])
      /\ v.lists["tests"] = Shown(tests, Rows(a.lists["tests"], tests), Null, a.more["tests"])
      /\ v.lists["unindexed"] = Shown(<<>>, some, a.total["unindexed"], FALSE)
  BY DEF CompactRisks, Visible, Told
<1>3. /\ ListsOf["scan_risks"] = {"findings", "impacts", "tests", "unindexed"}
      /\ {"findings", "impacts", "tests"} \subseteq Uncounted
      /\ "unindexed" \in Unflagged /\ "unindexed" \notin Uncounted
  BY DEF ListsOf, Uncounted, Unflagged, Unlimited
<1> HIDE DEF findings, impacts, tests, some, v
<1>4. Readable(v, "findings", a) /\ TellsOfTheRest(v, "findings", a)
  BY <1>1, <1>2, <1>3, ListedTells
<1>5. Readable(v, "impacts", a) /\ TellsOfTheRest(v, "impacts", a)
  BY <1>1, <1>2, <1>3, ListedTells
<1>6. Readable(v, "tests", a) /\ TellsOfTheRest(v, "tests", a)
  BY <1>1, <1>2, <1>3, ListedTells
<1>7. Readable(v, "unindexed", a)
  BY <1>2, BareReads
<1>8. TellsOfTheRest(v, "unindexed", a)
  <2>1. IsList(a.lists["unindexed"]) /\ Most["unindexed"] \in Nat
    BY <1>3 DEF Facts
  <2>2. Len(some) \in Nat
    BY <2>1, FirstOfList DEF some, IsList
  <2>3. v.lists["unindexed"].rows = some /\ v.lists["unindexed"].count = a.total["unindexed"]
    BY <1>2 DEF Shown
  <2> QED
    BY <1>3, <2>2, <2>3, TotalTells
<1> QED
  BY <1>2, <1>4, <1>5, <1>6, <1>7, <1>8 DEF TellsTheTruth, v

LEMMA ImportTells ==
  ASSUME NEW a, Facts("ingest_runtime_evidence", a)
  PROVE  TellsTheTruth("ingest_runtime_evidence", CompactImport(a), a)
<1> DEFINE v == CompactImport(a)
           some == Take(Most.import_gaps, a.lists["import_gaps"])
<1>1. /\ DOMAIN v.lists = {"import_gaps"}
      /\ v.lists["import_gaps"] = Shown(<<>>, some, a.total["import_gaps"], FALSE)
  BY DEF CompactImport, Visible, Told
<1>2. /\ "import_gaps" \in ListsOf["ingest_runtime_evidence"]
      /\ "import_gaps" \notin Uncounted /\ "import_gaps" \in Unflagged
  BY DEF ListsOf, Uncounted, Unflagged, Unlimited
<1>3. IsList(a.lists["import_gaps"]) /\ Most["import_gaps"] \in Nat /\ a.gaps = 0
  BY <1>2 DEF Facts, Gapless
<1>4. Len(some) \in Nat
  BY <1>3, FirstOfList DEF IsList
<1> HIDE DEF v, some
<1>5. Readable(v, "import_gaps", a)
  BY <1>1, BareReads
<1>6. v.lists["import_gaps"].rows = some /\ v.lists["import_gaps"].count = a.total["import_gaps"]
  BY <1>1 DEF Shown
<1>7. TellsOfTheRest(v, "import_gaps", a)
  BY <1>2, <1>4, <1>6, TotalTells
<1> QED
  BY <1>1, <1>3, <1>5, <1>7 DEF TellsTheTruth, v

LEMMA StatusTells ==
  ASSUME NEW a, Facts("status", a)
  PROVE  TellsTheTruth("status", CompactStatus(a), a)
<1> DEFINE v == CompactStatus(a)
           some == Take(Most.coverage_gaps, a.lists["coverage_gaps"])
<1>1. /\ DOMAIN v.lists = {"coverage_gaps"} /\ v.gaps = a.gaps
      /\ v.lists["coverage_gaps"] = Shown(<<>>, some, a.total["coverage_gaps"], a.more["coverage_gaps"])
  BY DEF CompactStatus, Visible, Told
<1>2. "coverage_gaps" \in ListsOf["status"] /\ "coverage_gaps" \notin Uncounted
  BY DEF ListsOf, Uncounted, Unlimited
<1>3. IsList(a.lists["coverage_gaps"]) /\ Most["coverage_gaps"] \in Nat
  BY <1>2 DEF Facts
<1>4. Len(some) \in Nat
  BY <1>3, FirstOfList DEF IsList
<1> HIDE DEF v, some
<1>5. Readable(v, "coverage_gaps", a)
  BY <1>1, BareReads
<1>6. /\ v.lists["coverage_gaps"].rows = some
      /\ v.lists["coverage_gaps"].count = a.total["coverage_gaps"]
      /\ v.lists["coverage_gaps"].more = a.more["coverage_gaps"]
  BY <1>1 DEF Shown
<1>7. TellsOfTheRest(v, "coverage_gaps", a)
  BY <1>2, <1>4, <1>6, TotalTells
<1> QED
  BY <1>1, <1>5, <1>7 DEF TellsTheTruth, v

(* A gate shows no findings, but how many there are: all of them.          *)
GateTools == {"check_security_gates", "check_framework_gates", "check_change_gates", "check_repository_gates"}

LEMMA GatesTell ==
  ASSUME NEW tool \in GateTools, NEW a, Facts(tool, a), DOMAIN a.lists = ListsOf[tool],
         NEW gaps, a.gaps > 0 => gaps = a.gaps
  PROVE  TellsTheTruth(tool, CompactGates(a, gaps), a)
<1> DEFINE v == CompactGates(a, gaps)
<1>1. /\ v.lists = [l \in DOMAIN a.lists |-> Shown(<<>>, <<>>, Len(a.lists[l]), FALSE)] /\ v.gaps = gaps
  BY DEF CompactGates, Visible
<1>2. ListsOf[tool] \subseteq Unlimited \ {"import_gaps"}
  BY DEF ListsOf, Unlimited, GateTools
<1> HIDE DEF v
<1>3. ASSUME NEW l \in DOMAIN v.lists
      PROVE  Readable(v, l, a) /\ TellsOfTheRest(v, l, a)
  <2>1. l \in ListsOf[tool] /\ v.lists[l] = Shown(<<>>, <<>>, Len(a.lists[l]), FALSE)
    BY <1>1
  <2>2. l \in Uncounted /\ l \in Unflagged
    BY <1>2, <2>1 DEF Uncounted, Unflagged
  <2>3. Len(a.lists[l]) \in Nat /\ a.total[l] = Null /\ ~a.more[l]
    BY <2>1, <2>2 DEF Facts, IsList
  <2>4. v.lists[l].count = Len(a.lists[l])
    BY <2>1 DEF Shown
  <2>5. v.lists[l].count # Null
    BY <2>3, <2>4
  <2>6. Readable(v, l, a)
    BY <2>1, BareReads
  <2>7. TellsOfTheRest(v, l, a)
    BY <2>3, <2>4, <2>5 DEF TellsOfTheRest
  <2> QED
    BY <2>6, <2>7
<1> QED
  BY <1>1, <1>3 DEF TellsTheTruth, v

(* Every tool's visible answers tell the truth, however many items are     *)
(* found and wherever the lists are cut.                                   *)
LEMMA AllToolsTell ==
  DOMAIN ListsOf \subseteq Truthful
<1> SUFFICES ASSUME NEW tool \in DOMAIN ListsOf, NEW x \in Answers(tool)
             PROVE  TellsTheTruth(tool, ModelVisibleResult(tool, x.of), x.of)
  BY DEF Truthful
<1> DEFINE a == x.of
<1>1. Facts(tool, a) /\ DOMAIN a.lists = ListsOf[tool]
  BY AnswersHaveFacts
<1> HIDE DEF a
<1>2. \/ tool \in {"orient", "expand"} \/ tool = "search_graph" \/ tool = "get_outline"
      \/ tool = "trace_path" \/ tool = "find_usages" \/ tool = "suggest_refactors"
      \/ tool = "detect_dead_code" \/ tool = "explain_symbol" \/ tool = "check_index_coverage"
      \/ tool = "memory_recall" \/ tool = "get_architecture" \/ tool = "scan_risks"
      \/ tool = "ingest_runtime_evidence" \/ tool = "status" \/ tool \in GateTools
  BY DEF ListsOf, GateTools
<1>3. TellsTheTruth(tool, ModelVisibleResult(tool, a), a)
  <2>1. CASE tool \in {"orient", "expand"}
    <3>1. ModelVisibleResult(tool, a) = Records(a, IF tool = "orient" THEN a.gaps ELSE Null)
      BY <2>1 DEF ModelVisibleResult, CompactOrient, CompactExpand
    <3>2. tool = "expand" => a.gaps = 0
      BY <1>1 DEF Facts, Gapless
    <3> QED
      BY <1>1, <2>1, <3>1, <3>2, RecordsTell
  <2>2. CASE tool = "search_graph"
    <3>1. ModelVisibleResult(tool, a) = CompactSearch(a)
      BY <2>2 DEF ModelVisibleResult
    <3> QED
      BY <1>1, <2>2, <3>1, SearchTells
  <2>3. CASE tool = "get_outline"
    <3>1. ModelVisibleResult(tool, a) = CompactOutline(a)
      BY <2>3 DEF ModelVisibleResult
    <3> QED
      BY <1>1, <2>3, <3>1, OutlineTells
  <2>4. CASE tool = "trace_path"
    <3>1. ModelVisibleResult(tool, a) = CompactTrace(a)
      BY <2>4 DEF ModelVisibleResult
    <3> QED
      BY <1>1, <2>4, <3>1, TraceTells
  <2>5. CASE tool = "find_usages"
    <3>1. ModelVisibleResult(tool, a) = CompactUsages(a)
      BY <2>5 DEF ModelVisibleResult
    <3> QED
      BY <1>1, <2>5, <3>1, UsagesTell
  <2>6. CASE tool = "suggest_refactors"
    <3>1. ModelVisibleResult(tool, a) = CompactRefactors(a)
      BY <2>6 DEF ModelVisibleResult
    <3> QED
      BY <1>1, <2>6, <3>1, RefactorsTell
  <2>7. CASE tool = "detect_dead_code"
    <3>1. ModelVisibleResult(tool, a) = CompactDeadCode(a)
      BY <2>7 DEF ModelVisibleResult
    <3> QED
      BY <1>1, <2>7, <3>1, DeadCodeTells
  <2>8. CASE tool = "explain_symbol"
    <3>1. ModelVisibleResult(tool, a) = CompactExplain(a)
      BY <2>8 DEF ModelVisibleResult
    <3> QED
      BY <1>1, <2>8, <3>1, ExplainTells
  <2>9. CASE tool = "check_index_coverage"
    <3>1. ModelVisibleResult(tool, a) = CompactCoverage(a)
      BY <2>9 DEF ModelVisibleResult
    <3> QED
      BY <1>1, <2>9, <3>1, CoverageTells
  <2>10. CASE tool = "memory_recall"
    <3>1. ModelVisibleResult(tool, a) = CompactRecall(a)
      BY <2>10 DEF ModelVisibleResult
    <3> QED
      BY <1>1, <2>10, <3>1, RecallTells
  <2>11. CASE tool = "get_architecture"
    <3>1. ModelVisibleResult(tool, a) = CompactArchitecture(a)
      BY <2>11 DEF ModelVisibleResult
    <3> QED
      BY <1>1, <2>11, <3>1, ArchitectureTells
  <2>12. CASE tool = "scan_risks"
    <3>1. ModelVisibleResult(tool, a) = CompactRisks(a)
      BY <2>12 DEF ModelVisibleResult
    <3> QED
      BY <1>1, <2>12, <3>1, RisksTell
  <2>13. CASE tool = "ingest_runtime_evidence"
    <3>1. ModelVisibleResult(tool, a) = CompactImport(a)
      BY <2>13 DEF ModelVisibleResult
    <3> QED
      BY <1>1, <2>13, <3>1, ImportTells
  <2>14. CASE tool = "status"
    <3>1. ModelVisibleResult(tool, a) = CompactStatus(a)
      BY <2>14 DEF ModelVisibleResult
    <3> QED
      BY <1>1, <2>14, <3>1, StatusTells
  <2>15. CASE tool \in GateTools
    <3>1. ModelVisibleResult(tool, a) = CompactGates(a, IF tool = "check_framework_gates" THEN Null ELSE a.gaps)
      BY <2>15 DEF ModelVisibleResult, GateTools
    <3>2. tool = "check_framework_gates" => a.gaps = 0
      BY <1>1 DEF Facts, Gapless
    <3> QED
      BY <1>1, <2>15, <3>1, <3>2, GatesTell
  <2> QED
    BY <1>2, <2>1, <2>2, <2>3, <2>4, <2>5, <2>6, <2>7, <2>8, <2>9, <2>10, <2>11, <2>12, <2>13, <2>14, <2>15
<1> QED
  BY <1>3 DEF a

(* The visible answers of the server tell the truth whenever one is made,  *)
(* for any files and limits, and however many items are found.             *)
THEOREM VisibleAnswersStayTrue == ServerSpec => []VisibleAnswersAreTrue
<1>1. VisibleAnswersAreTrue
  BY AllToolsTell DEF VisibleAnswersAreTrue
<1> QED
  BY <1>1, PTL

=============================================================================
