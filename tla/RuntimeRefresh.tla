----------------------------- MODULE RuntimeRefresh -----------------------------
(***************************************************************************)
(* The in-memory graph of a runtime and Runtime::refresh, which brings it  *)
(* up to date with the working tree: crates/cgrx-cli/src/runtime.rs.  The  *)
(* files are edited, and HEAD moves, while refresh looks at them one by    *)
(* one.  A file is abstracted to its text and the stamp of its last write, *)
(* an extracted graph to the texts it was extracted from, and a digest to  *)
(* what it digests.  Every path is a source file of a language pack.       *)
(***************************************************************************)
EXTENDS Naturals

CONSTANTS
  Paths,     \* source files
  Texts,     \* what a file can contain
  Revs,      \* revisions
  Committed, \* [Revs -> [Paths -> Texts or None]]: the tree of each revision
  MaxEdits,  \* bound: edits, commits and checkouts in a behaviour
  None       \* no file, no value

Trees == [Paths -> Texts \cup {None}]

ASSUME CommittedAssumption == Committed \in [Revs -> Trees] /\ None \notin Texts
ASSUME MaxEditsAssumption == MaxEdits \in Nat

VARIABLES
  head,   \* the revision HEAD names
  work,   \* the working tree
  stamp,  \* [Paths -> Nat]: what source_fingerprint tells of a file
  edits,  \* edits so far
  rt,     \* the runtime
  call,   \* the call of refresh in progress, or at rest, with its result
  seen,   \* [Paths -> texts the file had since the call read git status]
  failed  \* a refresh of this runtime returned an error midway

tree == <<head, work, stamp, edits>>
vars == <<tree, rt, call, seen, failed>>

(* working_tree_digest: a digest of the paths that differ from the base.   *)
Snapshots == [rev : Revs, diff : SUBSET (Paths \X (Texts \cup {None}))]

(* None is no number, revision, tree or snapshot.                          *)
ASSUME NoneAssumption == None \notin Nat \cup Revs \cup Trees \cup Snapshots

(* What differs from the base, and how.                                    *)
Diff(base, files) == {<<p, files[p]>> : p \in {q \in Paths : base[q] # files[q]}}

(* The sources the documents come from are hashes; the sources the arcs    *)
(* were rebuilt from are arcs.                                             *)
Runtime == [base : Trees, hashes : Trees, arcs : Trees, snapshot : Snapshots,
            fingerprints : [Paths -> 0 .. MaxEdits \cup {None}]]

ChangedPaths == {e[1] : e \in rt.snapshot.diff}

(* Runtime::open of a generation. *)
Opened(rev, files) ==
  [base |-> files, hashes |-> files, arcs |-> files,
   snapshot |-> [rev |-> rev, diff |-> {}],
   fingerprints |-> [p \in Paths |-> None]]

Calls == [at : {"rest", "status", "examine", "read"}, todo : SUBSET Paths,
          path : Paths \cup {None}, stamp : 0 .. MaxEdits \cup {None}, normalize : BOOLEAN,
          result : {"none", "same", "changed", "error", "revision_changed"}]

Ended(result) ==
  [at |-> "rest", todo |-> {}, path |-> None, stamp |-> None, normalize |-> FALSE,
   result |-> result]

Begun == [Ended("none") EXCEPT !.at = "status"]

At(stage) == call.at = stage

RefreshInit ==
  /\ head \in Revs
  /\ work = Committed[head]
  /\ stamp = [p \in Paths |-> 0]
  /\ edits = 0
  /\ rt = Opened(head, Committed[head])
  /\ call = Ended("none")
  /\ seen = [p \in Paths |-> {}]
  /\ failed = FALSE

-----------------------------------------------------------------------------
(* The working tree *)

Write(newHead, newWork, written) ==
  /\ edits < MaxEdits
  /\ head' = newHead
  /\ work' = newWork
  /\ stamp' = [p \in Paths |-> IF p \in written THEN edits + 1 ELSE stamp[p]]
  /\ edits' = edits + 1
  /\ seen' = [p \in Paths |-> seen[p] \cup {newWork[p]}]
  /\ UNCHANGED <<rt, call, failed>>

(* A file is written, rewritten or deleted. *)
Edit(p, text) ==
  /\ work[p] # None \/ text # None
  /\ Write(head, [work EXCEPT ![p] = text], {p})

(* git commit -a. *)
Commit(r) ==
  /\ r # head
  /\ Committed[r] = work
  /\ Write(r, work, {})

(* git checkout: a file with changes stays, and must be the same in both.  *)
Checkout(r) ==
  LET edited == {p \in Paths : work[p] # Committed[head][p]}
      written == {p \in Paths \ edited : work[p] # Committed[r][p]}
  IN
  /\ r # head
  /\ \A p \in edited : Committed[r][p] = Committed[head][p]
  /\ Write(r, [p \in Paths |-> IF p \in edited THEN work[p] ELSE Committed[r][p]], written)

-----------------------------------------------------------------------------
(* refresh *)

(* A faulty ReadStatus: paths changed before are no candidates. *)
ReadStatusOnly ==
  /\ At("status")
  /\ \/ /\ head # rt.snapshot.rev
        /\ call' = Ended("revision_changed")
     \/ /\ head = rt.snapshot.rev
        /\ call' = [call EXCEPT !.at = "examine", !.todo = {p \in Paths : work[p] # Committed[head][p]}]
  /\ seen' = [p \in Paths |-> {work[p]}]
  /\ UNCHANGED <<tree, rt, failed>>

(* git status: HEAD, and the paths that differ from it.  They and the      *)
(* paths that differed when the graph was last normalized are candidates.  *)
ReadStatus ==
  /\ At("status")
  /\ \/ /\ head # rt.snapshot.rev
        /\ call' = Ended("revision_changed")
     \/ /\ head = rt.snapshot.rev
        /\ call' = [call EXCEPT !.at = "examine",
                                !.todo = ChangedPaths \cup {p \in Paths : work[p] # Committed[head][p]}]
  /\ seen' = [p \in Paths |-> {work[p]}]
  /\ UNCHANGED <<tree, rt, failed>>

(* A candidate that is gone leaves the graph; one whose fingerprint is the *)
(* one last read is skipped.                                               *)
ExaminePath(p) ==
  LET unchanged == rt.fingerprints[p] = stamp[p] /\ rt.hashes[p] # None IN
  /\ At("examine")
  /\ p \in call.todo
  /\ \/ /\ work[p] = None
        /\ rt' = [rt EXCEPT !.fingerprints[p] = None, !.hashes[p] = None]
        /\ call' = [call EXCEPT !.todo = @ \ {p}, !.normalize = @ \/ rt.hashes[p] # None]
     \/ /\ work[p] # None
        /\ unchanged
        /\ call' = [call EXCEPT !.todo = @ \ {p}]
        /\ UNCHANGED rt
     \/ /\ work[p] # None
        /\ ~unchanged
        /\ call' = [call EXCEPT !.at = "read", !.path = p, !.stamp = stamp[p]]
        /\ UNCHANGED rt
  /\ UNCHANGED <<tree, seen, failed>>

(* The file is read: it may have been written since, or be gone, and that  *)
(* ends the call with whatever it did to the graph before.                 *)
ReadPath ==
  LET p == call.path
      next == [call EXCEPT !.at = "examine", !.todo = @ \ {p}, !.path = None, !.stamp = None]
  IN
  /\ At("read")
  /\ \/ /\ work[p] = None
        /\ call' = Ended("error")
        /\ failed' = TRUE
        /\ UNCHANGED rt
     \/ /\ work[p] # None
        /\ rt' = [rt EXCEPT !.fingerprints[p] = call.stamp, !.hashes[p] = work[p]]
        /\ call' = [next EXCEPT !.normalize = @ \/ rt.hashes[p] # work[p]]
        /\ UNCHANGED failed
  /\ UNCHANGED <<tree, seen>>

(* Only if a path changed the graph: the arcs are rebuilt and the snapshot *)
(* renamed after what differs from the base.                               *)
FinishRefresh ==
  LET snapshot == [rt.snapshot EXCEPT !.diff = Diff(rt.base, rt.hashes)] IN
  /\ At("examine")
  /\ call.todo = {}
  /\ \/ /\ call.normalize
        /\ rt' = [rt EXCEPT !.arcs = rt.hashes, !.snapshot = snapshot]
        /\ call' = Ended(IF snapshot # rt.snapshot THEN "changed" ELSE "same")
     \/ /\ ~call.normalize
        /\ call' = Ended("same")
        /\ UNCHANGED rt
  /\ UNCHANGED <<tree, seen, failed>>

Environment ==
  \/ \E p \in Paths, text \in Texts \cup {None} : Edit(p, text)
  \/ \E r \in Revs : Commit(r) \/ Checkout(r)

RefreshStep == ReadStatus \/ (\E p \in Paths : ExaminePath(p)) \/ ReadPath \/ FinishRefresh

-----------------------------------------------------------------------------
(* Properties *)

RefreshTypeOK ==
  /\ head \in Revs
  /\ work \in Trees
  /\ stamp \in [Paths -> 0 .. MaxEdits]
  /\ edits \in 0 .. MaxEdits
  /\ rt \in Runtime
  /\ call \in Calls
  /\ seen \in [Paths -> SUBSET (Texts \cup {None})]
  /\ failed \in BOOLEAN
=============================================================================
