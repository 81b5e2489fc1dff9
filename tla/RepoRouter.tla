------------------------------- MODULE RepoRouter -------------------------------
(***************************************************************************)
(* The router of serve --multi-repo: crates/cgrx-cli/src/multi_repo.rs.    *)
(* One process serves several repositories, each with a backend of its     *)
(* own, at most MaxRepos at a time: the least recently used one makes      *)
(* place.  A backend numbers its handles from 0, so the router wraps them: *)
(* with the repository, and with the incarnation of the backend.  An agent *)
(* keeps the handles it was given, and may send each of them with every    *)
(* repository, at any time, also to the next process.                      *)
(*                                                                         *)
(* One thread serves the calls in turn, so a call is one step.  A root is  *)
(* what the path of a call canonicalizes to; paths without one are refused *)
(* before any state changes.  The worst case for handles is assumed: all   *)
(* repositories have one snapshot and all requests one query, so that the  *)
(* inner handles of two backends differ by their cursor only.              *)
(***************************************************************************)
EXTENDS Naturals, FiniteSets

CONSTANTS
  Roots,       \* canonical directories
  MaxRepos,    \* --max-repos
  MaxCalls,    \* bound: calls that a process serves
  MaxSessions, \* bound: processes
  MaxHandles,  \* bound: handles that a backend issues
  Closed

ASSUME MaxReposAssumption == MaxRepos \in 1 .. 16
ASSUME BoundsAssumption == MaxCalls \in Nat /\ MaxSessions \in Nat /\ MaxHandles \in Nat

VARIABLES
  session,  \* the process: its nonce
  clock,    \* its calls
  entries,  \* [Roots -> Entries or Closed]
  openings, \* backends opened so far, by all processes
  known,    \* the handles agents were given, and the opening each is of
  spent,    \* those that were expanded
  lastUse   \* [Roots -> Nat]: the last call of this process that reached a root

routerVars == <<session, clock, entries, openings, known, spent, lastUse>>

Incarnations == [session : Nat, at : Nat]
Handles == [repo : Roots, incarnation : Incarnations, inner : Nat]
Issued == [handle : Handles, opening : Nat]

(* opening numbers the backend, for the properties only. *)
Entries == [incarnation : Incarnations, accessed : Nat, cursor : Nat,
            expansions : SUBSET Nat, opening : Nat]

ASSUME ClosedAssumption == Closed \notin Entries

Open(r) == entries[r] # Closed
OpenRoots == {r \in Roots : Open(r)}

RouterInit ==
  /\ session = 0
  /\ clock = 0
  /\ entries = [r \in Roots |-> Closed]
  /\ openings = 0
  /\ known = {}
  /\ spent = {}
  /\ lastUse = [r \in Roots |-> 0]

-----------------------------------------------------------------------------
(* Routing *)

(* A faulty Incarnation: the process only. *)
IncarnationOfProcess(at) == [session |-> session, at |-> 0]

Incarnation(at) == [session |-> session, at |-> at]

NewEntry(at) ==
  [incarnation |-> Incarnation(at), accessed |-> at, cursor |-> 0,
   expansions |-> {}, opening |-> openings + 1]

NoPlaceLeft == Cardinality(OpenRoots) >= MaxRepos

LeastRecentlyUsed == CHOOSE r \in OpenRoots :
            \A q \in OpenRoots : entries[r].accessed <= entries[q].accessed

(* The entries when that of r has been found, or opened in the place of    *)
(* the least recently used.                                                *)
Loaded(r, at) ==
  [q \in Roots |->
    IF q = r THEN IF Open(r) THEN [entries[r] EXCEPT !.accessed = at] ELSE NewEntry(at)
    ELSE IF ~Open(r) /\ NoPlaceLeft /\ q = LeastRecentlyUsed THEN Closed ELSE entries[q]]

(* Whether unwrap_handle of an entry accepts a handle. *)
Unwraps(r, entry, handle) ==
  handle.repo = r /\ handle.incarnation = entry.incarnation

(* A faulty OpenFails: place was made for the repository before. *)
OpenFailsAfterEviction(r) ==
  /\ clock < MaxCalls
  /\ ~Open(r)
  /\ clock' = clock + 1
  /\ entries' = [Loaded(r, clock) EXCEPT ![r] = Closed]
  /\ UNCHANGED <<session, openings, known, spent, lastUse>>

(* The repository is no worktree root, cannot be indexed or is busy: the   *)
(* clock has advanced, and the entries are as before.                      *)
OpenFails(r) ==
  /\ clock < MaxCalls
  /\ ~Open(r)
  /\ clock' = clock + 1
  /\ UNCHANGED <<session, entries, openings, known, spent, lastUse>>

-----------------------------------------------------------------------------
(* Calls *)

(* The call reaches the entry of r and leaves it as entry; given are the   *)
(* inner handles of the answer, which are wrapped.                         *)
Served(r, entry, given) ==
  /\ entries' = [Loaded(r, clock + 1) EXCEPT ![r] = entry]
  /\ clock' = clock + 1
  /\ openings' = IF Open(r) THEN openings ELSE openings + 1
  /\ known' = known \cup
       {[handle |-> [repo |-> r, incarnation |-> entry.incarnation, inner |-> i],
         opening |-> entry.opening] : i \in given}
  /\ lastUse' = [lastUse EXCEPT ![r] = clock + 1]
  /\ UNCHANGED session

(* The backend refreshes first, which may drop its expansions.  Then a     *)
(* tool answers, orient perhaps with a handle for what did not fit.        *)
Call(r) ==
  LET entry == Loaded(r, clock + 1)[r] IN
  /\ clock < MaxCalls
  /\ \E kept \in {entry.expansions, {}} :
       \/ Served(r, [entry EXCEPT !.expansions = kept], {})
       \/ /\ entry.cursor < MaxHandles
          /\ Served(r, [entry EXCEPT !.expansions = kept \cup {entry.cursor},
                                     !.cursor = @ + 1], {entry.cursor})
  /\ UNCHANGED spent

(* A handle of another repository or backend, or one that the backend has  *)
(* used or dropped, is not found; or the expansion fails.  The call still  *)
(* opened the repository, and used it.                                     *)
ExpandRefused(r, handle) ==
  LET entry == Loaded(r, clock + 1)[r] IN
  /\ clock < MaxCalls
  /\ \/ Served(r, entry, {})
     \/ /\ Unwraps(r, entry, handle)
        /\ Served(r, [entry EXCEPT !.expansions = {}], {})
  /\ UNCHANGED spent

(* A handle is removed by its use; the rest may have a new one.            *)
Expand(r, handle) ==
  LET entry == Loaded(r, clock + 1)[r]
      left == entry.expansions \ {handle.inner}
  IN
  /\ clock < MaxCalls
  /\ Unwraps(r, entry, handle)
  /\ handle.inner \in entry.expansions
  /\ \/ Served(r, [entry EXCEPT !.expansions = left], {})
     \/ /\ entry.cursor < MaxHandles
        /\ Served(r, [entry EXCEPT !.expansions = left \cup {entry.cursor},
                                   !.cursor = @ + 1], {entry.cursor})
  /\ spent' = spent \cup {handle}

(* The process ends; the agents start another and keep their handles.  The *)
(* nonce is the process id and the time in nanoseconds.                    *)
Restart ==
  /\ session < MaxSessions
  /\ session' = session + 1
  /\ clock' = 0
  /\ entries' = [r \in Roots |-> Closed]
  /\ lastUse' = [r \in Roots |-> 0]
  /\ UNCHANGED <<openings, known, spent>>

RouterNext ==
  \/ \E r \in Roots :
       \/ OpenFails(r)
       \/ Call(r)
       \/ \E k \in known : ExpandRefused(r, k.handle) \/ Expand(r, k.handle)
  \/ Restart

RouterSpec == RouterInit /\ [][RouterNext]_routerVars

-----------------------------------------------------------------------------
(* Properties *)

(* Types: an entry is of this process, and was opened and used by one of   *)
(* its calls.                                                              *)
RouterTypeOK ==
  /\ session \in Nat
  /\ clock \in Nat
  /\ entries \in [Roots -> Entries \cup {Closed}]
  /\ openings \in Nat
  /\ known \subseteq Issued
  /\ spent \subseteq Handles
  /\ lastUse \in [Roots -> 0 .. clock]
  /\ \A r \in Roots : Open(r) =>
       /\ entries[r].incarnation.session = session
       /\ entries[r].incarnation.at \in 1 .. clock
       /\ entries[r].accessed \in 1 .. clock

(* Whether an expand of handle by r's backend finds something. *)
Reaches(r, handle) ==
  /\ Open(r)
  /\ Unwraps(r, entries[r], handle)
  /\ handle.inner \in entries[r].expansions

(* "Handles belong to one repository and session": whichever handle an     *)
(* agent kept, across evictions and restarts, and whichever repository it  *)
(* sends it with, what it reaches is the backend that issued it.           *)
HandlesReachTheirBackend ==
  \A k \in known, r \in Roots : Reaches(r, k.handle) => k.opening = entries[r].opening

(* An expanded handle is never found again, by any backend.                *)
HandlesAreSpentOnce == \A h \in spent, r \in Roots : ~Reaches(r, h)

(* At most --max-repos graphs are in memory, however calls fail.           *)
RepositoriesAreBounded == Cardinality(OpenRoots) <= MaxRepos

(* What was evicted was used before all that stayed: no repository that is *)
(* open was last used before one that is not.                              *)
LeastRecentlyUsedLeaves ==
  \A r, q \in Roots : Open(r) /\ ~Open(q) => lastUse[q] < lastUse[r]

(* "Open before eviction: a failed load must not destroy usable entries":  *)
(* in one process a backend leaves only when another one takes its place,  *)
(* and no more than one does.                                              *)
EvictionMakesPlace ==
  [][session' = session =>
       \A r \in Roots : Open(r) /\ entries'[r] = Closed =>
         \E q \in Roots : /\ ~Open(q)
                          /\ entries'[q] # Closed
                          /\ \A p \in Roots \ {q, r} : Open(p) <=> entries'[p] # Closed]_routerVars

(* Handles are never mistaken: not for those of another backend, and not   *)
(* for ones that are still to be used.                                     *)
HandlesAreSound == HandlesReachTheirBackend /\ HandlesAreSpentOnce

(* Of the open repositories only as many as must leave, for another one,   *)
(* and those used least recently.                                          *)
EvictionIsSound ==
  /\ [](RepositoriesAreBounded /\ LeastRecentlyUsedLeaves)
  /\ EvictionMakesPlace

=============================================================================
