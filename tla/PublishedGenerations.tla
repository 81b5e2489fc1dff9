-------------------------- MODULE PublishedGenerations --------------------------
(***************************************************************************)
(* What the durable generation store promises its readers, without files,  *)
(* locks or directories.  A generation is installed once, complete, and    *)
(* never changes; CURRENT names an installed generation; a loss of power   *)
(* undoes only what was not yet made durable, and never leaves CURRENT     *)
(* naming a generation that is gone.  GenerationStore implements it.       *)
(***************************************************************************)
CONSTANTS
  Gens,      \* generation identifiers
  Contents,  \* what an indexing run can produce for a generation
  None       \* no value

VARIABLES
  installed,   \* [Gens -> Contents or None]: the generations a reader can open
  hardened,    \* the installed generations that survive a loss of power
  pointer,     \* the generation CURRENT names, or None
  safePointer  \* the generation CURRENT names after a loss of power, at worst

vars == <<installed, hardened, pointer, safePointer>>

Init ==
  /\ installed = [g \in Gens |-> None]
  /\ hardened = {}
  /\ pointer = None
  /\ safePointer = None

(* A complete generation appears under a name that was free. *)
Install(g, c) ==
  /\ installed[g] = None
  /\ installed' = [installed EXCEPT ![g] = c]
  /\ UNCHANGED <<hardened, pointer, safePointer>>

(* Every installed generation becomes durable. *)
Harden ==
  /\ hardened' = {g \in Gens : installed[g] # None}
  /\ UNCHANGED <<installed, pointer, safePointer>>

(* CURRENT moves, in one step, to a generation that is already durable. *)
Point(g) ==
  /\ g \in hardened
  /\ pointer' = g
  /\ UNCHANGED <<installed, hardened, safePointer>>

(* The last move of CURRENT becomes durable. *)
HardenPointer ==
  /\ safePointer' = pointer
  /\ UNCHANGED <<installed, hardened, pointer>>

(* Power is lost: CURRENT and each name keep their last or their durable state. *)
Lose ==
  /\ \E kept \in SUBSET Gens :
       /\ hardened \subseteq kept
       /\ installed' = [g \in Gens |-> IF g \in kept THEN installed[g] ELSE None]
  /\ pointer' \in {pointer, safePointer}
  /\ safePointer' = pointer'
  /\ hardened' = {g \in Gens : installed'[g] # None}

Next ==
  \/ \E g \in Gens, c \in Contents : Install(g, c)
  \/ Harden
  \/ \E g \in Gens : Point(g)
  \/ HardenPointer
  \/ Lose

Spec == Init /\ [][Next]_vars
=============================================================================
