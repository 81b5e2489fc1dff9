----------------------------- MODULE MCMemoryStore -----------------------------
(* Model-checking instance of MemoryStore: decision 2 expires at time 1,   *)
(* the others stay; each is more confident than the one before it, so the  *)
(* best is the last that is read, and a recall asks for confidence 2.      *)
EXTENDS MemoryStore

Symmetry == Permutations(Procs)

MCConfidence == [id \in Ids |-> id]
MCDeadline == [id \in Ids |-> IF id = 2 THEN 1 ELSE None]
=============================================================================
