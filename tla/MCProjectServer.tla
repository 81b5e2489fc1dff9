----------------------------- MODULE MCProjectServer -----------------------------
(* Model-checking instance of ProjectServer: its constants are model values*)
(* and small numbers, and what is alike may be exchanged.                  *)
EXTENDS ProjectServer

Symmetry ==
  Permutations(Projects) \cup Permutations(Slots)
    \cup Permutations(Snapshots) \cup Permutations(Conns)
=============================================================================
