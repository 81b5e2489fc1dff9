------------------------------ MODULE MCRepoRouter ------------------------------
(* RepoRouter for TLC: three repositories, two of them open at a time.     *)
EXTENDS RepoRouter, TLC

CONSTANTS alpha, beta, gamma

MCRoots == {alpha, beta, gamma}

(* Calls do not tell repositories apart but by when they were used. *)
Symmetry == Permutations(MCRoots)
=============================================================================
