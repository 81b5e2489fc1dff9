-------------------------------- MODULE Sorting --------------------------------
(***************************************************************************)
(* The sorted vectors and trees that the modules of a graph list.          *)
(***************************************************************************)
EXTENDS Integers, FiniteSets

(* sort_by: a set in the order of a strict total order. *)
InOrder(S, Before(_, _)) ==
  LET placed == {<<Cardinality({y \in S : Before(y, x)}) + 1, x>> : x \in S}
  IN  [n \in 1 .. Cardinality(S) |-> (CHOOSE p \in placed : p[1] = n)[2]]
=============================================================================
