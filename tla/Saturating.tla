------------------------------- MODULE Saturating -------------------------------
(* Arithmetic of unsigned numbers that saturates: min and saturating_sub.  *)
EXTENDS Naturals

Lesser(m, n) == IF m < n THEN m ELSE n
Minus(m, n) == IF m > n THEN m - n ELSE 0
=============================================================================
