---------------------------- MODULE MCCgcrEngine ----------------------------
(* Model-checking instance of CgcrEngine: two counterexamples that share an*)
(* obligation, two kinds of probe, and records of different size.          *)
EXTENDS CgcrEngine

CONSTANTS o1, o2, parse, scan, x, y, small, large

MCAbout == [c \in {x, y} |-> IF c = x THEN {o1, o2} ELSE {o2}]
MCAllowed == [c \in {x, y} |-> {parse, scan}]
MCCost == [k \in {parse, scan} |-> IF k = parse THEN [bytes |-> 1, tokens |-> 1] ELSE [bytes |-> 2, tokens |-> 2]]
MCWeight == [k \in {parse, scan} |-> IF k = parse THEN 2 ELSE 3]
MCTokens == [S \in SUBSET {small, large} |->
  Cardinality(S) + (IF large \in S THEN 2 ELSE 0)]
MCBudget == [bytes |-> 6, tokens |-> 3]
=============================================================================
