--------------------------- MODULE MCRuntimeEvidence ---------------------------
(* Model-checking instance of RuntimeEvidence.  Batch b1 is older than b2, *)
(* both of revision r1, and b3 of r2 is as old as b2.  Graph t1 has two    *)
(* overloads of A.run; in t2 one is gone and C.run is new.  b1 is a file of*)
(* spans, b2 tells of one call in two ways and, by name alone, of a third. *)
EXTENDS RuntimeEvidence

CONSTANTS b1, b2, b3, r1, r2, t1, t2, e1, e2, f, g, A, B, C, run, go, p1, p2

Workers == Permutations({p1, p2})

MCRevision == [id \in Ids |-> IF id = b3 THEN r2 ELSE r1]
MCLastSeen == [id \in Ids |-> IF id = b1 THEN 1 ELSE 2]
MCEnvironment == [id \in Ids |-> IF id = b2 THEN e2 ELSE e1]

Name(owner, last) == [owner |-> owner, last |-> last]
Doc(node, path, function, lines) == [node |-> node, path |-> path, function |-> function, lines |-> lines]

MCDocuments ==
  t1 :> << Doc(1, f, Name(A, run), {1}), Doc(2, f, Name(A, run), {2}), Doc(3, g, Name(B, go), {1}) >> @@
  t2 :> << Doc(1, f, Name(A, run), {1}), Doc(3, g, Name(B, go), {1}), Doc(4, g, Name(C, run), {2}) >>
MCLines == [t \in Trees |-> [path \in {f, g} |-> 2]]
MCStaticCalls == t1 :> {<<1, 3>>} @@ t2 :> {<<1, 3>>, <<3, 4>>}

End(function, path, line) == [function |-> function, path |-> path, line |-> line]
Span(span, parent, endpoint) == [span |-> span, parent |-> parent, endpoint |-> endpoint]
Row(caller, callee, count) == [caller |-> caller, callee |-> callee, count |-> count]

MCInput ==
  [id \in Ids |->
     IF id = b1
     THEN [spans |-> << Span(1, None, End(Name(A, run), f, 1)), Span(2, 1, End(Name(C, go), None, None)),
                        Span(3, 2, End(Name(A, run), f, 2)) >>]
     ELSE IF id = b2
     THEN [rows |-> << Row(End(Name(A, run), f, 1), End(Name(B, go), g, 1), 1),
                       Row(End(Name(A, run), f, 1), End(Name(B, go), g, 1), 1),
                       Row(End(Name(A, run), f, 1), End(Name(B, go), None, None), 1),
                       Row(End(Name(A, run), f, None), End(Name(B, go), g, 1), 1) >>]
     ELSE [rows |-> << Row(End(Name(B, go), g, 1), End(Name(B, go), g, 1), 1),
                       Row(End(Name(B, go), g, 1), End(Name(C, C), None, None), 1) >>]]
=============================================================================
