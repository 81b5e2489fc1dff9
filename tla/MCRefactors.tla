------------------------------- MODULE MCRefactors -------------------------------
(* Model-checking instance of Refactors: three graphs, two of one snapshot *)
(* identity; the second is past the document budget, the third past the    *)
(* limit of the index.                                                     *)
EXTENDS Refactors

CONSTANTS f1, f2, s1, s2

Word(is) == [kind |-> "word", is |-> is]
Mark(is) == [kind |-> "mark", is |-> is]
Comment == [kind |-> "comment", is |-> "text"]
Number == [kind |-> "literal", is |-> "1"]

Header(name) == <<Word("fn"), Word(name), Mark("("), Word("a"), Mark(")"), Mark("{")>>
Call(name) == <<Word(name), Mark("("), Word("a"), Mark(")"), Mark(";")>>
Branch == <<Word("if"), Word("a"), Mark("{"), Word("return"), Number, Mark("}")>>

Plain(name) == Header(name) \o Call("save") \o <<Mark("}")>>
Commented(name) == <<Comment>> \o Plain(name)
Longer(name) == Header(name) \o Call("save") \o Call("log") \o <<Mark("}")>>
Branching(name) == Header(name) \o Branch \o Call("save") \o <<Mark("}")>>
Tiny(name) == <<Word("fn"), Word(name), Mark("("), Mark(")"), Mark("{"), Mark("}")>>
Brief(name) == <<Word("fn"), Word(name), Mark("("), Mark(")"), Mark("{"), Word("a"), Mark("}")>>
Data == <<Word("struct"), Word("Entry"), Mark("{"), Word("a"), Mark(":"), Word("u"), Mark(";"), Mark("}")>>

Symbol(id, path, text, meaning) ==
  [id |-> id, path |-> path, start |-> id, lang |-> "rust", text |-> text, meaning |-> meaning]
Link(place, source, target, kind, path, proved) ==
  [place |-> place, source |-> source, target |-> target, kind |-> kind, path |-> path, proved |-> proved]

(* Two copies, a longer one and a callee; an import and a call of a copy;  *)
(* a text too short to be compared, next to one that is just long enough.  *)
Small ==
  [docs |-> {Symbol(1, 1, Plain("x"), f1), Symbol(2, 1, Commented("y"), f1),
             Symbol(3, 2, Longer("z"), f2), Symbol(4, 2, Data, None),
             Symbol(5, 3, Brief("b"), None), Symbol(6, 3, <<Word("pub")>> \o Brief("c"), None)},
   imports |-> {[id |-> 9, path |-> 2]},
   arcs |-> {Link(1, 1, 4, "CALLS", 1, TRUE), Link(2, 2, 4, "CALLS", 1, TRUE), Link(3, 3, 2, "CALLS", 2, TRUE),
             Link(4, 9, 2, "IMPORTS", 2, TRUE), Link(5, 2, 4, "CALLS", 1, TRUE), Link(6, 3, 1, "CALLS", 2, FALSE),
             Link(7, 5, 3, "CALLS", 3, TRUE), Link(8, 6, 3, "CALLS", 3, TRUE)},
   observed |-> {[source |-> 3, target |-> 2, count |-> 60]},
   gaps |-> FALSE]

(* The same snapshot, whose second function was rewritten, and others. *)
Rewritten ==
  [docs |-> {Symbol(1, 1, Plain("x"), f1), Symbol(2, 1, Branching("y"), f2),
             Symbol(3, 2, Longer("z"), f2), Symbol(4, 2, Tiny("t"), None), Symbol(5, 3, Plain("u"), f1)},
   imports |-> {},
   arcs |-> {Link(1, 1, 4, "CALLS", 1, TRUE), Link(2, 2, 4, "CALLS", 1, TRUE), Link(3, 3, 4, "CALLS", 2, TRUE),
             Link(4, 5, 1, "REFERENCES", 3, TRUE), Link(5, 2, 5, "CALLS", 1, TRUE)},
   observed |-> {[source |-> 2, target |-> 5, count |-> 200], [source |-> 4, target |-> 5, count |-> 1]},
   gaps |-> FALSE]

Large ==
  [docs |-> {Symbol(i, 1, Plain("x"), f1) : i \in 1 .. 3} \cup {Symbol(i, 2, Longer("y"), f2) : i \in 4 .. 6},
   imports |-> {},
   arcs |-> {Link(i, i, 6, "CALLS", 1, TRUE) : i \in 1 .. 3},
   observed |-> {},
   gaps |-> TRUE]

MCInputs == {Small, Rewritten, Large}
MCSnapshotOf == [input \in MCInputs |-> IF input = Large THEN s2 ELSE s1]

MCScopes ==
  {[paths |-> {1, 2, 3}, relations |-> {"CALLS"}], [paths |-> {1}, relations |-> {"CALLS"}],
   [paths |-> {1, 2, 3}, relations |-> {"CALLS", "REFERENCES", "IMPLEMENTS", "IMPORTS"}]}

(* Each scope with and without a limit and budgets, and with a high score. *)
MCRequests ==
  {[scope |-> s, lang |-> None, min_score |-> a[1], limit |-> a[2], max_documents |-> a[3], max_pairs |-> a[3]] :
     s \in MCScopes, a \in {<<500, 1, 0>>, <<500, 1, 2>>, <<500, 10, 0>>, <<500, 10, 2>>, <<800, 10, 0>>}}
=============================================================================
