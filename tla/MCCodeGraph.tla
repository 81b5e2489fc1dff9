------------------------------ MODULE MCCodeGraph ------------------------------
(***************************************************************************)
(* Model-checking instance of CodeGraph.  File 1 is a library: f and g,    *)
(* where g calls f, or one declaration f around F with recursion.  File 2  *)
(* uses it: an import of f and calls through it, by name and by proof, or  *)
(* a function f of its own with dynamic sites within each other.  File 3,  *)
(* which nobody edits, calls its own method through its receiver and f by  *)
(* its name.                                                               *)
(***************************************************************************)
EXTENDS CodeGraph

Item(kind, name, span) ==
  [kind |-> kind, name |-> name, span |-> span, body |-> span, bind |-> "none", from |-> 1,
   target |-> name, proof |-> Nothing, tracked |-> FALSE, dynamic |-> FALSE, named |-> FALSE,
   tag |-> Nothing, qualifier |-> Nothing,
   id |-> 100 * span[1] + 10 * span[2] + (IF kind = "SYNTAX" THEN 1 ELSE IF kind = "CALLS" THEN 2 ELSE 3)]
Def(name, span, body) == [Item("SYNTAX", name, span) EXCEPT !.body = body]
Call(name, span) == [Item("CALLS", name, span) EXCEPT !.bind = "name"]
Tracked(item) == [item EXCEPT !.tracked = TRUE]
Proof(bind, item, caller, target) ==
  [Tracked(item) EXCEPT !.bind = bind,
     !.proof = [caller |-> caller, target |-> target, owner |-> target, symbol |-> item.name,
                callerImplementation |-> <<0, 9>>, implementation |-> <<0, 9>>]]

MCParse ==
  [lib |-> <<Def("f", <<1, 2>>, <<1, 4>>), Def("g", <<5, 6>>, <<5, 9>>), Call("f", <<7, 9>>),
             Item("REFERENCES", "f", <<7, 8>>)>>,
   nest |-> <<Def("f", <<1, 2>>, <<1, 9>>), Def("F", <<3, 4>>, <<3, 7>>), Call("F", <<5, 6>>),
              Call("f", <<8, 9>>), Call("f", <<8, 9>>)>>,
   use |-> <<[Tracked(Item("IMPORTS", "f", <<0, 1>>)) EXCEPT !.bind = "export", !.named = TRUE],
             Def("h", <<2, 3>>, <<2, 9>>),
             Proof("export", Call("f", <<4, 5>>), <<2, 3>>, <<1, 2>>),
             Proof("TS_CONSTRUCTOR_CALL", Call("h", <<6, 7>>), <<2, 3>>, <<2, 3>>),
             Proof("export", Item("REFERENCES", "f", <<7, 8>>), <<2, 3>>, <<1, 2>>),
             Call("g", <<8, 9>>)>>,
   dyn |-> <<Def("f", <<1, 2>>, <<1, 9>>),
             [Tracked(Call("f", <<3, 8>>)) EXCEPT !.dynamic = TRUE],
             [Tracked(Call("k", <<4, 7>>)) EXCEPT !.dynamic = TRUE],
             [Tracked(Call("k", <<5, 6>>)) EXCEPT !.dynamic = TRUE]>>,
   own |-> <<Def("m", <<1, 2>>, <<1, 8>>),
             Proof("RUST_SELF_CALL", Call("m", <<3, 4>>), <<1, 2>>, <<1, 2>>), Call("f", <<5, 6>>)>>]

MCTextsOf == <<{"lib", "nest"}, {"use", "dyn", Nothing}, {"own"}>>
MCFold == [f |-> "f", F |-> "f", g |-> "g", h |-> "h", k |-> "k", m |-> "m"]
MCRank == [f |-> [f |-> 0, F |-> 0, g |-> 1, h |-> 1, k |-> Nothing, m |-> Nothing]]
MCBase == <<"lib", "use", "own">>
=============================================================================
