-------------------------------- MODULE MCOrient --------------------------------
(***************************************************************************)
(* Model-checking instance of Orient.  File 1 declares pay and refund, the *)
(* second calling the first; file 2 is a test that declares a pay of its   *)
(* own and calls both; each call may be missing.  File 3, in a directory   *)
(* of its own, is joined to nothing.  Requests take each of the ways a     *)
(* task selects evidence.                                                  *)
(***************************************************************************)
EXTENDS Orient

D(name, span) == [name |-> name, span |-> span]
MCDeclares == [t |-> <<D("pay", 1), D("refund", 2)>>, u |-> <<D("pay", 1), D("page", 2)>>]
Edge(relation, span, target) == [relation |-> relation, span |-> span, target |-> target]
MCRelates == [t |-> <<Edge("Calls", 3, "pay")>>,
              u |-> <<Edge("Calls", 3, "pay"), Edge("Calls", 4, "page"), Edge("References", 3, "pay")>>]
MCDoubts == [t |-> <<>>, u |-> <<"dispatch">>]
Arc(source, target) == [kind |-> "Calls", source |-> source, target |-> target]
MCResolved == [t |-> {Arc(<<1, D("refund", 2)>>, <<1, D("pay", 1)>>), Arc(<<2, D("pay", 1)>>, <<1, D("refund", 2)>>)},
               u |-> {Arc(<<3, D("page", 2)>>, <<1, D("pay", 1)>>)}]
MCNumber == [pay |-> 1, refund |-> 2, page |-> 3]
MCTree == <<"t", "t", "u">>

MCWordsOf == [pay |-> {"pay"}, refund |-> {"refund", "pay"}, page |-> {"page"}]
MCSpelled == <<<<"s", "/", "a">>, <<"s", "/", "b">>, <<"s", "/", "c", "/", "a">>>>
MCProfile == [k |-> 60, max |-> 50, weight |-> [exact |-> 4, bm25 |-> 1, graph |-> 2, structural |-> 3]]

TagsOf(kind) == CASE kind = "CALLS" -> {"EXACT_CALL", "STATEMENT_CALL"}
                  [] kind = "ROUTE_HANDLER" -> {"DYNAMIC_DISPATCH", "WORKER"}
                  [] OTHER -> {}
Doc(path, span, name, kind, words) ==
  [id |-> NodeId(path, D(name, span)), path |-> path, span |-> span, name |-> name, kind |-> kind, words |-> words,
   body |-> <<path, span>>, tags |-> TagsOf(kind),
   stems |-> words \cup MCWordsOf[name], test |-> path = 2, long |-> IF name = "refund" THEN 6 ELSE 3 + (span % 2)]
MCDocuments ==
  <<Doc(1, 1, "pay", "SYNTAX", {"card"}), Doc(1, 2, "refund", "SYNTAX", {"card", "ledger"}),
    Doc(2, 1, "pay", "SYNTAX", {"ledger"}), Doc(2, 3, "refund", "CALLS", {"card"}),
    Doc(3, 2, "page", "SYNTAX", {"ledger"}), Doc(3, 3, "page", "ROUTE_HANDLER", {})>>
Call(path, source, target) == [kind |-> "Calls", source |-> source, target |-> target, path |-> path]
MCGraphs ==
  [documents : {MCDocuments},
   arcs : SUBSET {Call(1, 122, 111), Call(2, 211, 111), Call(2, 211, 122)},
   coverage : {[excluded |-> {}, parser |-> {[path |-> 1]}, stale |-> {}, dispatch |-> {[path |-> 3, site |-> 1]},
                truncated |-> FALSE]}]

Task == [name |-> "nothing", words |-> {}, exact |-> {}, folded |-> {}, symbolic |-> FALSE, intents |-> {},
         stems |-> {}, class |-> "Locate"]
All == [include |-> {}, exclude |-> {}, kinds |-> {"Calls"}, depth |-> 1]
Request(task, scope) == [task |-> task, scope |-> scope]
MCRequests ==
  {Request([Task EXCEPT !.exact = {"pay"}, !.folded = {"pay"}, !.symbolic = TRUE], All),
   Request([Task EXCEPT !.exact = {"page"}, !.symbolic = TRUE, !.class = "Impact"], [All EXCEPT !.depth = 2]),
   Request([Task EXCEPT !.words = {"card", "ledger"}, !.class = "Trace"], [All EXCEPT !.kinds = {"References"}]),
   Request([Task EXCEPT !.name = "refund", !.words = {"refund", "pay", "ledger"}],
           [All EXCEPT !.exclude = {<<"s", "/", "?">>}, !.include = {<<"s", "/">>}]),
   Request([Task EXCEPT !.words = {"ledger", "page"}, !.name = "pay"], [All EXCEPT !.kinds = {}, !.exclude = {<<"*", "/", "b">>}]),
   Request([Task EXCEPT !.intents = {"BoundedDepth"}], All),
   Request([Task EXCEPT !.intents = {"Implementations"}], All),
   Request([Task EXCEPT !.intents = {"Implementations", "DynamicDispatch"}, !.stems = {"card", "ledger", "pay"}],
           [All EXCEPT !.depth = 2]),
   Request([Task EXCEPT !.intents = {"DecoratedRoute"}], [All EXCEPT !.include = {<<"s", "/", "*", "*", "/", "a">>}])}

(* Two of the records are cheaper together than apart. *)
MCTokens(ids) ==
  1 + Cardinality(ids) + Cardinality(ids \cap {122, 211}) - (IF {111, 122} \subseteq ids THEN 1 ELSE 0)
=============================================================================
