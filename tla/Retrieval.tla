------------------------------- MODULE Retrieval -------------------------------
(***************************************************************************)
(* Retrieval of the candidates for a task, cgrx-retrieval: the lanes for   *)
(* an exact name, for text, for the graph and for structure, and their     *)
(* fusion by reciprocal rank.  Documents are [id, path, span, name, words, *)
(* body]; a task has the name it spells, if it spells one, and its words.  *)
(***************************************************************************)
EXTENDS EvidencePacker

CONSTANTS
  WordsOf,       \* [Names -> set of words]: identifier_tokens of a name
  Spelled,       \* [Paths -> the path's characters]
  Profile,       \* FusionProfile: rrf_k, weights of the lanes, max_candidates
  Hybrid,        \* CGRX_HYBRID: the structural lane is on
  RootLimit,     \* text hits to start from when no name is exact
  Nothing        \* no name, no body

Lanes == {"exact", "bm25", "graph", "structural"}
ASSUME ProfileAssumption == Profile.max \in Nat /\ Profile.k \in Nat /\ \A l \in Lanes : Profile.weight[l] \in Nat

Hit(id, score) == [id |-> id, score |-> score]
ByScore(a, b) == a.score > b.score \/ (a.score = b.score /\ a.id < b.id)
Hits(documents, score) ==
  Ordered({Hit(d.id, score[d]) : d \in {d \in ToSet(documents) : score[d] > 0}}, ByScore)

(* exact.rs *)
ExactRank(task, documents) ==
  Hits(documents, [d \in ToSet(documents) |-> IF task.name # Nothing /\ d.name = task.name THEN 1000000 ELSE 0])

(* bm25.rs, its weight of a word the same for all.                         *)
TextRank(task, documents) ==
  Hits(documents, [d \in ToSet(documents) |->
                     Cardinality(task.words \cap (WordsOf[d.name] \cup d.words)) * 1000000])

(* target_body of structural.rs: the body of the document whose name the   *)
(* task spells or contains most of, if there is one such body.             *)
TargetBody(task, documents) ==
  LET Specificity(d) == (IF d.name = task.name THEN 100 ELSE 0) + Cardinality(WordsOf[d.name])
      named == {d \in ToSet(documents) : WordsOf[d.name] # {} /\ (d.name = task.name \/ WordsOf[d.name] \subseteq task.words)}
      best == {d \in named : \A e \in named : Specificity(e) <= Specificity(d)}
  IN  IF Cardinality({d.body : d \in best}) = 1 THEN (CHOOSE d \in best : TRUE).body ELSE Nothing

(* 0.6 recall and 0.4 precision of n words of a name, of which c are among *)
(* the q of the task, rounded.                                             *)
Similarity(q, n, c) ==
  IF n = 0 THEN 0 ELSE (2 * c * (420000 * n + 280000 * q) + q * n) \div (2 * q * n)

(* As much again for an equal body as names may fall short of.             *)
StructuralRank(task, documents) ==
  LET target == TargetBody(task, documents)
      q == Cardinality(task.words)
      Names(d) == Similarity(q, Cardinality(WordsOf[d.name]), Cardinality(task.words \cap WordsOf[d.name]))
      Bodies(d) == IF WordsOf[d.name] # {} /\ target # Nothing /\ d.body = target THEN 300000 ELSE 0
  IN  IF q = 0 THEN <<>> ELSE Hits(documents, [d \in ToSet(documents) |-> Names(d) + Bodies(d)])

(* The documents a hop comes to, in the order of their paths.              *)
HitsOfHop(documents, frontier, h) ==
  LET PathOf(id) == (CHOOSE d \in ToSet(documents) : d.id = id).path
      Before(x, y) == PathOf(x) < PathOf(y) \/ (PathOf(x) = PathOf(y) /\ x < y)
      found == Ordered(frontier, Before)
  IN  [i \in DOMAIN found |-> Hit(found[i], 1000000 \div h)]

(* graph_rank: what the roots reach over arcs of the kinds, hop by hop, and*)
(* whether the bound left something ahead.                                 *)
GraphRank(roots, documents, arcs, scope) ==
  LET After(frontier) ==
        {a.target : a \in {a \in arcs : a.kind \in scope.kinds /\ a.source \in frontier}}
          \cap {d.id : d \in ToSet(documents)}
      hop[h \in 0 .. scope.depth] ==
        IF h = 0 THEN [visited |-> roots, frontier |-> roots]
        ELSE LET last == hop[h - 1]
                 next == After(last.frontier) \ last.visited
             IN  [visited |-> last.visited \cup next, frontier |-> next]
      hits[h \in 0 .. scope.depth] ==
        IF h = 0 THEN <<>> ELSE hits[h - 1] \o HitsOfHop(documents, hop[h].frontier, h)
  IN  [hits |-> hits[scope.depth],
       truncated |-> After(hop[scope.depth].frontier) \ hop[scope.depth].visited # {}]

(* add_lane: what the lanes say of a document, which each lists once.      *)
Scores(lanes, id) ==
  LET Places(l) == {i \in DOMAIN lanes[l] : lanes[l][i].id = id}
      Place(l) == CHOOSE i \in Places(l) : TRUE
      Raw(l) == IF Places(l) = {} THEN 0 ELSE lanes[l][Place(l)].score
      Rank(l) == IF Places(l) = {} THEN 0 ELSE (Profile.weight[l] * 1000000) \div (Profile.k + Place(l))
  IN  [exact |-> Raw("exact"), bm25 |-> Raw("bm25"), graph |-> Raw("graph"), structural |-> Raw("structural"),
       rrf |-> Rank("exact") + Rank("bm25") + Rank("graph") + Rank("structural")]

RanksAbove(s, t) ==
  LET Key(scores) == <<scores.rrf, scores.exact, scores.bm25, scores.structural, scores.graph>>
      a == Key(s.scores) b == Key(t.scores) IN
  \/ \E k \in 1 .. 5 : a[k] > b[k] /\ \A j \in 1 .. k - 1 : a[j] = b[j]
  \/ a = b /\ (s.document.path < t.document.path
               \/ (s.document.path = t.document.path /\ s.document.id < t.document.id))
Ranked(scored) == Ordered(scored, RanksAbove)

(* A candidate; its semantic score is left to a sidecar. *)
Candidate(s) ==
  LET r == s.scores IN
  [id |-> s.document.id, path |-> s.document.path, span |-> s.document.span, provenance |-> "Syntax",
   scores |-> [exact |-> r.exact, bm25 |-> r.bm25, graph |-> r.graph, structural |-> r.structural,
               semantic |-> 0, rrf |-> r.rrf]]

(* fuse: a candidate for every document of a lane. *)
Fuse(documents, lanes) ==
  LET ids == UNION {{h.id : h \in ToSet(lanes[l])} : l \in Lanes}
      scored == {[document |-> d, scores |-> Scores(lanes, d.id)] : d \in {d \in ToSet(documents) : d.id \in ids}}
      ranked == Ranked(scored)
  IN  SubSeq([n \in 1 .. Cardinality(scored) |-> Candidate(ranked[n])], 1, Lesser(Cardinality(scored), Profile.max))

(* path_matches: a directory or a file, or a glob whose star and question  *)
(* mark stop at a slash while two stars do not.  One leading ./ and one    *)
(* trailing / of a pattern stand for any number of them.                   *)
PathMatches(path, pattern) ==
  LET Wild(c) == c \in {"*", "?"}
      start == IF Len(pattern) > 1 /\ SubSeq(pattern, 1, 2) = <<".", "/">> THEN SubSeq(pattern, 3, Len(pattern)) ELSE pattern
      matches[p \in 1 .. Len(path) + 1, t \in 1 .. Len(start) + 1] ==
        IF t = Len(start) + 1 THEN p = Len(path) + 1
        ELSE IF start[t] = "*"
        THEN LET recursive == t < Len(start) /\ start[t + 1] = "*"
                 next == t + (IF recursive THEN 2 ELSE 1)
             IN  \/ recursive /\ next <= Len(start) /\ start[next] = "/" /\ matches[p, next + 1]
                 \/ matches[p, next]
                 \/ p <= Len(path) /\ (recursive \/ path[p] # "/") /\ matches[p + 1, t]
        ELSE /\ p <= Len(path)
             /\ start[t] = path[p] \/ (start[t] = "?" /\ path[p] # "/")
             /\ matches[p + 1, t + 1]
  IN  \/ start \in {<<>>, <<".">>} /\ pattern # <<>>
      \/ \E i \in DOMAIN start : Wild(start[i]) /\ matches[1, 1]
      \/ /\ start # <<>> /\ \A i \in DOMAIN start : ~Wild(start[i])
         /\ LET name == IF Last(start) = "/" THEN Front(start) ELSE start
            IN  name # <<>> /\ (path = name \/ IsPrefix(Append(name, "/"), path))

PathInScope(path, scope) ==
  /\ scope.include = {} \/ \E pattern \in scope.include : PathMatches(Spelled[path], pattern)
  /\ ~\E pattern \in scope.exclude : PathMatches(Spelled[path], pattern)

(* retrieve_scoped_with_arcs *)
Retrieve(task, scope, documents, arcs) ==
  LET exact == ExactRank(task, documents)
      text == TextRank(task, documents)
      roots == IF exact = <<>> THEN SubSeq(text, 1, Lesser(Len(text), RootLimit)) ELSE exact
      graph == GraphRank({h.id : h \in ToSet(roots)}, documents, arcs, scope)
      lanes == [l \in Lanes |-> CASE l = "exact" -> exact [] l = "bm25" -> text [] l = "graph" -> graph.hits
                                  [] l = "structural" -> IF Hybrid THEN StructuralRank(task, documents) ELSE <<>>]
  IN  [candidates |-> Fuse(documents, lanes), truncated |-> graph.truncated]
=============================================================================
