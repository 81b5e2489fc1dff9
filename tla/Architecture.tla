----------------------------- MODULE Architecture -----------------------------
(***************************************************************************)
(* get_architecture (runtime/architecture.rs): the packages of a graph,    *)
(* the boundaries between them, their cycles and communities, the symbols  *)
(* that many use, and a plan.  A graph holds the files of packages, their  *)
(* symbols, the proven arcs between symbols, and the imports and type      *)
(* references of files with what resolution made of them.  Packages and    *)
(* symbols are numbered as they sort.                                      *)
(***************************************************************************)
EXTENDS Integers, FiniteSets, SequencesExt

CONSTANTS
  PackageOf,      \* [file -> package_name of it]
  FileOf,         \* [symbol -> its file]
  HotspotFanIn,   \* fan-in from which a symbol is an issue
  MaxPasses       \* passes of community detection

Sorted(S) == SetToSortSeq(S, <)
Least(S) == CHOOSE x \in S : \A y \in S : x <= y
SumOver(f, S) == FoldFunctionOnSet(+, 0, f, S)

-----------------------------------------------------------------------------
(* Dependencies between packages *)

SymbolsIn(graph, scope) == {s \in graph.symbols : FileOf[s] \in scope}
ArcsIn(graph, scope) ==
  {a \in graph.arcs : {a.source, a.target} \subseteq SymbolsIn(graph, scope)}
UsesIn(graph, scope) == {u \in graph.uses : u.file \in scope}

PackagesIn(graph, scope) ==
  {PackageOf[f] : f \in (graph.files \cap scope) \cup {FileOf[s] : s \in SymbolsIn(graph, scope)}}

(* An import or a reference is proven within the scope, proven out of it,  *)
(* external, or local and unresolved: only the first is a dependency.      *)
Resolution(use, scope) ==
  IF use.found = "Proven" /\ use.to \notin scope THEN "OutOfScope" ELSE use.found

(* One record for each proven arc, import and reference that crosses.      *)
Crossings(graph, scope) ==
  {c \in {[from |-> PackageOf[FileOf[a.source]], to |-> PackageOf[FileOf[a.target]],
           kind |-> a.kind, site |-> a.site] : a \in ArcsIn(graph, scope)}
         \cup {[from |-> PackageOf[u.file], to |-> PackageOf[u.to], kind |-> u.kind, site |-> u.site] :
                 u \in {u \in UsesIn(graph, scope) : Resolution(u, scope) = "Proven"}} :
     c.from # c.to}

(* A use of a package that has no file the graph supports counts for the   *)
(* fan-out of its source and is no boundary.                               *)
FanOut(graph, scope, p) == Cardinality({c \in Crossings(graph, scope) : c.from = p})
Boundary(graph, scope, p, q) ==
  {c \in Crossings(graph, scope) : <<c.from, c.to>> = <<p, q>> /\ q \in PackagesIn(graph, scope)}
Boundaries(graph, scope) ==
  {b \in PackagesIn(graph, scope) \X PackagesIn(graph, scope) :
     Boundary(graph, scope, b[1], b[2]) # {}}

FanIn(graph, scope, symbol) ==
  Cardinality({a \in ArcsIn(graph, scope) : a.target = symbol})
Hotspots(graph, scope) ==
  {s \in SymbolsIn(graph, scope) : FanIn(graph, scope, s) > 0}

-----------------------------------------------------------------------------
(* strongly_connected_components: a search that notes each node when it    *)
(* leaves it, then one against the edges in the reverse order of leaving.  *)

Successors(edges, n) == {e[2] : e \in {e \in edges : e[1] = n}}
Reversed(edges) == {<<e[2], e[1]>> : e \in edges}

Visit(nodes, edges, state, node) ==
  LET visit[s \in [visited : SUBSET nodes, order : Seq(nodes)], n \in nodes] ==
        IF n \in s.visited THEN s
        ELSE LET below == FoldLeft(LAMBDA t, next : visit[t, next],
                                   [s EXCEPT !.visited = @ \cup {n}], Sorted(Successors(edges, n)))
             IN  [below EXCEPT !.order = Append(@, n)]
  IN  visit[state, node]

VisitAll(nodes, edges) ==
  FoldLeft(LAMBDA s, node : Visit(nodes, edges, s, node), [visited |-> {}, order |-> <<>>], Sorted(nodes)).order

Components(nodes, edges) ==
  FoldLeft(LAMBDA s, node :
             LET after == Visit(nodes, Reversed(edges), [visited |-> s.visited, order |-> <<>>], node)
             IN  [visited |-> after.visited,
                  found |-> s.found \cup ({ToSet(after.order)} \ {{}})],
           [visited |-> {}, found |-> {}], Reverse(VisitAll(nodes, edges))).found

Cycles(graph, scope) ==
  {c \in Components(PackagesIn(graph, scope), Boundaries(graph, scope)) : Cardinality(c) > 1}

-----------------------------------------------------------------------------
(* detect_semantic_communities: nodes move, one after another, to the      *)
(* neighbouring community with the best modularity, until none moves.      *)

WeightOf == [CALLS |-> 4, IMPLEMENTS |-> 4, IMPORTS |-> 2, REFERENCES |-> 1]
Weights(nodes, links) ==
  [e \in nodes \X nodes |->
     SumOver([l \in links |-> WeightOf[l.kind]],
             {l \in links : e[1] # e[2] /\ {l.from, l.to} = {e[1], e[2]}})]

PackageWeights(graph, scope) ==
  Weights(PackagesIn(graph, scope), {c \in Crossings(graph, scope) : c.to \in PackagesIn(graph, scope)})
SymbolWeights(graph, scope) ==
  Weights(SymbolsIn(graph, scope),
          {[from |-> a.source, to |-> a.target, kind |-> a.kind, site |-> a.site] :
             a \in ArcsIn(graph, scope)})

Nodes(weights) == {e[1] : e \in DOMAIN weights}
Degree(weights, n) == SumOver(weights, {n} \X Nodes(weights))
TotalDegree(weights) == SumOver(weights, DOMAIN weights)
Between(weights, S, T) == SumOver(weights, S \X T)
Community(labels, c) == {n \in DOMAIN labels : labels[n] = c}
DegreeOf(weights, S) == SumOver([n \in Nodes(weights) |-> Degree(weights, n)], S)

(* A faulty Score: a node stands against itself in its own community. *)
ScoreWithItself(weights, labels, n, c) ==
  Between(weights, {n}, Community(labels, c)) * TotalDegree(weights)
    - Degree(weights, n) * DegreeOf(weights, Community(labels, c))

(* Scores and modularity are multiplied with the total degree, which makes *)
(* them whole numbers.                                                     *)
Score(weights, labels, n, c) ==
  LET others == Community(labels, c) \ {n} IN
  Between(weights, {n}, others) * TotalDegree(weights)
    - Degree(weights, n) * DegreeOf(weights, others)

Move(weights, labels, n) ==
  LET near == {labels[m] : m \in {m \in Nodes(weights) : weights[<<n, m>>] > 0}}
      BestOf(c) == \A d \in near \cup {labels[n]} :
                     Score(weights, labels, n, d) <= Score(weights, labels, n, c)
      better == {c \in near : /\ Score(weights, labels, n, c) > Score(weights, labels, n, labels[n])
                              /\ BestOf(c)}
  IN  IF better = {} THEN labels ELSE [labels EXCEPT ![n] = Least(better)]

Labels(weights) ==
  LET order == Sorted(Nodes(weights))
      pass[k \in 0 .. MaxPasses] ==
        IF k = 0 THEN [n \in Nodes(weights) |-> n]
        ELSE FoldLeft(LAMBDA labels, n : Move(weights, labels, n), pass[k - 1], order)
  IN  pass[MaxPasses]

Communities(weights) ==
  LET labels == Labels(weights) IN {Community(labels, c) : c \in Nodes(weights)} \ {{}}
Modularity(weights, communities) ==
  SumOver([S \in communities |-> Between(weights, S, S) * TotalDegree(weights)
                                  - DegreeOf(weights, S) * DegreeOf(weights, S)], communities)

-----------------------------------------------------------------------------
(* The answer, one page of it *)

PageOf(items, offset, limit) ==
  SubSeq(items, offset + 1, IF offset + limit < Len(items) THEN offset + limit ELSE Len(items))

Truncated(totals, offset, limit) == offset > 0 \/ \E t \in totals : t > offset + limit

(* Three futures for an issue: keeping things as they are, and two that    *)
(* rewrite the graph, which gaps in the evidence block.                    *)
Plan(kind, of, base, partial) ==
  LET Future(i) == [policy |-> i, blocked |-> i > 1 /\ partial,
                    score |-> LET left == base[i] - (IF i > 1 /\ partial THEN 1000 ELSE 0)
                              IN  IF left > 0 THEN left ELSE 0]
      Before(x, y) == x.score > y.score \/ (x.score = y.score /\ x.policy < y.policy)
  IN  [kind |-> kind, of |-> of, futures |-> SortSeq([i \in 1 .. 3 |-> Future(i)], Before)]

Positive(n) == IF n > 0 THEN n ELSE 0
Capped(n, m) == IF n < m THEN n ELSE m

(* The least used boundary within a cycle is the one to change. *)
CycleIssues(graph, scope, cycles, partial) ==
  LET within(c) == {b \in Boundaries(graph, scope) : {b[1], b[2]} \subseteq c}
      Edges(b) == Cardinality(Boundary(graph, scope, b[1], b[2]))
      Chosen(c) == CHOOSE b \in within(c) : \A d \in within(c) \ {b} :
                     \/ Edges(b) < Edges(d)
                     \/ Edges(b) = Edges(d) /\ (b[1] < d[1] \/ (b[1] = d[1] /\ b[2] < d[2]))
  IN  {LET n == Edges(Chosen(c)) IN
         Plan("PACKAGE_DEPENDENCY_CYCLE", Chosen(c),
              <<250 + n * 20, Positive(900 - n * 40), Positive(820 - n * 25)>>, partial) :
         c \in {c \in cycles : within(c) # {}}}

HotspotIssues(hotspots, partial) ==
  {LET n == Capped(h.fan_in, 100) IN
     Plan("HIGH_FAN_IN_HOTSPOT", h.symbol, <<200 + n * 5, Positive(850 - n * 3), Positive(780 - n * 2)>>, partial) :
     h \in {h \in hotspots : h.fan_in >= HotspotFanIn}}

(* Everything there is to say of a scope, in the order it is listed.       *)
Structure(graph, scope) ==
  LET Hotter(x, y) == x.fan_in > y.fan_in \/ (x.fan_in = y.fan_in /\ x.symbol < y.symbol)
      Clusters(weights) == {S \in Communities(weights) : Between(weights, S, S) > 0}
      WithFanOut(names) == [i \in DOMAIN names |-> [name |-> names[i], fan_out |-> FanOut(graph, scope, names[i])]]
  IN  [packages |-> WithFanOut(Sorted(PackagesIn(graph, scope))),
       boundaries |-> Boundaries(graph, scope),
       hotspots |-> SetToSortSeq({[symbol |-> s, fan_in |-> FanIn(graph, scope, s)] :
                                    s \in Hotspots(graph, scope)}, Hotter),
       cycles |-> SetToSortSeq(Cycles(graph, scope), LAMBDA c, d : Least(c) < Least(d)),
       communities |-> Communities(PackageWeights(graph, scope)),
       clusters |-> Clusters(SymbolWeights(graph, scope)),
       unresolved |-> Cardinality({u \in UsesIn(graph, scope) : Resolution(u, scope) = "UnresolvedLocal"})]

PageOfStructure(graph, scope, found, offset, limit) ==
  LET truncated == Truncated({Len(found.packages), Cardinality(found.boundaries), Len(found.hotspots),
                              Len(found.cycles), Cardinality(found.communities),
                              Cardinality(found.clusters)}, offset, limit)
      partial == truncated \/ graph.gaps > 0 \/ found.unresolved > 0
      hot == PageOf(found.hotspots, offset, limit)
      cycles == PageOf(found.cycles, offset, limit)
  IN  [packages |-> PageOf(found.packages, offset, limit), hotspots |-> hot,
       cycles |-> cycles, total_cycles |-> Len(found.cycles),
       communities |-> found.communities, truncated |-> truncated,
       unresolved |-> found.unresolved, partial |-> partial,
       gaps |-> graph.gaps + found.unresolved + (IF truncated THEN 1 ELSE 0),
       issues |-> CycleIssues(graph, scope, ToSet(cycles), partial) \cup HotspotIssues(ToSet(hot), partial)]

GetArchitecture(graph, scope, offset, limit) ==
  PageOfStructure(graph, scope, Structure(graph, scope), offset, limit)
=============================================================================
