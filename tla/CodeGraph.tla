------------------------------- MODULE CodeGraph -------------------------------
(***************************************************************************)
(* The graph a runtime serves and the questions asked of it: the refresh   *)
(* of stale facts (runtime.rs), normalization, proof gaps and the query    *)
(* index (scan_helpers.rs), queries (graph_query.rs), and a client that    *)
(* pages through a search (mcp/tools.rs).                                  *)
(***************************************************************************)
EXTENDS ArcResolution, Sorting

CONSTANTS
  PathCount,  \* number of source files, which are numbered as their names sort
  TextsOf,    \* [Paths -> the texts the file may have; Nothing when it is gone]
  Fold,       \* [name -> name in lower case]
  Queries,    \* search queries
  Rank,       \* [Queries -> [name -> rank of the match, or Nothing]]
  Limits,     \* page sizes a client may ask for
  MaxOffset,  \* MAX_SEARCH_OFFSET
  Base        \* [Paths -> text in the committed revision, or Nothing]

Paths == 1 .. PathCount
Texts == DOMAIN Parse \cup {Nothing}

ASSUME GraphAssumption ==
  /\ PathCount \in Nat
  /\ Base \in [Paths -> Texts]
  /\ \A p \in Paths : TextsOf[p] \subseteq Texts
  /\ \A t \in DOMAIN Parse : \A i \in DOMAIN Parse[t] :
       /\ Parse[t][i].from \in Paths
       /\ Parse[t][i].kind = "SYNTAX" =>
            \A query \in Queries : Rank[query][Parse[t][i].name] \in Nat \cup {Nothing}
  /\ Limits \subseteq Nat \ {0} /\ MaxOffset \in Nat
  /\ Nothing \notin DOMAIN Parse \cup Nat
  /\ \A some \in SUBSET Paths : Nothing \notin [some -> Texts]

VARIABLES
  tree,    \* [Paths -> text on disk, or Nothing]
  read,    \* source_fingerprints: [Paths -> the text read last, or Nothing]
  stored,  \* the StoredIndex
  torn,    \* a refresh failed half-way, and none has rebuilt the graph since
  client   \* a client that pages through a search

graphVars == <<tree, read, stored, torn, client>>

-----------------------------------------------------------------------------
(* Normalization *)

(* Both ends are symbols or named imports, and the text is the one proved. *)
NamedImports(docs) == {d \in docs : d.kind = "IMPORTS" /\ d.named}
DefinitiveArcs(docs, hashes, arcs) ==
  LET live == {Node(d) : d \in Syntax(docs) \cup NamedImports(docs)} IN
  {a \in arcs : {a.source, a.target} \subseteq live /\ a.hash = hashes[a.path]}

Site(d) == <<d.path, d.span>>

(* Sites the graph may not pass over in silence: an arc of the relation    *)
(* they ask for discharges them, else they are gaps.  Of dynamic sites     *)
(* within one another the outermost stands for the others.                 *)
Unproven(s, d) ==
  ~\E a \in s.arcs : <<a.path, a.span>> = Site(d) /\ a.kind = d.kind /\ a.hash = s.hashes[a.path]

(* A faulty ProofGaps: a site within a proven one is passed over. *)
ProofGapsOutermost(s) ==
  LET sites == {d \in ToSet(s.documents) : d.tracked}
      inner == {d \in sites : d.dynamic /\ \E e \in sites :
                  e.dynamic /\ e.path = d.path /\ e.span # d.span /\ Within(d.span, e.span)}
  IN  {Site(d) : d \in {d \in sites \ inner : Unproven(s, d)}}

ProofGaps(s) ==
  LET open == {d \in ToSet(s.documents) : d.tracked /\ Unproven(s, d)}
      inner == {d \in open : d.dynamic /\ \E e \in open :
                  e.dynamic /\ e.path = d.path /\ e.span # d.span /\ Within(d.span, e.span)}
  IN  {Site(d) : d \in open \ inner}

Earlier(d, e) ==
  \/ d.path < e.path
  \/ d.path = e.path /\ d.span[1] < e.span[1]
  \/ d.path = e.path /\ d.span[1] = e.span[1] /\ d.id < e.id

(* The index keeps positions under the keys the documents had when it was  *)
(* built: it is a copy of them, looked up by position.                     *)
QueryIndex(s) ==
  [documents |-> s.documents,
   arcs |-> DefinitiveArcs(ToSet(s.documents), s.hashes, s.arcs)]

Changed(hashes) == {p \in Paths : hashes[p] # Base[p]}
Snapshot(hashes) == [p \in Changed(hashes) |-> hashes[p]]

(* A faulty Normalize: an early return when there is no proof gap. *)
NormalizeWithGaps(s) ==
  LET sorted == [s EXCEPT !.documents = InOrder(ToSet(@), Earlier),
                          !.arcs = RebuildArcs(ToSet(s.documents), s.hashes)]
      gaps == [sorted EXCEPT !.gaps = ProofGaps(sorted)]
  IN  IF gaps.gaps = {} THEN [gaps EXCEPT !.snapshot = Snapshot(s.hashes), !.changed = Changed(s.hashes)]
      ELSE [gaps EXCEPT !.index = QueryIndex(gaps), !.snapshot = Snapshot(s.hashes),
                        !.changed = Changed(s.hashes)]

(* refresh, once something changed: all arcs are rebuilt. *)
Normalize(s) ==
  LET sorted == [s EXCEPT !.documents = InOrder(ToSet(@), Earlier),
                          !.arcs = RebuildArcs(ToSet(s.documents), s.hashes)]
      gaps == [sorted EXCEPT !.gaps = ProofGaps(sorted)]
  IN  [gaps EXCEPT !.index = QueryIndex(gaps), !.snapshot = Snapshot(s.hashes),
                   !.changed = Changed(s.hashes)]

(* What extraction finds, file after file. *)
Extracted(hashes) ==
  LET found[p \in 0 .. PathCount] ==
        IF p = 0 THEN <<>> ELSE found[p - 1] \o Documents(p, hashes[p])
  IN  found[PathCount]

(* index_source over a tree, and Runtime::open of what it published. *)
Cold(hashes) ==
  Normalize([hashes |-> hashes, arcs |-> {}, gaps |-> {}, snapshot |-> Nothing,
             changed |-> {}, index |-> [documents |-> <<>>, arcs |-> {}],
             documents |-> Extracted(hashes)])

-----------------------------------------------------------------------------
(* refresh *)

Candidates == stored.changed \cup {p \in Paths : tree[p] # Base[p]}

(* A file is read unless its fingerprint and its facts are there.  One that*)
(* was deleted has no fingerprint.                                         *)
Outdated(p) ==
  IF tree[p] = Nothing THEN stored.hashes[p] # Nothing
  ELSE ~(read[p] = tree[p] /\ stored.hashes[p] # Nothing) /\ stored.hashes[p] # tree[p]

(* The documents of other files, in the order they have. *)
Retained(documents, p) ==
  LET places == InOrder({i \in DOMAIN documents : documents[i].path # p}, <)
  IN  [n \in DOMAIN places |-> documents[places[n]]]

(* A faulty Load: what a deleted file held stays. *)
LoadDeleted(s, p) ==
  [s EXCEPT !.hashes[p] = tree[p],
            !.documents = IF tree[p] = Nothing THEN @ ELSE Retained(@, p) \o Documents(p, tree[p])]

(* remove_path, then what was extracted from the new text. *)
Load(s, p) ==
  [s EXCEPT !.hashes[p] = tree[p],
            !.documents = Retained(@, p) \o Documents(p, tree[p]),
            !.gaps = {g \in @ : g[1] # p}
                     \cup {Site(d) : d \in {d \in ToSet(Documents(p, tree[p])) : d.dynamic}}]

LoadAll(s, changed) ==
  LET loaded[p \in 0 .. PathCount] ==
        IF p = 0 THEN s
        ELSE IF p \in changed THEN Load(loaded[p - 1], p) ELSE loaded[p - 1]
  IN  loaded[PathCount]

Refresh ==
  LET outdated == {p \in Candidates : Outdated(p)} IN
  /\ read' = [p \in Paths |-> IF p \in Candidates THEN tree[p] ELSE read[p]]
  /\ IF outdated = {} THEN UNCHANGED <<stored, torn>>
     ELSE stored' = Normalize(LoadAll(stored, outdated)) /\ torn' = FALSE

(* refresh returns at the first file it cannot read or parse: the files    *)
(* before it, in the order of their names, are loaded and nothing is       *)
(* rebuilt.  The fingerprint is stored between reading and parsing.        *)
RefreshFails(p) ==
  LET before == {q \in Candidates : q < p} IN
  /\ p \in Candidates /\ tree[p] # Nothing /\ Outdated(p)
  /\ stored' = LoadAll(stored, {q \in before : Outdated(q)})
  /\ \E parsed \in BOOLEAN :
       read' = [q \in Paths |-> IF q \in before \/ (q = p /\ parsed) THEN tree[q] ELSE read[q]]
  /\ torn' = TRUE

-----------------------------------------------------------------------------
(* Queries.  A scope selects paths and relations.  keys are the documents  *)
(* and arcs that select the answer: the index, or without one the graph    *)
(* itself.                                                                 *)

Indexed(s) == s.index
Scanned(s) ==
  [documents |-> s.documents,
   arcs |-> DefinitiveArcs(ToSet(s.documents), s.hashes, s.arcs)]

Lookup(s, keys, Wanted(_)) ==
  {s.documents[i] : i \in {i \in DOMAIN keys.documents \cap DOMAIN s.documents :
                             Wanted(keys.documents[i])}}

SyntaxDocuments(s, keys, scope) ==
  Lookup(s, keys, LAMBDA d : d.kind = "SYNTAX" /\ d.path \in scope.paths)
ImportDocuments(s, keys, scope) ==
  Lookup(s, keys, LAMBDA d : d \in NamedImports({d}) /\ d.path \in scope.paths)
RelationshipDocuments(s, keys, scope) ==
  SyntaxDocuments(s, keys, scope) \cup
  IF "IMPORTS" \in scope.relations THEN ImportDocuments(s, keys, scope) ELSE {}

ScopedArcs(s, keys, scope) ==
  LET live == {Node(d) : d \in RelationshipDocuments(s, keys, scope)} IN
  {a \in keys.arcs : a.kind \in scope.relations /\ a.path \in scope.paths
                     /\ {a.source, a.target} \subseteq live}

(* The exact name, or else the names that fold to the same. *)
MatchingSymbols(s, keys, scope, symbol) ==
  LET Named(Same(_)) == {d \in Lookup(s, keys, LAMBDA d : d.kind = "SYNTAX" /\ Same(d.name)) :
                           d.path \in scope.paths}
      exact == Named(LAMBDA name : name = symbol)
  IN  IF exact # {} THEN exact ELSE Named(LAMBDA name : Fold[name] = Fold[symbol])

(* The one document a symbol selects, if it selects one. *)
Selected(s, keys, scope, symbol) == Only(MatchingSymbols(s, keys, scope, symbol))

(* A faulty SymbolReference: the snapshot is thought to tell texts apart. *)
SymbolReferenceOfSnapshot(s, d) == <<s.snapshot, Node(d)>>

(* A symbol_ref is a digest of the snapshot, the node and its file's text; *)
(* it selects a document whose digest is the same.                         *)
SymbolReference(s, d) == <<s.snapshot, Node(d), s.hashes[d.path]>>

SelectedByReference(s, reference) ==
  Only({d \in Syntax(ToSet(s.documents)) : SymbolReference(s, d) = reference})

(* get_outline: the symbols of a file in order, and its resolved imports. *)
Outline(s, keys, path) ==
  [symbols |-> InOrder(SyntaxDocuments(s, keys, [paths |-> {path}]), Earlier),
   imports |-> {a \in s.arcs :
                  /\ a.kind = "IMPORTS" /\ a.hash = s.hashes[a.path]
                  /\ \E i \in ToSet(s.documents) :
                       i.path = path /\ i.kind = "IMPORTS" /\ Node(i) = a.source
                  /\ Cardinality({d \in Syntax(ToSet(s.documents)) : Node(d) = a.target}) = 1}]

(* trace_path: the nodes each hop finds first. *)
Trace(s, keys, scope, root, direction, depth) ==
  LET arcs == ScopedArcs(s, keys, scope)
      Beside(frontier) ==
        {a.target : a \in {a \in arcs : direction # "callers" /\ a.source \in frontier}} \cup
        {a.source : a \in {a \in arcs : direction # "callees" /\ a.target \in frontier}}
      found[hop \in 0 .. depth] ==
        IF hop = 0 THEN {root}
        ELSE Beside(found[hop - 1]) \ UNION {found[h] : h \in 0 .. hop - 1}
  IN  [hop \in 1 .. depth |-> found[hop]]

(* A faulty Usages: a call of itself is no usage. *)
UsagesByOthers(s, keys, scope, root, depth) ==
  LET arcs == ScopedArcs(s, keys, scope)
      seen[hop \in 0 .. depth] ==
        IF hop = 0 THEN [visited |-> {root}, next |-> {root}, arcs |-> {}]
        ELSE LET last == seen[hop - 1]
                 new == {a \in arcs : a.target \in last.next /\ a.source \notin last.visited}
             IN  [visited |-> last.visited \cup {a.source : a \in new},
                  next |-> {a.source : a \in new}, arcs |-> new]
  IN  [hop \in 1 .. depth |-> seen[hop].arcs]

(* find_usages: the arcs each hop finds, a call of itself included. *)
Usages(s, keys, scope, root, depth) ==
  LET arcs == ScopedArcs(s, keys, scope)
      Found(frontier, visited) ==
        {a \in arcs : a.target \in frontier /\
           (a.source \notin visited \/ (a.kind = "CALLS" /\ a.source = a.target))}
      seen[hop \in 0 .. depth] ==
        IF hop = 0 THEN [visited |-> {root}, next |-> {root}, arcs |-> {}]
        ELSE LET last == seen[hop - 1]
                 new == Found(last.next, last.visited)
                 next == {a.source : a \in new} \ last.visited
             IN  [visited |-> last.visited \cup next, next |-> next, arcs |-> new]
  IN  [hop \in 1 .. depth |-> seen[hop].arcs]

(* detect_dead_code: the symbols of the scope that no arc of it calls. *)
DeadCode(s, keys, scope) ==
  LET called == {a.target : a \in {a \in ScopedArcs(s, keys, scope) : a.kind = "CALLS"}} IN
  {d \in SyntaxDocuments(s, keys, scope) : Node(d) \notin called}

(* callers and callees beside a search result: distinct relationships. *)
Degrees(s, keys, scope, node) ==
  LET Relations(arcs) == {<<a.source, a.target, a.kind>> : a \in arcs} IN
  [callers |-> Cardinality(Relations({a \in ScopedArcs(s, keys, scope) : a.target = node})),
   callees |-> Cardinality(Relations({a \in ScopedArcs(s, keys, scope) : a.source = node}))]

(* explain_symbol: direct neighbours, and usages without their sites. *)
Explain(s, keys, scope, node, depth) ==
  LET arcs == {a \in ScopedArcs(s, keys, scope) :
                 {a.source, a.target} \subseteq {Node(d) : d \in SyntaxDocuments(s, keys, scope)}}
      found[hop \in 0 .. depth] ==
        IF hop = 0 THEN {node}
        ELSE {a.source : a \in {a \in arcs : a.target \in found[hop - 1]}}
             \ UNION {found[h] : h \in 0 .. hop - 1}
  IN  [callers |-> {a.source : a \in {a \in arcs : a.target = node}},
       callees |-> {a.target : a \in {a \in arcs : a.source = node}},
       usages |-> [hop \in 1 .. depth |-> found[hop]]]

(* search_graph: the matches in the order they are ranked. *)
Search(s, keys, scope, query) ==
  LET Better(d, e) ==
        \/ Rank[query][d.name] < Rank[query][e.name]
        \/ Rank[query][d.name] = Rank[query][e.name] /\ Earlier(d, e)
      matches == {d \in SyntaxDocuments(s, keys, scope) : Rank[query][d.name] # Nothing}
  IN  InOrder(matches, Better)

(* One page and the offset of the next, which may be out of bounds. *)
Page(matches, offset, limit) ==
  LET end == offset + limit IN
  [rows |-> SubSeq(matches, offset + 1, IF end < Len(matches) THEN end ELSE Len(matches)),
   next |-> IF end >= Len(matches) THEN Nothing ELSE end,
   refused |-> end < Len(matches) /\ end > MaxOffset]

-----------------------------------------------------------------------------
WholeScope == [paths |-> Paths, relations |-> {"CALLS"}]
Idle == [query |-> Nothing, snapshot |-> Nothing, offset |-> 0, got |-> <<>>, clean |-> TRUE, of |-> Nothing]

GraphInit ==
  /\ tree = Base
  /\ read = [p \in Paths |-> Nothing]
  /\ stored = Cold(Base)
  /\ torn = FALSE
  /\ client = Idle

(* Somebody edits, creates or deletes a file. *)
Edit(p) ==
  /\ \E text \in TextsOf[p] : text # tree[p] /\ tree' = [tree EXCEPT ![p] = text]
  /\ UNCHANGED <<read, stored, torn, client>>

(* Any tool refreshes before it answers. *)
AnyTool == Refresh /\ UNCHANGED <<tree, client>>
FailingTool(p) == RefreshFails(p) /\ UNCHANGED <<tree, client>>

(* The page is added, or the client starts over when it is refused. *)
Take(query, from, limit) ==
  LET page == Page(Search(stored', Indexed(stored'), WholeScope, query), from.offset, limit) IN
  client' =
    IF page.refused \/ (from.snapshot # Nothing /\ from.snapshot # stored'.snapshot) THEN Idle
    ELSE [query |-> query, snapshot |-> stored'.snapshot,
          offset |-> IF page.next = Nothing THEN 0 ELSE page.next,
          got |-> from.got \o page.rows,
          clean |-> from.clean /\ ~torn',
          of |-> IF page.next = Nothing THEN stored'.hashes ELSE Nothing]

(* A faulty NextPage: the snapshot is not compared. *)
NextPageUnchecked(limit) ==
  /\ client.offset > 0
  /\ Refresh
  /\ Take(client.query, [client EXCEPT !.snapshot = Nothing], limit)
  /\ UNCHANGED tree

FirstPage(query, limit) ==
  /\ client.offset = 0
  /\ Refresh
  /\ Take(query, Idle, limit)
  /\ UNCHANGED tree

(* The next page is asked for under the snapshot of the first. *)
NextPage(limit) ==
  /\ client.offset > 0
  /\ Refresh
  /\ Take(client.query, client, limit)
  /\ UNCHANGED tree

GraphNext ==
  \/ \E p \in Paths : Edit(p) \/ FailingTool(p)
  \/ AnyTool
  \/ \E limit \in Limits : NextPage(limit) \/ \E query \in Queries : FirstPage(query, limit)

GraphSpec == GraphInit /\ [][GraphNext]_graphVars

-----------------------------------------------------------------------------
Scopes ==
  [paths : {Paths} \cup {{p} : p \in Paths},
   relations : {{"CALLS"}, {"CALLS", "IMPORTS"}, {"REFERENCES", "CONTAINS"}}]
CallScopes == {scope \in Scopes : scope.relations = {"CALLS"}}

(* A client changes no graph, and a page refreshes as any tool does: what  *)
(* is claimed of the graph alone is looked at where no client is at work.  *)
Unasked == client = Idle

-----------------------------------------------------------------------------
(* Every query that the index answers is answered as a scan of the graph   *)
(* would answer it, unless a refresh failed and none has rebuilt it since. *)
IndexAnswersAsAScan ==
  Unasked /\ ~torn =>
    LET I == Indexed(stored)
        S == Scanned(stored)
    IN
    \A scope \in Scopes :
    /\ SyntaxDocuments(stored, I, scope) = SyntaxDocuments(stored, S, scope)
    /\ ScopedArcs(stored, I, scope) = ScopedArcs(stored, S, scope)
    /\ \A symbol \in DOMAIN Fold :
         MatchingSymbols(stored, I, scope, symbol) = MatchingSymbols(stored, S, scope, symbol)

(* A graph that was refreshed edit by edit is the graph that indexing the  *)
(* same texts builds: no arc, gap or document of an old text is left, and  *)
(* none that another file's edit makes possible is missing.                *)
RefreshedIsCold == Unasked /\ ~torn => stored = Cold(stored.hashes)

(* The tools agree about who calls what: the symbols without callers are   *)
(* those detect_dead_code lists, those find_usages finds nothing for, and  *)
(* those search_graph counts no callers of; trace_path, find_usages and    *)
(* explain_symbol reach the same callers at each hop; get_outline lists    *)
(* every symbol the others find, unless a refresh has failed.              *)
ToolsAgree ==
  LET I == Indexed(stored) IN
  Unasked => \A scope \in CallScopes :
    \A d \in SyntaxDocuments(stored, I, scope) :
      LET node == Node(d)
          usages == Usages(stored, I, scope, node, 2)
          callers == Trace(stored, I, scope, node, "callers", 2)
      IN
      /\ d \in DeadCode(stored, I, scope) <=> usages[1] = {}
      /\ d \in DeadCode(stored, I, scope) <=> Degrees(stored, I, scope, node).callers = 0
      /\ \A hop \in 1 .. 2 :
           {a.source : a \in {a \in usages[hop] : a.source # a.target}} = callers[hop]
      /\ Explain(stored, I, scope, node, 2).usages = callers
      /\ ~torn => d \in ToSet(Outline(stored, I, d.path).symbols)

(* A call or import that the extractor tracks is never passed over in      *)
(* silence: it has an arc of its relation proved from the current text, is *)
(* a listed gap, or is a dynamic site within a listed one.                 *)
NoSilentGap ==
  Unasked /\ ~torn => \A d \in ToSet(stored.documents) : d.tracked =>
    \/ \E a \in stored.arcs : /\ <<a.path, a.span>> = Site(d) /\ a.kind = d.kind
                              /\ a.hash = stored.hashes[d.path]
    \/ Site(d) \in stored.gaps
    \/ d.dynamic /\ \E g \in stored.gaps : g[1] = d.path /\ Within(d.span, g[2])

(* A client that walks the pages of a search under one snapshot ends with  *)
(* every match of one graph once, in their order, whoever edits files in   *)
(* between, as long as no refresh failed meanwhile.                        *)
PagesAddUp ==
  client.of # Nothing /\ client.clean =>
    LET graph == Cold(client.of) IN
    client.got = Search(graph, Scanned(graph), WholeScope, client.query)

(* A symbol reference that still selects a definition selects the one it   *)
(* was issued for, in the text it was issued from: no edit or failed       *)
(* refresh turns it into another's.                                        *)
ReferencesKeepTheirText ==
  client.of # Nothing /\ client.clean =>
    \A d \in ToSet(client.got) :
      LET issued == [snapshot |-> client.snapshot, hashes |-> client.of] IN
      \A e \in SelectedByReference(stored, SymbolReference(issued, d)) :
        e = d /\ stored.hashes[d.path] = client.of[d.path]

=============================================================================
