------------------------------ MODULE DeltaOverlay ------------------------------
(***************************************************************************)
(* The overlay that keeps a published graph current between two indexings, *)
(* cgrx-store/src/delta.rs, and the view of graph and overlay together,    *)
(* SnapshotView of cgrx-retrieval/src/graph.rs.  A hash is the text it is  *)
(* of; paths are normalised and numbered in the order of their path_id.    *)
(***************************************************************************)
EXTENDS Naturals, Sequences, FiniteSets

CONSTANTS
  Paths,     \* repository paths
  Texts,     \* what a file may hold
  Declares,  \* [Texts -> Seq of [name, span]]: the symbols of its extraction
  Relates,   \* [Texts -> Seq of [relation, span, target]]: its edges
  Doubts,    \* [Texts -> Seq of reasons]: its parser errors and unresolved sites
  Resolved,  \* [Texts -> set of [kind, source, target]]: arcs the indexer resolves
             \* from the text, ends given as <<path, declaration>>
  Number,    \* [Names -> Nat], below 10
  Tree,      \* [Paths -> Texts or Absent]: what the first graph is built of
  MaxChanges, \* bound: changes reported in a behaviour
  Absent

(* Paths are numbered; an extraction lists what it finds.                  *)
ASSUME PathsAssumption ==
  /\ IsFiniteSet(Paths) /\ Paths = 1 .. Cardinality(Paths)
  /\ Tree \in [Paths -> Texts \cup {Absent}] /\ Absent \notin Texts
Written == [active : {TRUE}, old : Texts \cup {Absent}, current : Texts]
Removed == [active : {FALSE}, old : Texts \cup {Absent}]
ASSUME AbsentAssumption == Absent \notin Written \cup Removed
ASSUME ExtractionAssumption ==
  \A t \in Texts : /\ Declares[t] \in Seq({Declares[t][i] : i \in DOMAIN Declares[t]})
                   /\ Relates[t] \in Seq({Relates[t][i] : i \in DOMAIN Relates[t]})
                   /\ Doubts[t] \in Seq({Doubts[t][i] : i \in DOMAIN Doubts[t]})

Elements(seq) == {seq[i] : i \in DOMAIN seq}

(* The elements of seq that are in S, in their order.                      *)
Only(seq, S) ==
  LET to[n \in 0 .. Len(seq)] ==
        IF n = 0 THEN <<>> ELSE IF seq[n] \in S THEN Append(to[n - 1], seq[n]) ELSE to[n - 1]
  IN to[Len(seq)]

(* stable_node_id: a hash of the three. *)
NodeId(path, d) == path * 100 + d.span * 10 + Number[d.name]

-----------------------------------------------------------------------------
(* The overlay *)

NewOverlay(generation) ==
  [base |-> generation, next |-> 0, changes |-> [p \in Paths |-> Absent], records |-> <<>>]

(* Records of one kind, each under a key with the next ordinal. *)
Push(o, path, hash, kind, items) ==
  [o EXCEPT !.next = @ + Len(items),
            !.records = @ \o [i \in DOMAIN items |->
              [kind |-> kind, path |-> path, hash |-> hash, ordinal |-> o.next + i - 1, item |-> items[i]]]]

PushDeletes(o, path, hash) ==
  Push(Push(o, path, hash, "DeleteNode", <<Absent>>), path, hash, "DeleteEdge", <<Absent>>)

Apply(o, path, old, new) ==
  LET changed == [o EXCEPT !.changes[path] = [active |-> TRUE, old |-> old, current |-> new]]
      nodes == Push(PushDeletes(changed, path, old), path, new, "UpsertNode", Declares[new])
      edges == Push(nodes, path, new, "UpsertEdge", Relates[new])
  IN  Push(edges, path, new, "CoverageGap", Doubts[new])

Delete(o, path, old) ==
  PushDeletes([o EXCEPT !.changes[path] = [active |-> FALSE, old |-> old]], path, old)

Rename(o, path, to, old, new) == Apply(Delete(o, path, old), to, old, new)

IsShadowed(o, path) == o.changes[path] # Absent

(* A faulty IsCurrent: the path decides, whatever text the record is of. *)
IsCurrentPath(o, record) == IsShadowed(o, record.path) /\ o.changes[record.path].active

(* A record is of the text its path now holds. *)
IsCurrent(o, record) ==
  /\ IsShadowed(o, record.path)
  /\ o.changes[record.path].active
  /\ o.changes[record.path].current = record.hash

Upserts(o, kind) == Only(o.records, {r \in Elements(o.records) : r.kind = kind /\ IsCurrent(o, r)})

AssertFresh(o, path, actual) ==
  IF ~IsShadowed(o, path) THEN "fresh"
  ELSE IF ~o.changes[path].active THEN "DeletedPathPresent"
  ELSE IF o.changes[path].current # actual THEN "StalePath" ELSE "fresh"

-----------------------------------------------------------------------------
(* The graph and the view *)

Document(path, d, body) == [id |-> NodeId(path, d), path |-> path, span |-> d.span, name |-> d.name, body |-> body]
EdgeOf(path, e) == [path |-> path, span |-> e.span, relation |-> e.relation, target |-> e.target]
Concat(parts) == LET to[n \in 0 .. Len(parts)] == IF n = 0 THEN <<>> ELSE to[n - 1] \o parts[n] IN to[Len(parts)]
Mapped(seq, Op(_)) == [i \in DOMAIN seq |-> Op(seq[i])]

(* What the text of a file has of symbols and of edges. *)
Symbols(path, text, body) ==
  IF text = Absent THEN <<>> ELSE [i \in DOMAIN Declares[text] |-> Document(path, Declares[text][i], body)]
Sites(path, text) ==
  IF text = Absent THEN <<>> ELSE [i \in DOMAIN Relates[text] |-> EdgeOf(path, Relates[text][i])]

(* The graph an indexing builds of a tree.  An arc is proven by the text   *)
(* of one file, and has ends that exist.                                   *)
Graph(generation, tree) ==
  LET documents == Concat([p \in 1 .. Cardinality(Paths) |-> Symbols(p, tree[p], tree[p])])
      ids == {documents[i].id : i \in DOMAIN documents}
      End(end) == NodeId(end[1], end[2])
      Arcs(p) == {[source |-> End(a.source), target |-> End(a.target), kind |-> a.kind, path |-> p, hash |-> tree[p]] :
                    a \in Resolved[tree[p]]}
      arcs == UNION {Arcs(p) : p \in {q \in Paths : tree[q] # Absent}}
  IN  [generation |-> generation, hashes |-> tree, documents |-> documents,
       edges |-> Concat([p \in 1 .. Cardinality(Paths) |-> Sites(p, tree[p])]),
       arcs |-> {a \in arcs : a.source \in ids /\ a.target \in ids}]

(* SnapshotView::new refuses mixed generations. *)
CanView(graph, o) == graph.generation = o.base

ViewFresh(graph, o, path, actual) ==
  IF IsShadowed(o, path) THEN AssertFresh(o, path, actual)
  ELSE IF graph.hashes[path] \in {Absent, actual} THEN "fresh" ELSE "StalePath"

Unchanged(o, seq) == Only(seq, {x \in Elements(seq) : ~IsShadowed(o, x.path)})

(* What the view lists; in which order it sorts it is left out.            *)
ViewDocuments(graph, o) ==
  LET upserts == Upserts(o, "UpsertNode") IN
  Unchanged(o, graph.documents) \o [i \in DOMAIN upserts |-> Document(upserts[i].path, upserts[i].item, Absent)]

Related(seq, relation) == Only(seq, {e \in Elements(seq) : e.relation = relation})

ViewEdges(graph, o, relation) ==
  LET upserts == Upserts(o, "UpsertEdge") IN
  Related(Unchanged(o, graph.edges) \o [i \in DOMAIN upserts |-> EdgeOf(upserts[i].path, upserts[i].item)], relation)

(* Arcs whose evidence is the text indexed and whose ends are of files that*)
(* no change hides.  An end of a changed file is gone, even if the change  *)
(* declares it anew.                                                       *)
DefinitiveArcs(graph, o) ==
  LET visible == {d \in {graph.documents[i] : i \in DOMAIN graph.documents} : ~IsShadowed(o, d.path)}
      ids == {d.id : d \in visible}
  IN  {a \in graph.arcs : /\ a.source \in ids /\ a.target \in ids
                          /\ ~IsShadowed(o, a.path)
                          /\ graph.hashes[a.path] = a.hash}

-----------------------------------------------------------------------------
(* A caller that keeps the overlay of a working tree *)

VARIABLES
  files,    \* [Paths -> text or Absent]: the working tree, as reported
  graph,    \* the published graph
  overlay,  \* the overlay over it
  brought,  \* [Paths -> [Texts -> times]]: how often the overlay, since it is
            \* new, was told that the file holds the text
  changes   \* how many changes were reported
overlayVars == <<files, graph, overlay, brought, changes>>

OverlayInit ==
  /\ files = Tree
  /\ graph = Graph(1, Tree)
  /\ overlay = NewOverlay(1)
  /\ brought = [p \in Paths |-> [t \in Texts |-> 0]]
  /\ changes = 0

Change(o) ==
  /\ CanView(graph, overlay)
  /\ changes < MaxChanges
  /\ changes' = changes + 1
  /\ overlay' = o
  /\ UNCHANGED graph

WriteFile(path, text) ==
  /\ text # files[path]
  /\ files' = [files EXCEPT ![path] = text]
  /\ brought' = [brought EXCEPT ![path][text] = @ + 1]
  /\ Change(Apply(overlay, path, files[path], text))

RemoveFile(path) ==
  /\ files[path] # Absent
  /\ files' = [files EXCEPT ![path] = Absent]
  /\ UNCHANGED brought
  /\ Change(Delete(overlay, path, files[path]))

MoveFile(path, to) ==
  /\ files[path] # Absent /\ path # to
  /\ files' = [files EXCEPT ![path] = Absent, ![to] = files[path]]
  /\ brought' = [brought EXCEPT ![to][files[path]] = @ + 1]
  /\ Change(Rename(overlay, path, to, files[path], files[path]))

(* The tree is indexed; the overlay, of the generation before, is replaced *)
(* in a step of its own.                                                   *)
Republish ==
  /\ CanView(graph, overlay)
  /\ overlay.records # <<>>
  /\ graph' = Graph(graph.generation + 1, files)
  /\ UNCHANGED <<files, overlay, brought, changes>>

StartOverlay ==
  /\ ~CanView(graph, overlay)
  /\ overlay' = NewOverlay(graph.generation)
  /\ brought' = [p \in Paths |-> [t \in Texts |-> 0]]
  /\ UNCHANGED <<files, graph, changes>>

OverlayNext ==
  \/ \E p \in Paths : \/ \E t \in Texts : WriteFile(p, t)
                      \/ RemoveFile(p)
                      \/ \E q \in Paths : MoveFile(p, q)
  \/ Republish
  \/ StartOverlay

OverlaySpec == OverlayInit /\ [][OverlayNext]_overlayVars

-----------------------------------------------------------------------------
(* Properties *)

Times(seq, x) == Cardinality({i \in DOMAIN seq : seq[i] = x})
Relations == {e.relation : e \in UNION {Elements(Relates[t]) : t \in Texts}}

(* Whatever was written, deleted, moved and moved back, a view that opens  *)
(* shows of every file the symbols and edges of the text it now holds and  *)
(* no other: once if the overlay did not touch it, and as often as it was  *)
(* brought to that text.  The arcs join what is shown, and a file is fresh *)
(* at the text it holds only.                                              *)
OverlayShowsTheLatest ==
  CanView(graph, overlay) =>
    LET IsKept(p) == overlay.changes[p] = Absent
        Often(p) == IF IsKept(p) THEN 1 ELSE IF files[p] = Absent THEN 0 ELSE brought[p][files[p]]
        Body(p) == IF IsKept(p) THEN files[p] ELSE Absent
        Shows(p, seq, given) ==
          \A x \in {y \in Elements(seq) \cup Elements(given) : y.path = p} :
            Times(seq, x) = Often(p) * Times(given, x)
    IN
    /\ \A p \in Paths :
         /\ Shows(p, ViewDocuments(graph, overlay), Symbols(p, files[p], Body(p)))
         /\ \A relation \in Relations :
              Shows(p, ViewEdges(graph, overlay, relation), Related(Sites(p, files[p]), relation))
         /\ ~IsKept(p) \/ graph.hashes[p] # Absent =>
              \A u \in Texts : ViewFresh(graph, overlay, p, u) = "fresh" <=> u = files[p]
    /\ \A a \in DefinitiveArcs(graph, overlay) :
         {a.source, a.target} \subseteq {d.id : d \in Elements(ViewDocuments(graph, overlay))}
=============================================================================
