----------------------------- MODULE RuntimeEvidence -----------------------------
(***************************************************************************)
(* Runtime evidence from a trace file to an answer: what cgrx-core's       *)
(* runtime_evidence.rs and the runtime's observations.rs make of the calls *)
(* of a trace, how their endpoints are resolved against the graph of the   *)
(* process that imports them, and how traces and insights read what the    *)
(* store kept.  Imports and prunes are those of ObservationStore, whose    *)
(* snapshots say how often they count each batch.  A qualified name is     *)
(* abstracted to its owner and its last part, a span to the lines it       *)
(* touches.  Counts do not saturate here.                                  *)
(***************************************************************************)
EXTENDS ObservationStore, Sequences, SequencesExt

CONSTANTS
  Documents,    \* [Trees -> Seq]: the SYNTAX documents, by path and span
  Lines,        \* [Trees -> [paths -> Nat]]: the length of each file
  StaticCalls,  \* [Trees -> set of <<source, target>>]: the definitive arcs
  Input,        \* [Ids -> file]: the rows, or the spans, of a trace file
  Environments, \* where traces are taken
  Environment   \* [Ids -> Environments]

Nodes(tree) == {d.node : d \in Range(Documents[tree])}

ASSUME EvidenceAssumption ==
  /\ \A t \in Trees : Documents[t] \in Seq(Range(Documents[t]))
  /\ \A t \in Trees : StaticCalls[t] \subseteq Nodes(t) \X Nodes(t)
  /\ Environment \in [Ids -> Environments]

(* A trace file is parsed to its end, and a count of it is a u64.          *)
ASSUME InputAssumption ==
  \A id \in Ids :
    IF "spans" \in DOMAIN Input[id] THEN Input[id].spans \in Seq(Range(Input[id].spans))
    ELSE /\ Input[id].rows \in Seq(Range(Input[id].rows))
         /\ \A row \in Range(Input[id].rows) : row.count \in Nat

-----------------------------------------------------------------------------
(* The calls of a trace file *)

(* parse_otlp: a span whose parent is in the file is a call of it.  Of     *)
(* spans with one identity the last is the parent.                         *)
CallsOfSpans(spans) ==
  LET parents(s) == {i \in DOMAIN spans : spans[i].span = s.parent}
      last(s) == CHOOSE i \in parents(s) : \A j \in parents(s) : j <= i
      callees == {i \in DOMAIN spans : spans[i].parent # None /\ parents(spans[i]) # {}}
  IN {[caller |-> spans[last(spans[i])].endpoint, callee |-> spans[i].endpoint,
       row |-> i, count |-> 1] : i \in callees}

(* parse_ndjson: each row is a call. *)
CallsOfRows(rows) ==
  {[caller |-> rows[i].caller, callee |-> rows[i].callee, row |-> i, count |-> rows[i].count] :
     i \in DOMAIN rows}

CallsOf(id) ==
  IF "spans" \in DOMAIN Input[id] THEN CallsOfSpans(Input[id].spans) ELSE CallsOfRows(Input[id].rows)

(* The sum of the values of f: each unit of each is told apart by a number.*)
Units(f) == UNION {{<<x, n>> : n \in 1 .. f[x]} : x \in DOMAIN f}
SumOf(f) == Cardinality(Units(f))

(* The sum of the counts of S. *)
Total(S) == SumOf([c \in S |-> c.count])

(* NormalizedBatch::new: the calls between the same endpoints become one.  *)
Normalized(id) ==
  {[caller |-> c.caller, callee |-> c.callee,
    count |-> Total({d \in CallsOf(id) : d.caller = c.caller /\ d.callee = c.callee})] :
     c \in CallsOf(id)}

-----------------------------------------------------------------------------
(* Resolution *)

(* The documents an endpoint may mean, by the most that is told of them:   *)
(* line and name, path and name, name, path and last part, last part.  The *)
(* first that finds any decides.                                           *)
Candidates(tree, endpoint) ==
  LET named == {d \in Range(Documents[tree]) : d.function = endpoint.function}
      alike == {d \in Range(Documents[tree]) : d.function.last = endpoint.function.last}
      here(S) == {d \in S : endpoint.path = d.path}
      kinds == << {d \in here(named) : endpoint.line \in d.lines}, here(named), named,
                  here(alike), alike >>
      found == {i \in DOMAIN kinds : kinds[i] # {}}
  IN IF found = {} THEN {} ELSE kinds[CHOOSE i \in found : \A j \in found : i <= j]

Resolved(tree, endpoint) == Cardinality(Candidates(tree, endpoint)) = 1
NodeOf(tree, endpoint) == (CHOOSE d \in Candidates(tree, endpoint) : TRUE).node

(* A call is kept if both ends resolve, else it is a gap: of an ambiguous  *)
(* end, or a missing one.                                                  *)
Kept(tree, id) ==
  {c \in Normalized(id) : Resolved(tree, c.caller) /\ Resolved(tree, c.callee)}

(* A path and line must be in a file of the graph; else the import fails.  *)
CanImport(tree, id) ==
  \A end \in {c.caller : c \in Normalized(id)} \cup {c.callee : c \in Normalized(id)} :
    end.path # None /\ end.line # None =>
      end.path \in DOMAIN Lines[tree] /\ end.line <= Lines[tree][end.path]

Importable == {k \in Ids \X Trees : CanImport(k[2], k[1])}

ImportEvidence(p, id, tree) ==
  /\ <<id, tree>> \in Importable
  /\ StartImport(p, id, tree)

EvidenceNext ==
  \E p \in Procs :
    \/ \E id \in Ids, tree \in Trees : ImportEvidence(p, id, tree)
    \/ \E cutoff \in Cutoffs : StartPrune(p, cutoff)
    \/ ImportStep(p) \/ PruneStep(p)
    \/ IoError(p) \/ Crash(p)

EvidenceSpec == Init /\ [][EvidenceNext]_vars

-----------------------------------------------------------------------------
(* What the store has of a revision *)

(* The calls of each batch that resolve, by the graph they resolve in.     *)
ResolvedCalls ==
  UNION {UNION {{[tree |-> t, id |-> id, call |-> c, env |-> Environment[id], count |-> c.count,
                  edge |-> <<NodeOf(t, c.caller), NodeOf(t, c.callee)>>] : c \in Kept(t, id)} :
                id \in Ids} : t \in Trees}

(* How often a snapshot counts the batch of a call, and what calls add up  *)
(* to in it.                                                               *)
Times(snapshot, c) == snapshot.merged[<<c.id, c.tree>>]
Added(snapshot, calls) == SumOf([c \in calls |-> Times(snapshot, c) * c.count])

(* merge_batch: the counts of what resolves to an edge add up, for each    *)
(* environment, as often as the snapshot counts the batch.                 *)
EdgesOf(snapshot) ==
  LET counted == {c \in ResolvedCalls : Times(snapshot, c) > 0}
  IN {[edge |-> c.edge, env |-> c.env,
       count |-> Added(snapshot, {d \in counted : d.edge = c.edge /\ d.env = c.env})] : c \in counted}

(* A faulty Observed: the graph of the evidence is not compared. *)
ObservedAnyTree(tree, rev) == IF snaps[rev] # None THEN EdgesOf(snaps[rev]) ELSE {}

(* load_current_observations: evidence of another graph is not shown.      *)
Observed(tree, rev) ==
  IF snaps[rev] # None /\ snaps[rev].tree = tree THEN EdgesOf(snaps[rev]) ELSE {}

-----------------------------------------------------------------------------
(* trace_path_with_evidence *)

(* A faulty Count: an environment's count replaces another's. *)
CountOfOne(observed, edge) ==
  LET seen == {k \in observed : k.edge = edge}
  IN IF seen = {} THEN 0 ELSE (CHOOSE k \in seen : TRUE).count

(* The count of an edge over all environments. *)
Count(observed, edge) == Total({k \in observed : k.edge = edge})

(* The edges that evidence "observed", or "all", follows. *)
Followed(tree, observed, evidence) ==
  {k.edge : k \in observed} \cup (IF evidence = "all" THEN StaticCalls[tree] ELSE {})

(* A node is traced over the edge that reaches it first. *)
Reach(trail, hop, node, edge) ==
  IF node \in trail.visited THEN trail
  ELSE [visited |-> trail.visited \cup {node},
        traced |-> Append(trail.traced, [node |-> node, hop |-> hop, edge |-> edge]),
        next |-> Append(trail.next, node)]

(* Another node is met as a callee, then as a caller. *)
Meet(edges, direction, trail, hop, node, other) ==
  LET met == IF <<node, other>> \in edges /\ direction # "callers"
             THEN Reach(trail, hop, other, <<node, other>>) ELSE trail
  IN IF <<other, node>> \in edges /\ direction # "callees"
     THEN Reach(met, hop, other, <<other, node>>) ELSE met

(* The neighbours of a node are met by path and span. *)
Neighbours(tree, edges, direction, trail, hop, node) ==
  LET docs == Documents[tree]
      after[i \in 0 .. Len(docs)] ==
        IF i = 0 THEN trail ELSE Meet(edges, direction, after[i - 1], hop, node, docs[i].node)
  IN after[Len(docs)]

(* The neighbours of what the last hop reached. *)
Hop(tree, edges, direction, trail, hop) ==
  LET after[i \in 0 .. Len(trail.next)] ==
        IF i = 0 THEN [trail EXCEPT !.next = <<>>]
        ELSE Neighbours(tree, edges, direction, after[i - 1], hop, trail.next[i])
  IN after[Len(trail.next)]

(* Hop by hop from the root: all that is reached, before it is sorted by   *)
(* hop, path and span for the limit to cut.                                *)
Traced(tree, edges, root, direction, depth) ==
  LET after[h \in 0 .. depth] ==
        IF h = 0 THEN [visited |-> {root}, traced |-> <<>>, next |-> <<root>>]
        ELSE Hop(tree, edges, direction, after[h - 1], h)
  IN after[depth].traced

-----------------------------------------------------------------------------
(* runtime_insights *)

(* The callers of a node, transitively and statically, four calls up.      *)
BlastRadius(tree, node) ==
  LET up(S) == S \cup {e[1] : e \in {f \in StaticCalls[tree] : f[2] \in S}}
  IN Cardinality(up(up(up(up({node}))))) - 1

(* What is told of a node; an edge counts once in each environment.        *)
Insight(tree, observed, node) ==
  LET incoming == {k \in observed : k.edge[2] = node}
      outgoing == {k \in observed : k.edge[1] = node}
      divergent(S) == Cardinality({k \in S : k.edge \notin StaticCalls[tree]})
      count == Total(incoming) + Total(outgoing)
      static == Cardinality({e \in StaticCalls[tree] : e[1] = node})
                  + Cardinality({e \in StaticCalls[tree] : e[2] = node})
      score == (4 * (IF count > 100 THEN 100 ELSE count))
                 + (120 * (divergent(incoming) + divergent(outgoing)))
                 + (30 * BlastRadius(tree, node)) + (10 * static)
  IN [node |-> node, count |-> count, divergent |-> divergent(incoming) + divergent(outgoing),
      priority |-> IF score > 1000 THEN 1000 ELSE score]

(* Only nodes with evidence have a row.  The order of the rows, by priority*)
(* before the limit cuts them, is left out.                                *)
Insights(tree, observed) ==
  {Insight(tree, observed, n) : n \in {m \in Nodes(tree) : \E k \in observed : m \in Range(k.edge)}}

-----------------------------------------------------------------------------
(* Properties *)

AtRest == LockIsFree /\ \A p \in Procs : pc[p] = "idle"

(* Where nothing failed, what a trace counts of an edge is what the batches*)
(* on disk that were resolved against this graph observed of it, and what  *)
(* insights count of a node is what traces count of its edges, a call of   *)
(* itself twice.                                                           *)
EvidenceAddsUp ==
  AtRest /\ outages = 0 =>
    \A r \in Revs, t \in Trees :
      LET observed == Observed(t, r)
          stored == {c \in ResolvedCalls : c.tree = t /\ (\E f \in files : f.id = c.id /\ f.tree = t)
                                            /\ Revision[c.id] = r}
          rows == Insights(t, observed)
          traced(S) == SumOf([e \in S |-> Count(observed, e)])
      IN
      /\ \A e \in Nodes(t) \X Nodes(t) : Count(observed, e) = Total({c \in stored : c.edge = e})
      /\ {row.node : row \in rows} = UNION {Range(c.edge) : c \in stored}
      /\ \A row \in rows :
           row.count = traced(Nodes(t) \X {row.node}) + traced({row.node} \X Nodes(t))

(* Evidence is of the graph that answers: a call is counted only between   *)
(* the nodes of it that the names of a trace single out, and never if no   *)
(* batch on disk says so of this very graph, whatever failed.              *)
CallsAreOfTheGraph ==
  AtRest /\ ~pruned =>
    \A r \in Revs, t \in Trees : \A k \in Observed(t, r) :
      \E f \in files :
        /\ f.tree = t
        /\ Revision[f.id] = r
        /\ \E c \in Normalized(f.id) :
             /\ {d.node : d \in Candidates(t, c.caller)} = {k.edge[1]}
             /\ {d.node : d \in Candidates(t, c.callee)} = {k.edge[2]}

(* A trace reaches every node that is at most its depth away, each once, at*)
(* its distance, and over an edge there is from a node one hop nearer.     *)
TraceIsByDistance ==
  AtRest /\ outages = 0 =>
    \A r \in Revs, t \in Trees, evidence \in {"observed", "all"}, direction \in {"callers", "callees", "both"} :
      LET edges == Followed(t, Observed(t, r), evidence)
          steps == (IF direction = "callers" THEN {} ELSE edges)
                     \cup (IF direction = "callees" THEN {} ELSE {<<e[2], e[1]>> : e \in edges})
          wider(S) == S \cup {e[2] : e \in {x \in steps : x[1] \in S}}
      IN
      \A root \in Nodes(t) :
        LET traced == Traced(t, edges, root, direction, 2)
            near == wider({root})
            hop(n) == IF n = root THEN 0 ELSE IF n \in near THEN 1 ELSE 2
            other(x) == IF x.edge[1] = x.node THEN x.edge[2] ELSE x.edge[1]
        IN
        /\ Len(traced) = Cardinality({x.node : x \in Range(traced)})
        /\ {x.node : x \in Range(traced)} = wider(near) \ {root}
        /\ \A x \in Range(traced) :
             /\ x.edge \in edges
             /\ x.hop = hop(x.node)
             /\ hop(other(x)) = x.hop - 1

(* What runtime evidence tells of a graph is of this graph: the calls it   *)
(* counts and the nodes it traces.                                         *)
EvidenceIsOfTheGraph == CallsAreOfTheGraph /\ TraceIsByDistance
=============================================================================
