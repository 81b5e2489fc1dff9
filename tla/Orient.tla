--------------------------------- MODULE Orient ---------------------------------
(***************************************************************************)
(* orient and expand over one graph: prepare_orient and orient_prepared of *)
(* cgrx-cli/src/runtime.rs with orient_helpers.rs, semantic_rerank.rs, the *)
(* obligations of cgrx-cgcr, and the follow-up of mcp_backend.rs.  A task  *)
(* is prepared once, a local sidecar perhaps having its say; the           *)
(* preparation is packed under a budget; and expand packs it again under   *)
(* the sum of the budgets, handing out what it did not before.             *)
(*   Documents are Retrieval's with kind, tags (WORKER where the text says *)
(* worker), stems (of name, path and text), test (a file of tests) and     *)
(* long (letters of the name).  A task has also exact (names it spells),   *)
(* folded (names it spells but for case), symbolic (some term has a        *)
(* symbol's shape), intents, stems and class.                              *)
(***************************************************************************)
EXTENDS Retrieval, DeltaOverlay

CONSTANTS
  Graphs,         \* graphs a runtime may hold: documents, arcs, coverage
  Requests,       \* tasks and scopes
  Relevances,     \* what a sidecar may score, other than 0 .. 1000 too
  RerankLimit,    \* MAX_CANDIDATES of the rerank
  MinTop,         \* MIN_TOP_RELEVANCE
  MinMargin,      \* MIN_RELEVANCE_MARGIN
  FanOut,         \* GRAPH_FANOUT_LIMIT
  BodyLimit,      \* definitions that a task's words may select
  Budgets,        \* tokens an orient or an expand grants
  MaxBudget       \* u32::MAX
ASSUME RerankAssumption == Relevances \subseteq Nat /\ RerankLimit \in Nat /\ MinTop \in Nat /\ MinMargin \in Nat
ASSUME GraphsAssumption ==
  \A g \in Graphs :
    LET ids == {d.id : d \in ToSet(g.documents)} IN
    /\ g.documents \in Seq(ToSet(g.documents))
    /\ \A d \in ToSet(g.documents) :
         /\ d.id \in Nat /\ d.path \in Nat /\ d.span \in Nat /\ d.long \in Nat
         /\ IsFiniteSet(WordsOf[d.name])
    /\ \A d, e \in ToSet(g.documents) : d.id = e.id => d = e
    /\ \A S \in SUBSET ids : Tokens(S) \in Nat
ASSUME RequestsAssumption == \A r \in Requests : IsFiniteSet(r.task.words) /\ r.scope.depth \in Nat
ASSUME MissingAssumption == Missing \notin Seq(Nat)
ASSUME BodyAssumption == BodyLimit \in Nat

VARIABLES
  stored,    \* the graph of the runtime
  prepared,  \* OrientPreparation, or Absent
  request,   \* what it was prepared for, or Absent
  budget,    \* the cumulative budget of the session
  emitted,   \* node ids handed out
  answer,    \* the last answer, or Absent
  handle     \* the session has a live handle
session == <<prepared, request, budget, emitted, answer, handle>>
orientVars == <<overlayVars, stored, session>>

-----------------------------------------------------------------------------
(* What a task selects: orient_helpers.rs *)

Earlier(d, e) ==
  d.path < e.path \/ (d.path = e.path /\ (d.span < e.span \/ (d.span = e.span /\ d.id < e.id)))
Longer(d, e) == d.long > e.long \/ (d.long = e.long /\ Earlier(d, e))

(* The ids of the documents that are in a set, in an order; equals stay in *)
(* the order they are listed in.                                           *)
Sorted(documents, S, Before(_, _)) ==
  LET Sooner(i, j) == \/ Before(documents[i], documents[j])
                      \/ ~Before(documents[j], documents[i]) /\ i < j
      places == Ordered({i \in DOMAIN documents : documents[i] \in S}, Sooner)
  IN  [n \in DOMAIN places |-> documents[places[n]].id]

(* classify of intent.rs: one intent alone, or two that go together. *)
Intent(task) ==
  IF Cardinality(task.intents) = 1 THEN CHOOSE i \in task.intents : TRUE
  ELSE IF task.intents = {"Implementations", "DynamicDispatch"} THEN "DynamicDispatch"
  ELSE "Unknown"

(* A name counts as declared by the last definition that is listed of it.  *)
TaskEvidence(task, documents, arcs) ==
  LET intent == Intent(task)
      outgoing == {a.source : a \in arcs}
      names(n) == {i \in DOMAIN documents : documents[i].kind = "SYNTAX" /\ documents[i].name = n}
      Declared(d) == {documents[i].id : i \in {i \in names(d.name) : \A j \in names(d.name) : j <= i}}
      Shows(d) ==
        \/ intent = "DecoratedRoute" /\ d.kind = "ROUTE_HANDLER"
        \/ intent = "Implementations" /\ (d.kind = "IMPLEMENTS" \/ {"DYNAMIC_DISPATCH", "WORKER"} \subseteq d.tags)
        \/ intent = "BoundedDepth" /\ "EXACT_CALL" \in d.tags /\ Declared(d) # {} /\ Declared(d) \cap outgoing = {}
        \/ intent = "OverloadCall" /\ "OVERLOAD_CALL" \in d.tags
        \/ intent = "AliasedImport" /\ "EXACT_CALL" \in d.tags
        \/ intent = "CallSite" /\ "STATEMENT_CALL" \in d.tags
        \/ intent = "DynamicProperty" /\ "DYNAMIC_PROPERTY" \in d.tags
        \/ intent = "DynamicDispatch" /\ "DYNAMIC_DISPATCH" \in d.tags
  IN  Sorted(documents, {d \in ToSet(documents) : Shows(d)}, Earlier)

ExactSymbols(task, documents) ==
  LET Named(names) == {d \in ToSet(documents) : d.kind = "SYNTAX" /\ d.name \in names}
  IN  IF ~task.symbolic THEN <<>>
      ELSE Sorted(documents, IF Named(task.exact) # {} THEN Named(task.exact) ELSE Named(task.folded), Longer)

(* The definitions that share most words with the task; tests only if no   *)
(* production code shares two.                                             *)
DefinitionBodies(task, documents) ==
  LET Score(d) == Cardinality(task.stems \cap d.stems)
      scored == {d \in ToSet(documents) : d.kind = "SYNTAX" /\ Score(d) >= 2}
      production == {d \in scored : ~d.test}
      eligible == IF production # {} THEN production ELSE scored
      best == Sorted(documents, {d \in eligible : \A e \in eligible : Score(e) <= Score(d)}, Earlier)
  IN  IF Cardinality(task.stems) < 3 THEN <<>> ELSE SubSeq(best, 1, Lesser(BodyLimit, Len(best)))

Joined(arcs, id) == {a.target : a \in {a \in arcs : a.source = id}} \cup {a.source : a \in {a \in arcs : a.target = id}}
Neighbors(arcs, id) == {n \in Joined(arcs, id) : Cardinality({m \in Joined(arcs, id) : m < n}) < FanOut}

(* One hop more, in the order it is met in.                                *)
Farther(arcs, last) ==
  LET next == UNION {Neighbors(arcs, id) : id \in last.frontier} \ ToSet(last.order)
      From(id) == CHOOSE s \in last.frontier : id \in Neighbors(arcs, s)
                    /\ \A t \in last.frontier : id \in Neighbors(arcs, t) => s <= t
      Before(x, y) == From(x) < From(y) \/ (From(x) = From(y) /\ x < y)
  IN  [order |-> last.order \o Ordered(next, Before), frontier |-> next]

(* The roots, and what they reach hop by hop either way.                   *)
GraphEvidence(roots, documents, arcs, scope) ==
  LET ids == {d.id : d \in ToSet(documents)}
      within == {a \in arcs : {a.source, a.target} \subseteq ids}
      hop[h \in 0 .. scope.depth] ==
        IF h = 0 THEN [order |-> roots, frontier |-> ToSet(roots)] ELSE Farther(within, hop[h - 1])
  IN  hop[scope.depth].order

-----------------------------------------------------------------------------
(* The sidecar: semantic_rerank.rs *)

(* A reply scores each candidate sent once, within the scale. *)
Complete(sent, reply) ==
  /\ Len(reply) = Cardinality(sent)
  /\ {reply[i].id : i \in DOMAIN reply} = sent
  /\ \A i \in DOMAIN reply : reply[i].relevance <= 1000

(* A faulty Rerank: whatever was scored counts, complete or not, and       *)
(* candidates change places.                                               *)
RerankByRelevance(candidates, reply) ==
  LET Score(c) == FoldSet(LAMBDA i, s : IF reply[i].id = c.id THEN reply[i].relevance ELSE s, 0, DOMAIN reply) IN
  [candidates |-> SortSeq(candidates, LAMBDA c, d : Score(c) > Score(d)), status |-> "applied"]

Rerank(candidates, reply) ==
  LET sent == {candidates[i].id : i \in 1 .. Lesser(RerankLimit, Len(candidates))}
      Better(i, j) == reply[i].relevance > reply[j].relevance
                        \/ (reply[i].relevance = reply[j].relevance /\ reply[i].id < reply[j].id)
      order == Ordered(DOMAIN reply, Better)
      top == reply[order[1]]
      margin == top.relevance - reply[order[2]].relevance
      Outcome(list, status) == [candidates |-> list, status |-> status]
  IN  IF reply = <<>> THEN Outcome(candidates, Absent)
      ELSE IF Cardinality(sent) < 2 THEN Outcome(candidates, "skipped_insufficient_candidates")
      ELSE IF ~Complete(sent, reply) THEN Outcome(candidates, "fallback")
      ELSE IF top.relevance < MinTop \/ margin < MinMargin THEN Outcome(candidates, "skipped_low_confidence")
      ELSE Outcome([i \in DOMAIN candidates |->
                      IF candidates[i].id = top.id THEN [candidates[i] EXCEPT !.scores.semantic = margin * 10]
                      ELSE candidates[i]], "applied")

-----------------------------------------------------------------------------
(* The obligations: ObligationCompiler of cgrx-cgcr/src/obligations.rs *)

Kinds(class) == IF class = "Locate" THEN {1, 5, 6} ELSE 1 .. 6
Obligations(class) == {<<"O", k>> : k \in Kinds(class)}

Inventory(coverage, scope) ==
  LET Within(places) == {x \in places : PathInScope(x.path, scope)}
      About(kind, places) == {[kind |-> kind, path |-> x.path] : x \in Within(places)}
  IN  About("ExcludedPath", coverage.excluded) \cup About("ParserErrorRange", coverage.parser)
        \cup About("StalePath", coverage.stale) \cup About("DynamicDispatch", coverage.dispatch)
        \cup (IF coverage.truncated THEN {[kind |-> "TraversalTruncated", path |-> Absent]} ELSE {})

Uncertainties(coverage, scope, anchors) ==
  Inventory(coverage, scope)
    \cup (IF anchors = <<>> THEN {[kind |-> "MissingAnchor", path |-> Absent]} ELSE {})

-----------------------------------------------------------------------------
(* prepare_orient *)

(* Each of the ways to select evidence is tried when those before found    *)
(* nothing.                                                                *)
Roots(task, documents, arcs) ==
  LET exact == ExactSymbols(task, documents)
      intent == TaskEvidence(task, documents, arcs)
  IN  IF exact # <<>> THEN exact ELSE IF intent # <<>> THEN intent ELSE DefinitionBodies(task, documents)

DocumentOf(documents, id) == CHOOSE d \in ToSet(documents) : d.id = id

(* What the roots reach, or what was retrieved as the sidecar ranks it.    *)
Candidates(scope, documents, arcs, roots, found, reply) ==
  LET Selected(id) ==
        [id |-> id, path |-> DocumentOf(documents, id).path, span |-> DocumentOf(documents, id).span,
         provenance |-> "Syntax",
         scores |-> [exact |-> 0, bm25 |-> 0, structural |-> 0, semantic |-> 0, rrf |-> 0,
                     graph |-> IF id \in ToSet(roots) THEN 0 ELSE 50000]]
      calls == Only(found, {c \in ToSet(found) : DocumentOf(documents, c.id).kind = "CALLS"})
  IN  IF roots = <<>> THEN Rerank(IF "Calls" \in scope.kinds /\ calls # <<>> THEN calls ELSE found, reply)
      ELSE [candidates |-> Mapped(IF "Calls" \in scope.kinds THEN GraphEvidence(roots, documents, arcs, scope) ELSE roots,
                                  Selected),
            status |-> Absent]

Prepared(held, req, documents, arcs, roots, ranked) ==
  [candidates |-> ranked.candidates,
   status |-> ranked.status,
   records |-> [id \in {c.id : c \in ToSet(ranked.candidates)} |->
                  [path |-> DocumentOf(documents, id).path, span |-> DocumentOf(documents, id).span, penalty |-> 0,
                   obligations |-> Obligations(req.task.class), neighbors |-> Neighbors(arcs, id)]],
   obligations |-> Obligations(req.task.class),
   uncertainties |-> Uncertainties(held.coverage, req.scope, ranked.candidates),
   anchors |-> IF roots # <<>> THEN ToSet(roots)
               ELSE IF ranked.candidates = <<>> THEN {} ELSE {ranked.candidates[1].id},
   disconnected |-> roots # <<>>]

PreparedFrom(held, req, documents, arcs, roots, reply) ==
  Prepared(held, req, documents, arcs, roots,
           Candidates(req.scope, documents, arcs, roots,
                      Retrieve(req.task, req.scope, documents, arcs).candidates, reply))

PreparedAmong(held, req, documents, arcs, reply) ==
  PreparedFrom(held, req, documents, arcs, Roots(req.task, documents, arcs), reply)

Preparation(held, req, reply) ==
  LET scope == req.scope
      documents == Only(held.documents, {d \in ToSet(held.documents) : PathInScope(d.path, scope)})
      live == {d.id : d \in {d \in ToSet(documents) : d.kind = "SYNTAX"}}
  IN  PreparedAmong(held, req, documents,
        {a \in held.arcs : a.kind \in scope.kinds /\ {a.source, a.target} \subseteq live /\ PathInScope(a.path, scope)},
        reply)

-----------------------------------------------------------------------------
(* orient and expand *)

OrientInit ==
  /\ OverlayInit
  /\ stored \in Graphs
  /\ prepared = Absent /\ request = Absent
  /\ budget = 0 /\ emitted = {}
  /\ answer = Absent /\ handle = FALSE

(* The runtime keeps no overlay: a behaviour is about the one or the other.*)
Untouched == changes = 0 /\ UNCHANGED <<overlayVars, stored>>

(* What a sidecar may reply to at most two candidates, of these or others. *)
Replies ==
  LET scores == [id : {d.id : d \in ToSet(stored.documents)}, relevance : Relevances]
  IN  {<<>>} \cup {<<a>> : a \in scores} \cup {<<a, b>> : a, b \in scores}

Prepare(req, reply) ==
  /\ prepared = Absent
  /\ prepared' = Preparation(stored, req, reply)
  /\ request' = req
  /\ UNCHANGED <<budget, emitted, answer, handle>>

(* A faulty HasBudgetExclusions: required anchors are overlooked. *)
HasBudgetExclusionsOfCandidates(pack) == \E e \in pack.excluded : e.reason = "budget"

HasBudgetExclusions(pack) ==
  \E e \in pack.excluded : e.reason \in {"budget", "required_anchor_exceeds_budget"}

(* orient_prepared: without counterexamples the engine leaves every        *)
(* obligation residual, so that no answer claims to be complete.           *)
Answer(pack, given, over) ==
  [pack |-> pack, records |-> pack.records \ given, status |-> IF over THEN "NoExtraContext" ELSE "Partial"]

AskOrient(tokens) ==
  /\ prepared # Absent
  /\ answer = Absent
  /\ budget' = tokens
  /\ \E pack \in {Pack(prepared, tokens)} :
       /\ answer' = Answer(pack, {}, FALSE)
       /\ emitted' = pack.records
       /\ handle' = HasBudgetExclusions(pack)
  /\ UNCHANGED <<prepared, request>>

(* A handle is spent by its use; a sum over the limit is refused. *)
AskExpand(tokens) ==
  /\ handle
  /\ budget + tokens <= MaxBudget
  /\ budget' = budget + tokens
  /\ \E pack \in {Pack(prepared, budget + tokens)} :
       /\ answer' = Answer(pack, emitted, pack.records \subseteq emitted /\ ~HasBudgetExclusions(pack))
       /\ emitted' = emitted \cup pack.records
       /\ handle' = HasBudgetExclusions(pack)
  /\ UNCHANGED <<prepared, request>>

(* The graph changed: what was prepared is dropped. *)
DropPrepared ==
  /\ prepared # Absent
  /\ prepared' = Absent /\ request' = Absent
  /\ budget' = 0 /\ emitted' = {}
  /\ answer' = Absent /\ handle' = FALSE

SessionNext ==
  \/ \E req \in Requests, reply \in Replies : Prepare(req, reply)
  \/ \E tokens \in Budgets : AskOrient(tokens) \/ AskExpand(tokens)
  \/ DropPrepared

OrientNext ==
  \/ OverlayNext /\ prepared = Absent /\ UNCHANGED <<stored, session>>
  \/ Untouched /\ SessionNext

OrientSpec == OrientInit /\ [][OrientNext]_orientVars

-----------------------------------------------------------------------------
(* Properties *)

(* Every answer's pack accounts for each obligation, candidate and token   *)
(* under the budget it was given.                                          *)
PackAccountsForAll == answer # Absent => AccountsForAll(prepared, budget, answer.pack)

(* A session that is handed no further handle has handed out every         *)
(* candidate, but for those out of reach of the last pack and those worth  *)
(* nothing next to it: no evidence is lost to a budget without a handle to *)
(* ask for it.                                                             *)
NothingIsLostToABudget ==
  answer # Absent /\ ~handle =>
    \A c \in ToSet(prepared.candidates) :
      \/ c.id \in emitted
      \/ answer.pack.records # {} /\ ShortestPath(prepared.records, c.id, answer.pack.records) = Missing
      \/ Utility(prepared, answer.pack.records, c) = 0

(* Two preparations differ in the semantic scores of candidates at most.   *)
DifferInScores(p, plain) ==
  LET Graphic(list) == [i \in DOMAIN list |-> [list[i] EXCEPT !.scores.semantic = 0]]
  IN  /\ Graphic(p.candidates) = plain.candidates
      /\ \A part \in {"records", "obligations", "uncertainties", "anchors", "disconnected"} : p[part] = plain[part]

(* Whatever the sidecar replies, or if it fails, the candidates and their  *)
(* order are those found without it, the graph's scores too; and under any *)
(* budget the same obligations are covered and the same are residual.      *)
RerankDecidesNoObligation ==
  prepared # Absent =>
    LET Verdicts(p, pack) == <<Covered(p.records, pack.records), pack.residual>>
    IN  \A plain \in {Preparation(stored, request, <<>>)} :
          /\ DifferInScores(prepared, plain)
          /\ \A b \in Budgets : Verdicts(prepared, Pack(prepared, b)) = Verdicts(plain, Pack(plain, b))
=============================================================================
