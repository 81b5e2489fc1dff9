-------------------------------- MODULE Refactors --------------------------------
(***************************************************************************)
(* What the similarity index is asked for: suggest_refactors and           *)
(* find_similar of crates/cgrx-cli/src/runtime/refactors.rs, which answer  *)
(* from the index of the background worker when there is one and from the  *)
(* stored graph when there is not, and the strategies that                 *)
(* refactors/strategies.rs derives for a pair of similar functions.        *)
(*                                                                         *)
(* An input of SimilarityBackground is here a graph:                       *)
(*   docs     the symbols: [id, path, start, lang, text, meaning]          *)
(*   imports  the named imports: [id, path]                                *)
(*   arcs     [source, target, kind, path, place, proved]; place numbers   *)
(*            them as they are stored, proved says that the evidence is    *)
(*            definitive and of the file as it is stored                   *)
(*   observed the edges of the runtime evidence: [source, target, count]   *)
(*   gaps     whether the coverage of the graph has gaps                   *)
(***************************************************************************)
EXTENDS SimilarityBackground, Saturating, FiniteSets, SequencesExt

CONSTANTS
  RefactorRequests,         \* what suggest_refactors may be asked
  Scopes,           \* [paths, relations]
  Keywords,         \* the structural keywords
  MinTokens,        \* MIN_BODY_TOKENS
  Width,            \* SHINGLE_WIDTH
  DocumentLimit,    \* DEFAULT_DOCUMENT_LIMIT
  IndexLimit,       \* BACKGROUND_DOCUMENT_LIMIT
  PairLimit,        \* DEFAULT_PAIR_LIMIT and BACKGROUND_PAIR_LIMIT
  FunctionalLimit,  \* BACKGROUND_FUNCTIONAL_PAIR_LIMIT
  EvidenceLimit     \* DEFAULT_EVIDENCE_LIMIT

ASSUME LimitsAssumption ==
  {MinTokens, Width, DocumentLimit, IndexLimit, PairLimit, FunctionalLimit, EvidenceLimit} \subseteq Nat
ASSUME IndexedGraphsAssumption ==
  \A g \in Inputs :
    /\ IsFiniteSet(g.docs) /\ IsFiniteSet(g.arcs) /\ IsFiniteSet(g.observed)
    /\ \A d \in g.docs : {d.id, d.path, d.start} \subseteq Nat /\ IsFiniteSet(DOMAIN d.text)
    /\ \A d, e \in g.docs : d.id = e.id => d = e
    /\ \A a \in g.arcs : a.place \in Nat
    /\ \A a, b \in g.arcs : a.place = b.place => a = b
    /\ \A e \in g.observed : e.count \in Nat
ASSUME RefactorRequestsAssumption ==
  \A r \in RefactorRequests :
    /\ {r.limit, r.max_documents, r.max_pairs} \subseteq Nat
    /\ r.scope.relations \subseteq {"CALLS", "IMPLEMENTS", "REFERENCES", "IMPORTS"}

Greater(a, b) == IF a < b THEN b ELSE a
Leading(n, s) == SubSeq(s, 1, Lesser(n, Len(s)))

(* The second parts of pairs in the order of the first, tuples of naturals.*)
Lower(s, t) == \E i \in DOMAIN s : s[i] < t[i] /\ \A j \in 1 .. i - 1 : s[j] = t[j]
InOrder(keyed) ==
  [i \in 1 .. Cardinality(keyed) |->
     (CHOOSE e \in keyed : Cardinality({f \in keyed : Lower(f[1], e[1])}) = i - 1)[2]]

-----------------------------------------------------------------------------
(* Fingerprints.  A text is a sequence of lexemes [kind, is].              *)

Normal(lexeme) ==
  CASE lexeme.kind = "literal" -> "lit"
    [] lexeme.kind = "word" /\ lexeme.is \notin Keywords -> "id"
    [] OTHER -> lexeme.is

(* Comments, literal values and the spelling of names do not count. *)
NormalizedTokens(text) ==
  LET kept == {i \in DOMAIN text : text[i].kind # "comment"}
      places == InOrder({<<<<i>>, i>> : i \in kept})
  IN  [i \in DOMAIN places |-> Normal(text[places[i]])]

HasBlockAfter(tokens, keyword) ==
  \E i, j \in DOMAIN tokens :
    i < j /\ tokens[i] = keyword /\ tokens[j] = "{" /\ \A k \in i .. j : tokens[k] # ";"

IsCallable(lang, text) ==
  LET tokens == NormalizedTokens(text)
      words == Range(tokens)
      calls == {"(", "{"} \subseteq words
      arrow == \E i \in DOMAIN tokens \ {1} : tokens[i] = ">" /\ tokens[i - 1] = "="
  IN
  CASE lang = "rust" -> HasBlockAfter(tokens, "fn")
    [] lang = "go" -> HasBlockAfter(tokens, "func")
    [] lang = "python" -> "def" \in words
    [] lang = "java" -> calls
    [] lang = "typescript" ->
         \/ "function" \in words \/ arrow
         \/ calls /\ words \cap {"class", "enum", "interface", "type"} = {}
    [] OTHER -> FALSE

Fingerprint(text) ==
  LET tokens == NormalizedTokens(text) IN
  [tokens |-> Range(tokens),
   shingles |-> {SubSeq(tokens, i, i + Width - 1) : i \in 1 .. Len(tokens) - Width + 1},
   size |-> Len(tokens),
   eligible |-> Len(tokens) >= MinTokens]

Jaccard(a, b) ==
  IF a \cup b = {} THEN 0 ELSE (Cardinality(a \cap b) * 1000) \div Cardinality(a \cup b)

Weighted(body, shingles, callees, size) ==
  (body * 35 + shingles * 35 + callees * 20 + size * 10) \div 100

(* Of the texts alone. *)
Basis(left, right) ==
  LET body == Jaccard(left.tokens, right.tokens)
      shingles == Jaccard(left.shingles, right.shingles)
      largest == Greater(left.size, right.size)
      size == IF largest = 0 THEN 0 ELSE (Lesser(left.size, right.size) * 1000) \div largest
  IN
  [body |-> body, shingles |-> shingles, callees |-> 0, size |-> size,
   total |-> Weighted(body, shingles, 0, size)]

(* The proven relations of the scope are added when a question is asked. *)
Outgoing(arcs, node) == {<<a.kind, a.target>> : a \in {a \in arcs : a.source = node}}
ScorePair(basis, left, right, arcs) ==
  LET callees == Jaccard(Outgoing(arcs, left), Outgoing(arcs, right)) IN
  [basis EXCEPT !.callees = callees, !.total = Weighted(basis.body, basis.shingles, callees, basis.size)]

-----------------------------------------------------------------------------
(* Graphs *)

(* The first documents, with their fingerprints. *)
SortedDocs(docs) == InOrder({<<<<d.path, d.start, d.id>>, d>> : d \in docs})
Selection(docs, limit) ==
  LET sorted == Leading(limit, SortedDocs(docs)) IN
  {[at |-> i, id |-> sorted[i].id, lang |-> sorted[i].lang, print |-> Fingerprint(sorted[i].text)] :
     i \in DOMAIN sorted}

SyntaxDocument(g, id) == CHOOSE d \in g.docs : d.id = id
IsSymbol(g, id) == Cardinality({d \in g.docs : d.id = id}) = 1
InScope(g, scope) == {d \in g.docs : d.path \in scope.paths}

(* definitive_stored_arcs: named imports are live when the scope asks for  *)
(* imports.                                                                *)
Definitive(g, scope) ==
  LET imports == IF "IMPORTS" \in scope.relations THEN {i \in g.imports : i.path \in scope.paths} ELSE {}
      live == {d.id : d \in InScope(g, scope) \cup imports}
  IN
  {a \in g.arcs : a.proved /\ a.kind \in scope.relations /\ a.path \in scope.paths
                  /\ {a.source, a.target} \subseteq live}

-----------------------------------------------------------------------------
(* Pairs that share a bucket of their language.  Those of the smallest     *)
(* buckets come first; where the code breaks a tie by the buckets' texts,  *)
(* the pair's own place does.  members: [at, id, lang, print, keys].       *)

SharedPairs(members) ==
  {p \in members \X members :
     p[1].at < p[2].at /\ p[1].lang = p[2].lang /\ p[1].keys \cap p[2].keys # {}}

Rarity(members, p) ==
  LET sizes == {Cardinality({m \in members : m.lang = p[1].lang /\ key \in m.keys}) :
                  key \in p[1].keys \cap p[2].keys}
  IN  CHOOSE n \in sizes : \A k \in sizes : n <= k

Rarest(members, limit) ==
  Range(Leading(limit, InOrder({<<<<Rarity(members, p), p[1].at, p[2].at>>, p>> : p \in SharedPairs(members)})))

(* A faulty PairsWithin: the pairs that do not fit are dropped in silence. *)
PairsWithinQuietly(members, limit) == [pairs |-> Rarest(members, limit), cut |-> FALSE]

PairsWithin(members, limit) ==
  [pairs |-> Rarest(members, limit), cut |-> Cardinality(SharedPairs(members)) > limit]

Member(d, keys) == [at |-> d.at, id |-> d.id, lang |-> d.lang, print |-> d.print, keys |-> keys]

ShingleBuckets(selection) ==
  {Member(d, IF d.print.eligible THEN d.print.shingles ELSE {}) : d \in selection}

FunctionalBuckets(g, selection) ==
  LET shared == {a \in g.arcs : a.kind \in {"CALLS", "IMPLEMENTS"} /\ a.proved /\ a.target \in {d.id : d \in g.docs}}
  IN  {Member(d, Outgoing(shared, d.id)) : d \in selection}

Bases(pairs) == {[left |-> p[1].id, right |-> p[2].id, basis |-> Basis(p[1].print, p[2].print)] : p \in pairs}

Index(g, callable, docs, close, alike) ==
  LET group == [f \in {d.meaning : d \in g.docs} |-> {d.id : d \in {d \in g.docs : d.meaning = f}}] IN
  [documents |-> {d.id : d \in docs},
   documents_truncated |-> Cardinality(callable) > IndexLimit,
   groups |-> [f \in {f \in DOMAIN group : f # None /\ Cardinality(group[f]) > 1} |-> group[f]],
   pairs |-> Bases(close.pairs), pairs_truncated |-> close.cut,
   functional |-> Bases(alike.pairs), functional_truncated |-> alike.cut]

IndexAmong(g, callable, docs) ==
  Index(g, callable, docs, PairsWithin(ShingleBuckets(docs), PairLimit),
        PairsWithin(FunctionalBuckets(g, docs), FunctionalLimit))

IndexOfCallable(g, callable) == IndexAmong(g, callable, Selection(callable, IndexLimit))

(* build_similarity_index_cancellable, when it is not cancelled. *)
SimilarityIndex(g) == IndexOfCallable(g, {d \in g.docs : IsCallable(d.lang, d.text)})

(* What the worker built of an input. *)
Built == {<<g, SimilarityIndex(g)>> : g \in Inputs}
IndexOf(input) == (CHOOSE b \in Built : b[1] = input)[2]

-----------------------------------------------------------------------------
(* Candidates: from the index, or directly from the documents.             *)

(* The index of the background state, if it is of this snapshot. *)
ReadyIndex == IF state.snapshot = SnapshotOf[latest] THEN state.index ELSE None

IsCandidate(score, request) ==
  score.total >= request.min_score /\ (score.callees > 0 \/ score.shingles >= 820)

CandidatesOf(pairs, arcs, request) ==
  LET scored == {[left |-> p.left, right |-> p.right,
                  similarity |-> ScorePair(p.basis, p.left, p.right, arcs)] : p \in pairs}
  IN  {c \in scored : IsCandidate(c.similarity, request)}

Wanted(g, request) ==
  {d \in InScope(g, request.scope) : request.lang \in {None, d.lang}}

(* An index that left documents out, or that has too many pairs, is not used. *)
IndexServes(g, index, request) ==
  LET selected == {d \in Wanted(g, request) : d.id \in index.documents} IN
  /\ ~index.documents_truncated
  /\ LET nodes == {d.id : d \in Range(Leading(DocumentLimit, SortedDocs(selected)))} IN
     Cardinality({p \in index.pairs : {p.left, p.right} \subseteq nodes}) <= PairLimit

ScanIndex(g, index, request) ==
  LET selected == {d \in Wanted(g, request) : d.id \in index.documents}
      nodes == {d.id : d \in Range(Leading(DocumentLimit, SortedDocs(selected)))}
      pairs == {p \in index.pairs : {p.left, p.right} \subseteq nodes}
  IN
  [candidates |-> CandidatesOf(pairs, Definitive(g, request.scope), request),
   gaps |-> (IF index.pairs_truncated THEN {"SIMILARITY_PAIR_BUDGET"} ELSE {})
            \cup IF Cardinality(selected) > DocumentLimit THEN {"REFACTOR_DOCUMENT_BUDGET"} ELSE {}]

(* A budget of 0 is the default one. *)
Budget(asked, default) == IF asked = 0 THEN default ELSE asked

ScanDirect(g, request) ==
  LET limit == Budget(request.max_documents, DocumentLimit)
      selected == {d \in Wanted(g, request) : IsCallable(d.lang, d.text)}
      Scanned(kept) ==
        [candidates |-> CandidatesOf(Bases(kept.pairs), Definitive(g, request.scope), request),
         gaps |-> (IF Cardinality(selected) > limit THEN {"REFACTOR_DOCUMENT_BUDGET"} ELSE {})
                  \cup IF kept.cut THEN {"REFACTOR_PAIR_BUDGET"} ELSE {}]
  IN  Scanned(PairsWithin(ShingleBuckets(Selection(selected, limit)), Budget(request.max_pairs, PairLimit)))

(* A request with budgets of its own is never answered from the index. *)
ScanWith(g, index, request) ==
  IF IndexServes(g, index, request) THEN ScanIndex(g, index, request) ELSE ScanDirect(g, request)
Scan(g, input, request) ==
  IF request.max_documents > 0 \/ request.max_pairs > 0 \/ input = None THEN ScanDirect(g, request)
  ELSE ScanWith(g, IndexOf(input), request)

(* rank_similarity, then candidate_identity; the sort is stable. *)
BySimilarity(g, candidates) ==
  LET Key(c) ==
        LET score == c.similarity
            left == SyntaxDocument(g, c.left)
            right == SyntaxDocument(g, c.right)
        IN  <<1000 - score.total, 1000 - score.shingles, 1000 - score.body, 1000 - score.callees,
              1000 - score.size, left.path, left.start, right.path, right.start, c.left, c.right>>
  IN  InOrder({<<Key(c), c>> : c \in candidates})

-----------------------------------------------------------------------------
(* The evidence of a candidate: the shared relations, each with all its    *)
(* proofs, then the relations of others to the two.                        *)

RelationOrder == [CALLS |-> 1, IMPLEMENTS |-> 2, REFERENCES |-> 3, IMPORTS |-> 4]

Evidence(g, arcs, c) ==
  LET shared == {r \in Outgoing(arcs, c.left) \cap Outgoing(arcs, c.right) : IsSymbol(g, r[2])}
      groups == InOrder({<<<<RelationOrder[r[1]], r[2]>>, r>> : r \in shared})
      Proofs(r) == {a \in arcs : <<a.kind, a.target>> = r /\ a.source \in {c.left, c.right}}
      incoming == {a \in arcs : a.target \in {c.left, c.right}}
      others == InOrder({<<<<a.place>>, a>> : a \in incoming})
  IN  [i \in DOMAIN groups |-> [kind |-> "shared", arcs |-> Proofs(groups[i])]]
      \o [i \in DOMAIN others |-> [kind |-> "incoming", arcs |-> {others[i]}]]

(* A faulty Reserve: the group that does not fit goes in if it starts within. *)
ReserveFirst(budget, item) ==
  IF budget.used < EvidenceLimit
  THEN [budget EXCEPT !.used = @ + Cardinality(item.arcs), !.kept = @ \cup {item}]
  ELSE [budget EXCEPT !.cut = TRUE]

(* A group fits whole or not at all; smaller ones after it may still fit. *)
Reserve(budget, item) ==
  IF budget.used + Cardinality(item.arcs) <= EvidenceLimit
  THEN [budget EXCEPT !.used = @ + Cardinality(item.arcs), !.kept = @ \cup {item}]
  ELSE [budget EXCEPT !.cut = TRUE]

(* candidate_json: the budget is shared by the candidates of an answer.    *)
(* The edge of an import is paid for, and not listed.                      *)
WithItems(g, answer, c, items) ==
  LET after[i \in 0 .. Len(items)] ==
        IF i = 0 THEN [used |-> answer.used, kept |-> {}, cut |-> answer.cut]
        ELSE Reserve(after[i - 1], items[i])
      budget == after[Len(items)]
      Kept(kind) == {e.arcs : e \in {e \in budget.kept : e.kind = kind}}
  IN
  [used |-> budget.used, cut |-> budget.cut,
   rows |-> Append(answer.rows,
              [left |-> c.left, right |-> c.right, similarity |-> c.similarity,
               shared |-> Kept("shared"),
               preserve |-> {a \in UNION Kept("incoming") : IsSymbol(g, a.source)}])]

WithEvidence(g, arcs, answer, c) == WithItems(g, answer, c, Evidence(g, arcs, c))

(* runtime_profile: calls of the duplicate, and observed edges unproven. *)
RuntimeProfile(g, arcs, c) ==
  LET seen == {e \in g.observed : {e.source, e.target} \cap {c.left, c.right} # {}}
      calls[S \in SUBSET seen] ==
        IF S = {} THEN 0 ELSE LET e == CHOOSE e \in S : TRUE IN e.count + calls[S \ {e}]
  IN
  [duplicate |-> calls[{e \in seen : e.target = c.right}],
   unproven |-> Cardinality({e \in seen : ~\E a \in arcs : a.source = e.source /\ a.target = e.target})]

-----------------------------------------------------------------------------
(* Strategies *)

Policies == <<"preserve_entrypoints", "canonical_entrypoint", "consolidate">>

Weights ==
  [preserve_entrypoints |-> [similarity |-> 70, benefit |-> 80, risk |-> 50, runtime |-> 0],
   canonical_entrypoint |-> [similarity |-> 75, benefit |-> 140, risk |-> 180, runtime |-> 2],
   consolidate |-> [similarity |-> 85, benefit |-> 240, risk |-> 300, runtime |-> 4]]

(* counterfactual: every subtraction saturates. *)
Score(policy, blocked, total, shared, profile) ==
  LET w == Weights[policy]
      gained == (total * w.similarity) \div 100 + w.benefit + shared * 30
      penalty == Lesser(profile.duplicate, 100) * w.runtime + profile.unproven * 50
  IN  Lesser(1000, Minus(Minus(Minus(gained, w.risk), penalty), IF blocked THEN 1000 ELSE 0))

(* The relations that the first policy moves stand under "remove". *)
Removes(row, policy, blocked) ==
  CASE policy = "preserve_entrypoints" -> {[edges |-> proofs] : proofs \in row.shared}
    [] policy = "consolidate" /\ ~blocked -> {[node |-> row.right]}
    [] OTHER -> {}

Strategy(g, arcs, row, policy, partial) ==
  LET blocked == policy # "preserve_entrypoints" /\ partial
      redirected == {a \in row.preserve : a.target = row.right}
  IN
  [policy |-> policy,
   blocked |-> blocked,
   redirect |-> IF policy = "preserve_entrypoints" THEN {} ELSE redirected,
   removes |-> Removes(row, policy, blocked),
   score |-> Score(policy, blocked, row.similarity.total, Cardinality(row.shared), RuntimeProfile(g, arcs, row))]

Rung(policy) == CHOOSE i \in DOMAIN Policies : Policies[i] = policy

(* derive: by score, then from the mildest to the boldest. *)
Derive(g, arcs, row, partial) ==
  LET futures == {Strategy(g, arcs, row, policy, partial) : policy \in Range(Policies)} IN
  InOrder({<<<<1000 - s.score, Rung(s.policy)>>, s>> : s \in futures})

(* The rows of the candidates, the first first. *)
Listed(g, arcs, first) ==
  LET rows[i \in 0 .. Len(first)] ==
        IF i = 0 THEN [used |-> 0, cut |-> FALSE, rows |-> <<>>]
        ELSE WithEvidence(g, arcs, rows[i - 1], first[i])
  IN  rows[Len(first)]

(* suggest_refactors.  partial blocks what would remove something. *)
Suggested(g, arcs, listed, known) ==
  LET gaps == known \cup (IF listed.cut THEN {"REFACTOR_EVIDENCE_BUDGET"} ELSE {})
                    \cup IF g.gaps THEN {"COVERAGE"} ELSE {}
  IN
  [rows |-> listed.rows, used |-> listed.used, gaps |-> gaps,
   strategies |-> [i \in DOMAIN listed.rows |-> Derive(g, arcs, listed.rows[i], gaps # {})]]

SuggestAmong(g, arcs, limit, all, known) ==
  Suggested(g, arcs, Listed(g, arcs, Leading(limit, all)),
            known \cup IF Len(all) > limit THEN {"RESULT_LIMIT"} ELSE {})

Suggest(g, input, request) ==
  LET Among(scan) == SuggestAmong(g, Definitive(g, request.scope), request.limit, BySimilarity(g, scan.candidates), scan.gaps)
  IN  Among(Scan(g, input, request))

-----------------------------------------------------------------------------
(* find_similar: from the index of the background state, or directly.      *)

RelatedByText(score) == score.total >= 600 /\ score.shingles >= 650
IsRelated(score) == RelatedByText(score) \/ score.callees >= 500

Row(d, score) == [node |-> d.id, score |-> score]

(* background_similarity_lookup *)
LookupIndexed(g, index, root, scope) ==
  LET arcs == Definitive(g, scope)
      group == IF root.meaning \in DOMAIN index.groups THEN index.groups[root.meaning] ELSE {}
      Scored(p, d) == Row(d, ScorePair(p.basis, root.id, d.id, arcs))
      rows == UNION {{Scored(p, d) : d \in {d \in InScope(g, scope) \ {root} :
                                              {root.id, d.id} = {p.left, p.right} /\ d.id \notin group}} :
                     p \in index.pairs \cup index.functional}
  IN
  [exact |-> {d.id : d \in {d \in InScope(g, scope) : d.id \in group \ {root.id}}},
   similar |-> {row \in rows : IsRelated(row.score)},
   partial |-> index.documents_truncated \/ index.pairs_truncated \/ index.functional_truncated]

(* direct_similarity_lookup: the root need not be callable. *)
LookupDirect(g, root, scope) ==
  LET arcs == Definitive(g, scope)
      print == Fingerprint(root.text)
      exact == {d \in InScope(g, scope) \ {root} : d.meaning # None /\ d.meaning = root.meaning}
      others == {d \in InScope(g, scope) \ ({root} \cup exact) :
                   /\ d.lang = root.lang
                   /\ IsCallable(d.lang, d.text)
                   /\ print.eligible /\ Fingerprint(d.text).eligible}
      rows == {Row(d, ScorePair(Basis(print, Fingerprint(d.text)), root.id, d.id, arcs)) : d \in others}
  IN
  [exact |-> {d.id : d \in exact},
   similar |-> {row \in rows : IsRelated(row.score)},
   partial |-> FALSE]

FindSimilar(g, input, root, scope) ==
  IF input # None THEN LookupIndexed(g, IndexOf(input), root, scope)
  ELSE LookupDirect(g, root, scope)

-----------------------------------------------------------------------------
(* Properties: of any question the owner may ask now, of its graph and the *)
(* index that is published.                                                *)

BudgetGaps == {"SIMILARITY_PAIR_BUDGET", "REFACTOR_DOCUMENT_BUDGET", "REFACTOR_PAIR_BUDGET", "RESULT_LIMIT"}

(* What a request means: the callable pairs of one language that share a   *)
(* run of tokens and are similar enough.                                   *)
Meant(g, request) ==
  LET callable == {d \in Wanted(g, request) : IsCallable(d.lang, d.text)}
      docs == Selection(callable, Cardinality(callable))
  IN  CandidatesOf(Bases(SharedPairs(ShingleBuckets(docs))), Definitive(g, request.scope), request)

Questions == {<<g, index>> : g \in Inputs, index \in Inputs \cup {None}}

IsComplete(answer, meant) ==
  LET listed == {[left |-> row.left, right |-> row.right, similarity |-> row.similarity] : row \in Range(answer.rows)}
  IN  /\ listed \subseteq meant
      /\ answer.gaps \cap BudgetGaps = {} => listed = meant
AlwaysComplete(q) == \A r \in RefactorRequests : IsComplete(Suggest(q[1], q[2], r), Meant(q[1], r))

CompleteAnswers == {q \in Questions : AlwaysComplete(q)}

(* What both compare: the texts that are long enough. *)
IsAgreed(g, root, direct, answer) ==
  LET comparable == {d.id : d \in {d \in g.docs : Fingerprint(d.text).eligible}}
      ByText(lookup) == {row \in lookup.similar : RelatedByText(row.score) /\ row.node \in comparable}
  IN
  /\ answer.exact = direct.exact
  /\ IsCallable(root.lang, root.text) /\ Fingerprint(root.text).eligible =>
       /\ ByText(answer) \subseteq ByText(direct)
       /\ ~answer.partial => ByText(answer) = ByText(direct)
Agree(q) ==
  \A scope \in Scopes : \A root \in InScope(q[1], scope) :
    IsAgreed(q[1], root, LookupDirect(q[1], root, scope), FindSimilar(q[1], q[2], root, scope))

AgreeingLookups == {q \in Questions : Agree(q)}

(* However far the worker is, suggest_refactors lists pairs of the graph as*)
(* it is now, and all of them unless it reports a budget or a limit; and   *)
(* find_similar finds the same exact copies and, unless it says that it is *)
(* partial, the same similar texts of a function with an index as without, *)
(* but for texts too short to be compared, which only an index finds.      *)
AnswersAreComplete ==
  owner = "idle" => <<latest, ReadyIndex>> \in CompleteAnswers \cap AgreeingLookups

IsCareful(g, arcs, answer, meant) ==
    /\ answer.used <= EvidenceLimit
    /\ \A i \in DOMAIN answer.rows :
         LET row == answer.rows[i] IN
         /\ \A proofs \in row.shared : \E a \in proofs :
              proofs = {b \in arcs : b.kind = a.kind /\ b.target = a.target /\ b.source \in {row.left, row.right}}
         /\ \A s \in Range(answer.strategies[i]) :
              (\E x \in s.removes : "node" \in DOMAIN x) =>
                /\ Len(answer.rows) = Cardinality(meant)
                /\ ~g.gaps
                /\ \A a \in arcs : a.target = row.right /\ IsSymbol(g, a.source) => a \in s.redirect
                /\ \A k \in Outgoing(arcs, row.left) \cap Outgoing(arcs, row.right) :
                     IsSymbol(g, k[2]) => \E proofs \in row.shared : \E a \in proofs : <<a.kind, a.target>> = k
         /\ ~answer.strategies[i][1].blocked
Careful(q) ==
  \A r \in RefactorRequests : IsCareful(q[1], Definitive(q[1], r.scope), Suggest(q[1], q[2], r), Meant(q[1], r))

CarefulAnswers == {q \in Questions : Careful(q)}

(* A strategy removes a function only if nothing was left out of the       *)
(* answer, and then it redirects every proven relation of a symbol to it;  *)
(* the proofs of a shared relation are all there; and the strategy that    *)
(* comes first is never one that gaps block.                               *)
NothingIsRemovedUnseen == owner = "idle" => <<latest, ReadyIndex>> \in CarefulAnswers

=============================================================================
