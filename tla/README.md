# Verification of cgrx

TLA+ models, model-checking runs and machine-checked proofs of **cgrx**, a
local code-graph server for coding agents: it indexes a Git revision into an
immutable generation, keeps an in-memory graph of it up to date with the working
tree, answers tool calls over MCP and in a browser, imports runtime evidence and
remembers decisions. The modules are translated from the Rust sources under
`src/crates/`.

Contents: [the system](#1-the-system), [the modules](#2-modules-and-code),
[the runs](#3-runs), [fairness](#4-fairness), [the proofs](#5-proofs),
[where code and documents disagree](#6-where-code-and-documents-disagree),
[what is left out](#7-what-is-not-modelled), [the plan](#8-plan),
[running it](#9-running-the-checks).

## 1. The system

| Component | Code | State it keeps | Operations |
|---|---|---|---|
| Generation store | `cgrx-store/src/generation.rs`, `segment.rs` | `generations/<g>/` with segments and `MANIFEST`, `.<g>.tmp`, `CURRENT`, `writer.lock` | `begin`, `write_segment`, `validate`, `publish`, `reactivate`, `open_current` |
| Runtime evidence | `cgrx-store/src/observations.rs`, `runtime/observations.rs` | `batches/`, `snapshots/` under the repository's lock | import, `publish`, `prune_before`, `load`, traces, insights |
| Decision memory | `cgrx-store/src/memory.rs` | one file per record | `record`, `recall`, `status`, `prune_expired` |
| Delta overlay | `cgrx-store/src/delta.rs` | overlay of changed paths over a generation | `apply`, `rename`, `remove`, open a view |
| Runtime graph | `cgrx-cli/src/runtime.rs`, `runtime/*_helpers.rs`, `runtime/arc_resolution.rs` | documents, arcs, gaps, path hashes, fingerprints, snapshot, query index | `open`, `refresh`, queries |
| Indexing of HEAD | `runtime/index_helpers.rs` | none of its own | `index_source`, `open_current_report` |
| Analyses | `runtime/architecture.rs`, `risks.rs`, `risks/`, `security.rs`, `frameworks.rs` | a cache of architecture answers | architecture, gates, risk scan, missions |
| MCP server and backend | `cgrx-mcp/src/tools.rs`, `cgrx-cli/src/mcp_backend.rs` | runtime, preparation cache, expansion handles, risk baseline | frames, `refresh`, `orient`, `expand`, tools |
| Orientation | `runtime/orient_helpers.rs`, `cgrx-retrieval`, `cgrx-capsule/src/packer.rs` | one preparation per task | retrieve, fuse, rerank, pack |
| Similarity and refactorings | `runtime/refactors.rs`, `refactors/strategies.rs` | job queue, epoch, index, one worker thread | `schedule`, look-ups, strategies, `drop` |
| Browser server | `cgrx-cli/src/visualize/projects.rs`, `pool.rs` | slots, use order, response cache, two pools | open, refresh, query, evict |
| Refinement engine | `cgrx-cgcr/src/engine.rs`, `scheduler.rs` | obligations, facts, records, budgets of one call | `compile` |
| Multi-repository router | `cgrx-cli/src/multi_repo.rs` | open repositories, incarnations, handles | open, route, evict |
| Core model, languages, metrics, CLI | the other crates | none, or per call | pure computations and I/O |

How they interact:

```
 agent --MCP--> router --> server --> backend --refresh--> runtime graph --> similarity thread
                                       |   \                  ^  |
                                       |    \--orient--> retrieval, packer, refinement engine
                                       |                      |  \--> analyses and gates
                                       +--HEAD moved--> index_source --publish--> generation store
 browser --HTTP--> browser server --jobs--> runtime graph        (files, writer.lock)
 import, prune, record ------------> evidence store, decision memory ------^
```

Several cgrx processes share one state directory. Writers exclude each other by an
advisory lock on `writer.lock`, readers take none. The working tree, HEAD and the
processes themselves (crash, fork, power loss) are outside anybody's control.

What is hard, and what makes each part correct:

* **Generation store** - crashes and power losses between any two file
  operations, lock-free readers, `git` children that inherit the locked
  descriptor. `CURRENT` must always name a complete, durable generation, and a
  reader must never see two.
* **Evidence store** - an import is two renames and a prune is a deletion
  followed by a rebuild: after any failure the counts must be those of the batches,
  and what a trace adds up must be of the graph it was resolved against.
* **Decision memory** - readers without a lock list a directory, test each name and read
  file by file while others record and prune.
* **Runtime graph and backend** - the files change while `refresh` looks at them
  one by one, and HEAD moves while it is indexed: an answer must be of current
  sources, named by its snapshot, and no cache, page, handle or baseline may
  outlive its graph. Refreshing edit by edit must end in the graph that a cold
  index builds, and the query index must answer as a scan of it would.
* **Orientation** - evidence is cut by limits, budgets and scopes: everything left
  out must be accounted for, and a handle must exist to ask for it.
* **Analyses** - limits, caches and severities decide a verdict: a gate must never
  pass by what it did not see, and a plan must not let two missions clash.
* **Similarity** - a worker finishes an index of a graph that is gone, and
  answers with and without an index must agree.
* **Browser server** - eviction, full queues, failing and panicking jobs, and
  guards that run late: one runtime per repository, no slot busy for ever.
* **Refinement engine** - rounds are undone when their records overrun the budget:
  obligations, facts and records must return to one state, and the loop must end.
* **Visible answers** - compact rows stand for the structured answer: what they cut
  must be told.

`PROJECT.json` lists every component, modelled or not, and every hazard at its line.

## 2. Modules and code

State variables keep the code's names where they have one. An action is one
critical section, one file operation or one step between which another actor can
be seen; an algorithm without such steps is an operator. `PROJECT.json` maps each
definition to its lines.

| Module | Models | Composed with |
|---|---|---|
| `WriterLock` | `lock_writer` and `Drop` of the guard: a lock belongs to an open file description, which forked children share | extended by the three stores |
| `GenerationStore` | publication step by step, on a disk of which a power loss forgets what was not synced | implements `PublishedGenerations` |
| `PublishedGenerations` | what the store promises, without files or locks | abstract specification |
| `ObservationStore` | import and prune of runtime evidence, file by file | `WriterLock` |
| `RuntimeEvidence` | parsing and resolving an import, traces, usages, insights | extends `ObservationStore` |
| `MemoryStore` | record, recall, status and prune of decisions | `WriterLock` |
| `RuntimeRefresh` | the working tree, HEAD and `Runtime::refresh`, path by path | extended by `McpBackend` |
| `McpBackend` | re-indexing, preparation cache, handles | `RuntimeRefresh`; uses the promise of `GenerationStore`: one immutable content per identifier, `CURRENT` |
| `McpServer` | frames, tool sets, paged search, evidence import, risk baseline, other processes | extends `McpBackend` |
| `Responses` | structured answers and their visible rows, tool by tool | instantiated with `McpServer` |
| `ArcResolution` | from the finds of extraction to arcs: calls, imports, containment | extended by `CodeGraph` |
| `CodeGraph` | facts replaced by a refresh, normalization, gaps, the query index, queries, a paging client | - |
| `Sorting` | a set in the order of a total order, as `normalize_stored` and sorted trees list it | extended by `CodeGraph`, `ChangeRisks` |
| `Architecture` | packages, boundaries, cycles, communities, hotspots, plan | extended by `QualityGates` |
| `ChangeRisks` | findings, impacts, test runs and missions of a change | extended by `QualityGates` |
| `QualityGates` | repository, change and framework gates, security audit, SARIF, the architecture cache | - |
| `EvidencePacker` | `pack`: anchors, covers, connections, budget, residuals | extended by `Retrieval` |
| `Retrieval` | exact, lexical, structural and graph lanes, rank fusion | extended by `Orient` |
| `DeltaOverlay` | overlay of a published graph and the view of both | extended by `Orient` |
| `Orient` | preparing, reranking, packing, emitting, expanding one task | `Retrieval`, `DeltaOverlay` |
| `SimilarityBackground` | `schedule`, the worker thread, `drop` | extended by `Refactors` |
| `Refactors` | lexemes, fingerprints, index, look-ups with and without it, strategies | `SimilarityBackground` |
| `Saturating` | `min` and `saturating_sub` | extended by `EvidencePacker` and `Refactors` |
| `ProjectServer` | slots, order of use, jobs and guards, pools, response cache | - |
| `CgcrEngine` | `compile`: choice of probes, facts, rollback, status | - |
| `RepoRouter` | calls of `serve --multi-repo`: opening, eviction, wrapped handles | abstracts `McpBackend` to a cursor and its expansions |
| `...Proofs` | theorems, section 5 | extend their modules |
| `MC...` | instances for TLC | extend their module |

Correspondence worth knowing:

* **GenerationStore.** `tmp`, `final`, `current` are what processes see;
  `floating` (renames a power loss may undo), `safeCurrent` and the `synced` flags
  are what the disk would keep. A directory entry exists or not, a segment's
  content is one of `Contents`, a checksum is equality. The stages of `pc` follow
  `index_source` calling `begin .. publish_current`; I/O errors may strike every
  stage, a crash closes the lock unless a forked child still holds it.
* **ObservationStore.** A snapshot is how often it counts each batch; counts,
  first and last times and provenance follow from that. `astray` and `pruned` are
  history variables: the batches that a call cut short may have left miscounted, and
  whether a prune has removed something. The graph that evidence is resolved against (`Trees`) is
  chosen by the environment. Power loss is not modelled here.
* **RuntimeEvidence.** What an import contains (`Input`) and what each graph defines
  (`Documents`) are data; resolution by path and line, by name within a path and by
  name anywhere is the code's, and an endpoint whose path does not have the name falls
  back to the name anywhere. An import does not refresh first. Counts do not saturate,
  provenance, timestamps, `additional_batches` and gaps of unresolved endpoints are
  left out, and the static part of a blast radius is the static calls. An edge
  observed in two environments counts twice among divergent edges, as in the code.
  Sums are cardinalities (`SumOf` counts units), so that they can be reasoned about
  without induction; the order in which insights and traced nodes are listed is left out.
* **MemoryStore.** A decision is the hash of everything but its recording time, so it
  is an identity with a confidence and a deadline; a file's content is the time it
  was recorded. Readers list, then test that each name is still a file, then read one file
  at a time (`sorted_files`): a file that goes before its test is left out silently, one that
  goes after it is an error. `moment` remembers what was there when the call began. Any error of
  the test's own `metadata` leaves a file out silently too; that is not modelled. `MaxTime`
  bounds the clock.
* **RuntimeRefresh.** A file is its text and the stamp of its last write; a graph
  is the texts it was extracted from, once for documents (`hashes`) and once for
  arcs; a snapshot is HEAD and the set of changed files, which is what
  `working_tree_digest` digests. `git status` is one atomic look, as git is
  external; files are examined and read later, one at a time. `seen` and `failed` are
  history variables. `MaxEdits` bounds edits, commits and checkouts.
* **McpBackend, McpServer.** Calls are served one at a time, as the protocol loop does.
  A frame that is no call of an active tool changes nothing. `find_similar` is in the
  full tool set and has no arm in `call_tool`, and `tools/list` ignores the tool set:
  both as in the code. A client that pages collects the graphs its pages came from.
  The compiler input (SCIP), nested repositories, TypeScript inventories, manifests and
  the untracked-directory cache are left out. `MaxHandles` bounds the handles issued.
* **Responses.** A structured answer is its lists, cut from one sequence of found
  items, their totals and truncation marks; a cell of a row is `<<field, item>>`. Token
  counts and wording are left out. The code's loops that number paths and keep recommended
  issues are written as picks of places (`Picked`), the same for every list. Which answers
  have a number of gaps, and which rows show one, is as in the code: `expand` has neither (`Gapless`),
  an import shows the counts of ambiguous and unresolved observations, which add up to its
  gaps, and `detect_dead_code` drops the number that its answer has; the property excludes
  that one number by name (section 6).
* **ArcResolution, CodeGraph.** Extraction gives a text's items; the rule that binds a
  use and the files its qualifier allows follow from the language and the paths and are
  data of the text. JavaScript and PHP resolution, the language filter and SCIP arcs
  are left out; HEAD does not move. Here a refresh is one step that may fail at any path
  (`RuntimeRefresh` has its steps) and leaves what the code leaves. Plain references
  and Rust imports have sources that are no live node, as in the code.
* **Architecture, ChangeRisks, QualityGates.** A repository is a graph, a change, the
  pattern matches of its texts and what an audit reads. A graph has packages, symbols,
  arcs and uses; a change says of each symbol of HEAD what became of it. `edited` are the changed
  paths that a language pack reads, also those whose symbols are all the same; other changed
  paths (`unindexed`) are a gap each and have no mission. Of the gaps, `GapRows` (twenty) are listed, in
  their order, and only these reach missions. A base call has one call site, the byte budget
  of evidence is the choice `unread`, and scores are multiplied by the total degree to
  stay integers. A licence row is a sequence of tokens, whose keywords are read in either
  case. A refresh rebuilds the graph and empties the architecture cache, or changes what the
  graph misses alone (a walk cut short, paths of no language) and returns before it does, or fails on
  the way: `since` and `failed` remember the graphs since the cache was last emptied, and whether a refresh
  failed since.
* **EvidencePacker, Retrieval, Orient.** Token counts of sets of records are data, not
  sums. `ShortestPath` says which path the breadth-first queue finds, the first of the shortest in
  the order of ties; the queue itself is left out. The lexical score weighs every word the same. Hashes are texts. The order of
  a view's documents is free. A report of `orient` is always partial, and candidates
  cut by the traversal or semantic limits never reach obligations: both as in the code.
  The overlay is composed because its view is what retrieval reads; only library
  callers and tests build one. The sidecar may answer any relevance, or fail.
  An overflow of the summed budgets refuses the call and leaves the handle usable.
* **SimilarityBackground.** The queue mutex, the state lock and the atomic epoch
  are separate, and each acquisition is a step of its own; the build runs under none.
* **Refactors.** A text is a sequence of lexemes; shingles, postings, document and
  pair limits, and scores are computed as in the code, ties by the place of a pair. An
  index is a function of its graph, so an answer is too: which graph the index is of
  comes from `SimilarityBackground`. Node ids, hashes of path, span and name in the code, are
  numbers and assumed distinct.
* **ProjectServer.** A critical section is one step: the cache lock is only taken
  inside the map's or a slot's lock and nothing inside it. The lock of a slot's
  runtime is held over several steps of a job. A slot in memory is an identity
  that lives while the map, a request, a queued job or a running job refers to it,
  which is what `Arc::strong_count` counts. `recent` is the order of use, of which the
  first unused project is evicted. What is *fresh* (500 ms) and when a
  refresh is due are choices; the LRU bound of the cache is a choice of what is
  dropped. HTTP parsing, tokens and catalogue discovery are left out.
* **CgcrEngine.** The oracle is an environment that may answer anything: facts of
  the probe, facts of other probes, stale facts, an error. Latency is budgeted
  exactly as bytes and left out; the order of facts inside an answer is free; ties
  between equally good probes, broken by identifier in the code, are free. What
  remains of the code's data is what decides control: costs, token counts of sets
  of records, obligations. Facts of one answer are bounded by `MaxFacts`.
* **RepoRouter.** One thread serves the calls in turn, so a call is one step, whatever
  it opens or evicts; a root is what the path of the call canonicalizes to. The
  inner handle of a backend is its cursor alone: snapshot and query, which it
  contains too, are assumed to be the same everywhere, the worst case for telling
  handles apart (two worktrees of one commit). `openings` numbers the backends,
  `known`, `spent` and `lastUse` are history. `MaxCalls`, `MaxSessions` and
  `MaxHandles` bound calls, processes and cursors.

Some modules hold, next to a definition, a *faulty* variant of it with the same
parameters (a missing sync, a guard left out, a swapped order). No specification
uses them; they show that each checked property fails for a plausible mistake in
the code, and `PROJECT.json` pairs each property with one.

## 3. Runs

| Run | Instance | Shows |
|---|---|---|
| `generation_store` | 2 indexers, 1 reader, 2 generations, 2 contents, 2 segments, 2 outages | `StoreIsSound` (mutual exclusion, `CURRENT` resolves, a reader sees one generation), `RefinesPromise`, `LockComesFree` |
| `observation_store` | 2 processes, 3 batches of 2 revisions in 2 environments, 2 graphs, 2 cut-offs, 1 outage | `SnapshotsMatchBatches`, `OnlyPruneForgets`, `EvidenceAddsUp`, `EvidenceIsOfTheGraph` |
| `memory_store` | 2 processes, 3 decisions of which 1 expires, 1 tick, 1 outage | `RememberedUntilExpired`, `RecallMissesNothingValid`, `ReadsFailOnlyOfExpiry` |
| `similarity_background` | 3 graphs under 2 snapshots, 4 schedules, 2 thread slots, 15 requests | `LookupsAreSound`, `AnswersAreComplete`, `NothingIsRemovedUnseen`, `BuildSettles` |
| `mcp_backend` | 2 files, 2 texts, 2 revisions, 2 edits, cache of 1, 1 handle, answers of up to 3 items | `AnswersAreFresh`, `CachesAreOfTheGraph`, `PagesAreOfOneGraph`, `ScansAreOfHead`, `VisibleAnswersAreTrue` |
| `code_graph` | 3 files of which 2 change, 5 texts, pages of 1 up to offset 3 | `IndexAnswersAsAScan`, `RefreshedIsCold`, `ToolsAgree`, `NoSilentGap`, `PagesAddUp`, `ReferencesKeepTheirText` |
| `quality_gates` | 4 symbols in 3 packages and any of 7 arcs; any fate of 4 symbols; licence rows of up to 3 tokens and a few longer; 3 pages of architecture, refreshes to 3 graphs | `GateIsHonest`, `LicencesMeanWhatTheySay`, `StructureIsTold`, `ScanHidesNothing`, `MissionsDoNotClash` |
| `orient` | 3 files, 2 texts, 3 changes; 6 documents, any of 3 arcs, 10 requests, budgets 1, 3 and 5 up to 11 together | `OverlayShowsTheLatest`, `PackAccountsForAll`, `NothingIsLostToABudget`, `RerankDecidesNoObligation` |
| `project_server` | 2 connections, 2 projects of which 1 open, 1 thread and 1 place per pool, 2 snapshots | `CacheIsOfOpenGraphs`, `SlotsAreSound` |
| `cgcr_engine` | 2 counterexamples, 2 obligations, 2 kinds, 2 records, 2 facts per answer | `ContextIsSound`, `Terminates` |
| `repo_router` | 3 repositories of which 2 open, 2 processes, 4 calls each, 2 handles | `HandlesAreSound`, `EvictionIsSound` |
| `backend_head` | as `mcp_backend`, without the server, 2 queries, 2 handles; a history of reuse | `NeverReusesWrongData`, a documented promise violated, see section 6 |

A property is often the conjunction of named parts, which its module defines before it.
Type invariants are not checked by the runs: they are conjuncts of the proved
inductive invariants. Why the bounds are enough:

* *generation_store*: two indexers are what mutual exclusion and "published in
  between" need, a third would only repeat one of them. Two outages allow a crash,
  then a power loss, and a failure of the recovery. Two contents let two runs
  disagree about a generation, two segments let one be missing. The proofs cover
  every other size.
* *observation_store*: two batches share a revision and one does not; two graphs
  let one revision be resolved differently, with overloads, a removed and a new
  definition; ages let a prune take none, some or all. One input has spans, one repeats
  a call in two spellings, one leaves a name unresolved.
* *memory_store*: a reader that meets one record coming and another going needs two
  decisions, one that stays and one that expires; a third is too weak to be recalled. One tick
  lets it expire between any two steps.
* *similarity_background*: two graphs share a snapshot identity, which is where a
  stale worker could slip through; a spare thread slot lets a second worker exist.
  One graph is past the document budget, one past the limit of the index; one has a text that
  is just too short to be compared.
* *mcp_backend*: an edit and its undoing, or a commit and an edit, are the stories that the
  code's comments tell; two paths let a refresh fail between them. The code's limits of
  cache and handles are larger and used the same way. The visible answers are checked
  for every tool, every list of up to three items over two paths, and every cut.
* *code_graph*: one library file that changes what others mean, one user of it by
  import, proof, name and dynamic site, and one file that nobody edits; every order of
  edits, failed refreshes and searches. The graph, its indexes and its tools are looked
  at where no client is between two of its calls, as they are the same at each of them.
* *quality_gates*: a repository is unremarkable but for one part, as the gates read
  the parts apart; all arc sets of seven give every cycle and hotspot of three packages,
  all fates of four symbols every broken call. A request that the gate's own request for
  architecture shares a cache key with, and two that it does not, fill the cache first. `OneReport`
  ends a session with its first report, after which nothing new happens; `FewFailures` ends one
  with the first failed refresh, unless each graph in play is one of the three that refreshes lead to.
* *orient*: three changes allow a text to change and change back, and a move and its
  reversal; requests take each way in which a task selects evidence; two records
  are cheaper together than apart.
* *project_server*: with one project open a second forces eviction; with queues of
  one place a second job is refused. The order of eviction among several
  candidates is not exercised; three projects of which two are open are too many states.
* *cgcr_engine*: costs are chosen so that a probe may not fit, both records together
  overrun the tokens, and the third or fourth probe overflows the byte counter.
* *repo_router*: four calls open two repositories, evict one and open it again, which is
  when its handles are numbered anew; the invariants ask what any handle would reach
  next, so no fifth call is needed. A second process starts its clock anew.

Deadlock is checked in every passing run except `cgcr_engine`, where the call
returns, `repo_router`, where the last process has served its calls, and `orient`,
where the session ends.

Symmetry is used in `observation_store`, `memory_store`, `project_server` and
`repo_router`, whose constants are interchangeable and which check no liveness.

## 4. Fairness

* `GenerationStore`: a running process takes its next step, and a forked child
  that holds the lock's descriptor exits. A process is a sequential program whose file
  operations return, and the children are short-lived `git` commands. No fairness
  is assumed of starting, of failures or of readers, so `LockComesFree` says that no
  failure loses the lock.
* `SimilarityBackground`: the owner's call and each worker thread run on
  (weak fairness), as the scheduler of the operating system provides. Nothing is
  assumed of calling `schedule`, so `BuildSettles` holds when no one comes again.
* `CgcrEngine`: weak fairness of `Next`: the loop is sequential and the oracle
  returns. What it returns is not constrained.
* The other modules state safety only. Requests, edits and calls come when their author
  likes, and that an answer comes at all is the absence of deadlock.

## 5. Proofs

All theorems are of the form `Spec => []Property` (some are action properties, one is a
refinement), for every value of the constants that satisfies the named assumptions, which TLC
evaluates on each run. Each inductive invariant was first given to TLC as an invariant of the
component's run, and proved once TLC found no counterexample.

**`GraphStoreProofs`** - the code graph in memory and on disk, and the scan behind the change gate.

For `CodeGraph`, any number of files, any texts and whatever parsing finds in them, any
queries, ranks and page sizes, and any sequence of edits, refreshes and failed refreshes. The
inductive invariant is

    GraphInv == the graph holds exactly the facts of the texts it has read, and unless a
                refresh failed it is the graph that a cold run builds of these texts
    ServedInv == GraphInv /\ ClientOK(client)

and the six properties of the run follow from it. `RefreshedIsCold` is a conjunct, and not
inductive alone: a failed refresh loads some files and rebuilds nothing, so the next one must
know that the facts are those of the texts although nothing else is. Then:

1. A listing (`InOrder`) of a finite set under a strict total order has every member once;
   `Earlier` is such an order of the facts of any texts (`SortedFacts`), and so is the
   order of a search. Taking a file's documents out, adding others and sorting
   (`LoadKeepsFacts`, `NormalizedIsBuilt`) therefore ends in the graph of the texts, whatever the
   order in which files were loaded: all arcs, gaps and the index are functions of the facts.
2. The index of such a graph is its scan (`ColdIndexIsScan`), which gives `IndexAnswersAsAScan`.
   `NoSilentGap` needs that of finitely many dynamic sites within one another one is outermost.
3. `ToolsAgree` compares four recursions over arcs of any scope of calls; each is unfolded to
   two hops, as the property asks.
4. `ClientOK`: until a refresh fails, what a client has got is the first part of the matches of
   one graph that has the snapshot of its pages, and the next offset is where that part
   ends. Two trees with one snapshot are one tree, so `PagesAddUp` and
   `ReferencesKeepTheirText` follow.

Recursion is over the numbers of files and hops, and is unfolded by hand from the well-foundedness
of the numbers (`RunExists`). Theorems: `IndexAnswers`, `RefreshIsCold`, `AgreementHolds`,
`NothingIsSilent`, `PagesAreOneGraphs`, `ReferencesStay`. Assumptions (`ParseAssumption`,
`GraphAssumption`): files are finitely many and numbered as their names sort; every find of
extraction has its place and its identity, and two finds of a text with one identity are one
find (`stable_node_id` hashes path, span and name, and nothing here counts on more than that it is
injective); ranks are numbers, limits positive, and `Nothing` is no text.

For `QualityGates`, any change of any tree, calls of HEAD, limit and recorded test runs. The
invariant of the specification is small, a repository is always one that was read (`IsRead`); the work is
in `scan_risks`, whose loops are unfolded with `RunExists` and hold, step by step,

    IsSeen == what was seen is typed, the first gaps are among its gaps, each finding is of what is gone
              and nothing else bears its name, and while there is no gap the findings are within the
              limit and every remembered key has its row

1. A step forgets no row (`Keeps`) and, if there is no gap after it, its call is done (`IsDone`), so in the end
   all calls are (`InspectedIsSeen`). A page without a gap is all that was seen (`AnswerIsTyped`): findings
   that fill the page and impacts that fill it are told apart only by `OverLimit`, which the faulty
   `OverLimitEach` of the run shows. With `ExecutionIsTold` this is `ScansHideNothing`.
2. Missions have distinct keys, so each is listed once (`MissionsAreListed`, over `ListingListsAll`), and each
   finding, impact and edited path has one. A group is above those of all earlier missions that share
   a path (`GroupsAscend`), which makes groups finite, disjoint within and ordered between
   (`ScheduleIsSound`). When few enough gaps were found all are listed (`FewGapsAreListed`), and a
   mission is blocked by those of its paths. This is `MissionsNeverClash`.

Assumptions (`BaselineAssumption`, `GatesAssumption`): paths and symbols are finitely many and numbered as they
sort, calls of HEAD are between its symbols, a live call is between present symbols, and a symbol that is not
the same lies in an edited path (`IsChange`); a recorded run passed or failed.

For `GenerationStore`, any set of processes, readers, generations and contents, any number of
segments and outages. The inductive invariant is

    IInv == TypeOK /\ LockInv /\ DirectoryInv /\ StageInv /\ CurrentResolves /\ ReaderInv

None of the properties is inductive alone. Mutual exclusion needs `LockInv`: at most
one open description of the lock, held by whoever is in a locked stage.
`CurrentResolves` needs to know that a directory under a final name is complete and
synced (`DirectoryInv`) and what each stage of a publication has already done
(`StageInv`: for instance, whoever is about to move `CURRENT` has synced the name it
points to and the pointer file). Readers need that what they resolved stays. There is
one lemma per action, and a lemma for each group of conjuncts that most actions
leave alone. Theorems: `TypeCorrect`, `WritersExcludeEachOther`,
`CurrentAlwaysResolves`, `ReadersSeeOneGeneration`, and `StoreStaysSound`, which joins them.

`StoreKeepsItsPromise` is the refinement: under the mapping of `RefinesPromise` the initial
states are initial states of `PublishedGenerations`, and each step of the store is a step of it
or a stutter. Only these steps show: the rename of a generation's directory (`Install`), a sync of
`generations/` (`Harden`), the rename over `CURRENT` (`Point`), the sync of the store
(`HardenPointer`) and a loss of power (`Lose`). The invariant makes the others
invisible, since a segment is written only in a directory that has no final name yet, and these
legal: what is renamed is complete, its name was free, and who moves `CURRENT` moves it to a
generation whose name no loss of power can take away. Assumptions: `SegmentCount` is
positive, `MaxOutages` a number, `None` no value of the data (`NoneAssumption`).

**`ObservationStoreProofs`** - any processes, snapshots, batches and days, any number of errors and
crashes. Its `IInv` joins `TypeOK` (which says what a call in progress holds),
`LockInv` (a call in progress owns the lock, a crash frees it), what a call knows at each stage
whatever failed before (`StageInv`), `CountsOnlyKeptBatches` and `OneTreePerSnapshot`, which hold
in spite of failures, and `UndisturbedInv`, which is about a store where nothing failed: outside a
call that has renamed its batch and not yet merged it, or removed one and not yet rebuilt, the
snapshot of a revision counts exactly the batches on disk of that revision; within such a call it
says by which files it is off, until the call's last step. `ExactInv`, inductive with `IInv`, is
about a store where anything failed: a batch that is not `astray` is counted exactly while no
call is at work, and `Known` says of each stage of a call which batches still are; a step that
ends a call early adds to `astray` those which are not. `CountsOneMore` and `MergeAddsOne` show that merging
one batch into a snapshot gives what counting from nothing would. Theorems: `TypesHold`,
`SnapshotsStayMatched` (exact counts but for what a failure touched, one tree per snapshot, and
counts only of batches that are kept), `PruneAloneForgets`, and `CallsStayOfTheGraph`: an observed call is counted only between
nodes that its names single out in the graph that answers, and only if a batch of that graph
contains it. The last is one half of `EvidenceIsOfTheGraph`; `EvidenceStaysOfTheGraph` is the whole.
Its other half, what a trace reaches, is about the recursion of `Traced`, `Hop` and
`Neighbours` over sequences of any length. A recursive function is a `CHOOSE` of one that
satisfies its equation, so `RunExists` first shows that there is one, and then each property of
its last value is a set of the indices at which it holds: `EveryNumber` shows that a set
which has 0 and every successor has every number (by the least element of its complement,
`WFMin`), and `UpTo` is the same for an interval. What is carried along is `Simple`, that a trail has each node
but the root once, and `Extends`, that a hop has so far traced the ends of the pairs of nodes it has met,
over an edge from a node where it began: `ReachExtends`, `MeetExtends`, `NeighboursExtend` and
`HopExtends` carry it from one call of the code to the loop around it. The edges are between nodes of the
graph because an observed call is. The theorem is about two hops, as the property is.

`EvidenceStaysAddedUp` relates what an agent is told to what is on disk. It needs
that a batch under its final name is whole (`PublishedIsWhole`, a part of `ExactInv`): then a file is determined by its batch and graph, and where nothing failed the snapshot
counts a batch once or not at all (`CountedOnce`), which makes its edges those of the stored
calls (`StoredIsObserved`). The rest is about sums: the totals of disjoint parts add
up to the total of the whole (`PartsAddUp`), by a bijection between the units of the two sides
that is put together from one bijection for each part, so without induction. It is used
three times: over environments for an edge, and over edges for the callers and for the callees of a node.

Assumptions: `DataAssumption`, `None` no value of the data, a process no number, that a tree lists its
documents as a sequence and a trace file its rows or spans, whose counts are numbers
(`EvidenceAssumption`, `InputAssumption`).

**`McpServerProofs`** - any files, texts, revisions, edits, requests, queries, tools, cache size and
number of handles; the backend and the runtime below it included. `IInv` has ten parts, of
which the four properties need nearly all:

1. `StampInv`: no fingerprint is later than the last edit, and one that equals the file's own
   is of the text that the file still has. That is why a file with an unchanged fingerprint
   need not be read.
2. `GraphInv`: the graph is what its snapshot names, except while a call of `refresh` knows
   that it has changed a file (`normalize`) or after one has failed.
3. `SeenInv`: a file that this call of `refresh` has looked at has a content that
   the file had since the call began. At the call's end all files have been looked at:
   `AnswersStayFresh`.
4. `CacheInv`, `ListInv`: what is cached is of the present snapshot, unless the call is about to
   drop it; the order of use lists each cached query once. With `GraphInv`:
   `CachesStayOfTheGraph`, the bound of the cache included.
5. `PagesInv`: a client's pages are of one assignment of files, the one that the snapshot they
   carry names; because two trees with the same difference from a base are equal
   (`DiffDetermines`), another page with this snapshot is of the same files:
   `PagesStayOfOneGraph`.
6. `ScanInv`: the baseline of a risk scan is the generation of the revision it names, which is
   the runtime's unless `CURRENT` strayed: `ScansStayOfHead`.

`VisibleAnswersStayTrue` needs no invariant: it is about what a tool makes of an answer, for
every number of items found, limit and cut. Its lemmas are of three kinds. A place among the
first uses of paths has its rank as its number, so a numbered path reads back as the path
(`NumbersReadBack`, by counting: ranks below n places are an injection into n numbers, hence
onto). A row made from columns reads, column by column, as its item (`RowsRead`,
`NumberedRowsRead`). A list is whole, or its own count or flag is passed on, or its total is shown
(`UncutTells`, `OwnCountTells`, `OwnFlagTells`, `TotalTells`). One lemma for each shape of
answer puts them together.

Assumptions: what is committed is a tree of files per revision and `None` is no text, revision, tree,
snapshot or number; the bounds are numbers and the cache holds at least one query; the numbers of
rows that lists are cut to are numbers, and `Null` is none.

**`CgcrEngineProofs`** - any obligations, counterexamples, costs, records, token
counts and budgets. Here the argument is a chain of small invariants, each proved
with those before it:

1. `TypeOK /\ ControlInv`: the loop goes on only while not exhausted and with fewer
   than two quiet rounds; the status comes at the end.
2. `ContextIsOneState /\ SavedInv`: what a rollback would restore is itself one
   consistent state, and its facts are among the current ones. That is why undoing a
   round cannot separate an obligation from its evidence.
3. `FactInv`: every fact is of a probe that was about its obligation and was executed.
   With 2 it gives `CompletenessIsProven`.
4. `TokensInv`: during a round, the saved records and the remaining tokens are within
   the budget; `KeepRound` pays exactly what the round added. Token counts need
   not grow with the records: `saturating_sub` is covered.
5. `ProbeInv`: what was executed is not allowed any more (`NoProbeTwice`).
6. `WorkInv`: a round starts with an open obligation, so that a rollback leaves
   one (`ExhaustionLeavesWork`).

**`MemoryStoreProofs`** - any set of processes and decisions, deadlines and limits. `Inv` says
of the lock that at most one process is between taking and leaving it (`Exclusive`), of each
writer what it has already done (a file that it replaces did not exist, one that it removes
has expired), of each reader that a decision which was there when its call began and that it
has neither kept nor still before it has expired, and that what it kept is stored or has
expired; and `RememberedUntilExpired`, which needs all of these. The set that an answer is the best
of is the decisions it has read. Theorems: `DecisionsAreRemembered`,
`RecallsMissNothingValid`, `RecallsFailOnlyOfExpiry`, `TypesHold`. A reader's
step removes the least of the files still to be read, which is one of them because ranges of
numbers are well founded under inclusion (`MinIsMember`).

**`GraphReadersProofs`**, of what reads a published graph: `DeltaOverlay`, and `Orient` with `Retrieval`
and `EvidencePacker`. It extends `RefactorsProofs` for the lemmas on recursion and orders.

For the overlay, any paths, texts, extractions, resolved arcs and number of changes:

    OverlayInductive == OverlayTyped /\ AddsUp(overlay.records, brought)
                        /\ IF CanView THEN Follows(files, graph.hashes, overlay.changes)
                           ELSE graph.hashes = files

`Follows`: a path without a change holds what the graph was built of, a changed one is there
exactly if its change is active, with the text the change names. `AddsUp`: of every path, text and
set of items the overlay has as many records as the text lists, times how often the path was
brought to the text. That is needed because records are never removed: what is
shown of a path left and come back to depends on all that was pushed before. `ELSE` is the moment
between a publication and the overlay that follows it, when no view opens. From it, `LatestIsShown`
counts what a view shows: `Only`, `Concat` and `Related` are recursive functions, unfolded by
`RunExists` and stepped through by `UpTo`, and `CountOfOnly`, `CountOfConcat`, `CountJoined` say
what they do to the number of times an element is listed. Theorem: `OverlayStaysTheLatest`, all of
`OverlayShowsTheLatest`. Assumptions: paths are numbered and a text is not `Absent`
(`PathsAssumption`), what an extraction lists are sequences (`ExtractionAssumption`), and `Absent` is no
change (`AbsentAssumption`).

Every step of `OrientSpec` is one of the overlay or leaves `overlayVars` as they are, so that
`OrientKeepsTheOverlay` gives the same of a runtime that also answers tasks.

For `Orient`, any graphs, tasks, scopes, replies and budgets. `PackAccounts` is all of
`PackAccountsForAll`, and `NothingIsLost` all of `NothingIsLostToABudget`:

1. The search. `Near` grows and is closed when it has reached the number of records
   (`NearIsClosed`), a path found descends through it and joins its ends (`DescentIsChain`, `ChainLinks`),
   and there is none exactly if a set of records closed under adjacency holds the start and no target
   (`SearchFinds`).
2. `Sound`, kept by each required anchor and each round (`AdmitIsSound`, `AnchorIsSound`, `RoundIsSound`):
   what is selected are records whose prefixes all fit, that hang together unless anchors may stand alone;
   nothing excluded is selected; each obligation has at most one residual; and what is excluded as
   out of reach stays so, because a path that is admitted stays on the side of what was selected
   (`ChainStaysApart`). This part is why no connectivity has to be computed again at the end.
3. The rounds end. Each but the last selects a candidate that was not, so one more than the number of
   candidates is enough (`CompletedIsSettled`): in the last one each candidate that is left is out of
   reach, over the budget and excluded for it, or gains nothing. `PacksAccountForAll` and `PacksLoseNothing`
   say so of any input, `PreparationIsInput` that a preparation is one: retrieval gives finitely many
   distinct documents with numbers for scores.
4. The session: an answer's pack is of the preparation and the summed budget, all handed out is
   in `emitted`, and no handle means no exclusion for the budget (`AnswerIsOfBudget`).

`RerankDecides`, all of `RerankDecidesNoObligation`. The argument goes along the code:

1. Retrieval. `Ordered` lists every element of a finite set once (`OrderingListsAll`); so every lane
   lists hits with numbers for scores (`TextLanesAreScored`, `HopIsScored`), and fusion candidates of
   distinct documents in a strict order (`AreCandidates`), none with a semantic score
   (`AreUnscored`).
2. The sidecar. `Rerank` adds to one candidate's semantic score and keeps the order
   (`RerankedAreCandidates`), whatever was replied: first conjunct of the property. Where roots
   were found the reply is not used at all, and the preparations are equal.
3. Packing without roots (`IsRetrieved`). All records have the same obligations and there is
   at most one anchor. Two inputs that differ in scores take the same required anchor
   (`RequiredAlike`), and from there a round selects more or is the last (`RoundSelectsMore`); that the loop
   chooses well is immaterial, only that its choice exists (`BestIsTaken`: among finitely many
   candidates with positive cost and distinct ids, the ratio of gain to cost with the tie-break is a
   strict total order). So something is selected exactly if an anchor or any record fits alone
   (`CompletedCovers`), and then every obligation is covered (`CoveredIsAll`): `SameVerdicts`.

What `Orient` assumes: the profile's numbers (`ProfileAssumption`) and the reranker's (`RerankAssumption`)
are numbers; a graph lists documents with distinct numbered ids, finitely many words in a name, and
countable tokens (`GraphsAssumption`); a task has finitely many words (`RequestsAssumption`);
`Missing` is no sequence of ids (`MissingAssumption`) and the limit of bodies a number (`BodyAssumption`).

**`RefactorsProofs`**, of the index of similar code and what is asked of it. It begins with the lemmas on
recursion over numbers, orders of finite sets and least numbers, which `GraphReadersProofs` uses too.

For `SimilarityBackground`, any graphs, workers and number of schedules. Five invariants:
a worker's stage says whether it has a job (`JobsFitStages`); a job of the present epoch is of
the graph scheduled last (`JobsAreOfLatest`); a worker that has passed the test of the epoch
holds the state lock, so its epoch can be outdated only while the owner waits for that lock
(`PublishersAreCurrent`); a schedule in progress has prepared the state (`ScheduleIsPrepared`);
and an index said to be under way has a job that waits or is worked on (`BuildIsUnderWay`). Together
they give `LookupsStaySound`: an index is of the latest graph, one thread works, and the status is
true.

For `Refactors`, any graphs, texts, scopes, requests and limits. Between schedules the
index that answers is of the graph scheduled last, or there is none (`ReadyIndexIsOfLatest`, from
`IndexIsOfLatest`); for each such pair `QuestionsAreAnswered` gives all three sets of questions of the
properties, so that `AnswersStayComplete` is all of `AnswersAreComplete` and `NothingGoesUnseen` all of
`NothingIsRemovedUnseen`. The argument goes along the code:

1. Order. `InOrder` lists each element once when the keys are tuples of numbers of one length that no two
   elements share (`InOrderLists`, by counting what is below; `LowerIsAnOrder`), and the `Leading` part is
   all of it where it fits (`LeadingIsFirst`). Places of documents end in the document's id, pairs in both
   ids, arcs have a place of their own: this is where distinct ids are needed.
2. Scores are shares of 1000, do not depend on which text is the left one, and are 0 where nothing is
   shared (`JaccardIsShare`, `BasisIsOfBoth`, `ScorePairIsOfBoth`).
3. Pairs. Members of buckets are numbered as their documents are placed, so the pairs that a budget
   keeps are pairs of documents with a run of tokens in common (`TextPairs`), and all of them unless it
   says that it cut (`TextPairsAreListed`); and the pairs of a part of the documents are those that join
   its ids (`BasesWithin`), which is why an index of the whole graph can answer for a scope. So a scan
   finds only what the request means, and all of it unless it names a budget (`ScanFinds`).
4. Rows. Evidence is reserved item by item within `EvidenceLimit`, whole or not at all (`ItemsAreKept`); a
   row has of each shared relation all proofs, and every relation to the two if nothing was cut
   (`RowsExist`, `ProofsAreAll`, `RowShowsAll`): `AnswerIsComplete`.
5. Strategies. Each score is between 0 and 1000 and a blocked one is not above the mildest, which is
   never blocked and wins ties (`BlockedScoresLess`, `StrategiesAreOrdered`); only `consolidate`, unblocked,
   removes, and then no gap was known (`OnlyConsolidationRemoves`): `AnswerIsCareful`.
6. Look-ups. The group of an exact copy has two members at least (`GroupsAreCopies`); a pair of the
   index that joins two functions holds the basis that a direct look-up computes (`JoinedByBasis`), and
   two long texts with a positive share of runs are such a pair (`TextsAreJoined`): `LookupsAgree`.

It assumes that limits and budgets are numbers (`LimitsAssumption`, `RefactorRequestsAssumption`, which also
names the four relations of a scope), and of a graph that it is finite, that ids, paths and starts are
numbers, ids are distinct, arcs have distinct places and counts are numbers (`IndexedGraphsAssumption`).

**`OpenGraphsProofs`**, of the two servers that keep a bounded number of graphs open.

For `ProjectServer`, any projects, slots, snapshots, connections and threads:

    Inv == TypeOK /\ OneRuntime /\ OneSlotPerProject /\ Bounded /\ BusyHasJob /\ CacheIsOfOpenGraphs
    Listed: the order of use lists each open project once, and nothing else

An open project's slot names it and each slot in use is its project's, so a project that
a request or a job still refers to is not opened a second time: a slot is evicted only when
nothing else refers to it. `Bounded` speaks of a request that has evicted and not yet
opened. A busy slot has its job queued, running or about to be submitted. What is cached is
of an open project at the snapshot its runtime has now: a job that refreshes holds the
runtime from before it changes to after it has emptied the cache. `Listed` needs the
first two: a project that is found is moved to the end of the order, one that is opened was not
listed, and one that is evicted is listed once, so that removing its first place removes it.
Theorems:
`ProjectsHaveOneSlot`, `OpenStaysBounded`, `BusySlotsHaveJobs`, `ResponsesAreOfOpenGraphs`,
`OrderStaysOfOpen`, `TypesHold`, and `SlotsStaySound`, which joins them. Assumptions: `MaxOpen` and `Capacity` are positive (`LimitsAssumption`), `Status` is a
key (`KeysAssumption`), `None` no value of the data (`ValuesAssumption`).

For `RepoRouter`, any repositories, calls, processes and handles. Two invariants:

1. `RouterInv == RouterTypeOK /\ Past /\ KnownAreNumbered /\ SpentAreGone` for the handles. A
   handle carries the process and the call that opened its backend; since that
   call is past (`Past`) and a call opens at most one backend, a new backend accepts
   none of the handles agents keep. A backend that accepts one has numbered it
   below its cursor, so the next number is new too.
2. `PlacesKept` for eviction: the uses of two entries differ and are what `lastUse`
   remembers, so the oldest entry, which exists because finite ranges of numbers are well
   founded under inclusion, was used before every other.

Theorems: `RouterTypesHold`, `HandlesReachOnlyTheirBackend`, `NoHandleExpandsTwice`,
`RepositoriesStayBounded`, `EvictionIsLeastRecentlyUsed`, `FailedLoadsEvictNothing`, and
`HandlesStaySound` and `EvictionStaysSound`, which join them.
Assumptions: `MaxRepos` is what `--max-repos` accepts, `Closed` is no entry, and that the
nonces of two processes differ, which is how `Incarnation` is modelled.

Only model-checked:

* Liveness (`LockComesFree`, `BuildSettles`, `Terminates`): fairness and `ENABLED` are out of the prover's reach.
* Of `QualityGates`: `StructureIsTold`, since communities pay only when they settle within `MaxPasses`, which
  the instance's graphs do and others need not; `GateIsHonest`, which needs that the search for cycles finds the
  strongly connected components; and `LicencesMeanWhatTheySay`, that a parser by recursive descent accepts
  what the grammar means.

## 6. Where code and documents disagree

One run ends in a counterexample of a sentence of a document:

* `backend_head` - HEAD is looked up twice while indexing; a checkout in between
  publishes one revision's tree under the other's name, and reuse serves it later
  (`index_helpers.rs:38`; "never to reused wrong data"). The trace has two calls: the first
  publishes such a generation and its open fails; the second, with HEAD at the revision it is
  named after, finds that `CURRENT` is that generation, takes it as it is (`reused`) and
  answers with contents no file had since the call began. `AnswersAreFresh` asks the same of every
  call where HEAD did not move between the two looks.

The following were found with these modules, by checking the stronger property that a document or
comment states. The passing properties are stated around them.

* An import that crashed after its batch was renamed and before its snapshot was
  replaced is a duplicate for every retry: success is reported and nothing counts it, until a prune
  that removes something rebuilds the snapshots (`observations.rs:136`, `152`; "Imports are idempotent
  and crash-safe", docs/superpowers/specs/2026-09-07-runtime-evidence-fusion-design.md:39).
* A prune that ends early leaves snapshots that count removed files, or none at all for files that
  are there; a batch that is imported again meanwhile is then counted twice (same design, 278: a
  "duplicate batch import succeeds as an idempotent no-op").
* The temporary file of a failed import lies in `batches/` and is counted by the
  rebuild of a prune beside the imported batch (`observations.rs:399`; "Reimporting the
  same batch is a no-op").
  `SnapshotsMatchBatches` asks, whatever failed, for exact counts of every batch but those that one of
  these three cases touched (`astray`), of which it asks that they be counted once at most before
  a prune removes something and never under another graph.
* The answers of architecture are kept until a refresh rebuilds the graph. One that only finds that
  its walk was cut short, or paths of no supported language, returns before it empties the cache
  (`runtime.rs:838` against 856), and so does one that fails; the repository gate may then pass on an answer
  from before (`architecture.rs:777`; README.md:263, "missing graph evidence can never be reported as a
  clean pass"; README.md:274, docs/sarif-gates.md:106). `GateIsHonest` allows these two cases and no other
  graph.
* `refresh` changes documents path by path and returns at the first read error; the
  next call finds nothing to do and answers from documents that its snapshot does not
  name (`runtime.rs:766`; "Revision-pinned snapshots"). `AnswersAreFresh`,
  `CachesAreOfTheGraph` and the properties of `CodeGraph` ask that no refresh failed.
* A job's guard is dropped after the slot was released and may clear the busy flag of
  the next job, after which a third is submitted (`projects.rs:66`;
  docs/alpha15-performance.md:12 promises one job per project). `BusyHasJob` says that a busy slot has *some* job.
* `trace_path` asserts in debug builds that it knows each neighbour (`graph_query.rs:595`);
  under a scope with IMPORTS a neighbour may be a named import, which it does not, and line
  603 looks it up.
* `refactors/strategies.rs:39-74`: `preserve_entrypoints` lists the moved helpers
  under `remove`, where refactor-graph-projection-design.md:77 leaves `remove` empty. Arcs of an
  IMPORTS scope are counted against the evidence budget and then dropped by `edge_json`,
  and callers outside the scope are not considered.
* Visible answers: the number of gaps of `detect_dead_code` is dropped (`response.rs:1048`),
  that of an import is to be added up from its ambiguous and unresolved observations
  (`response.rs:390`), `explain_symbol` takes its counts
  after the cut, so that a cut is never told, and traces and usages of evidence have no
  number of gaps. README.md:349-351, docs/search-discovery.md:39-46 and
  docs/agent-usage.md:45 promise that a count tells of every cut. The `at` tag of an answer
  (`response.rs:1191`) does not change when the working tree does.
* The router lists memory and gate tools whose calls it refuses as unknown
  (`multi_repo.rs:19` against the schema that `tools/list` returns); `memory_record`
  compares with the snapshot the server started with, not the one its backend
  refreshed to (`tools.rs:1193`).
* `memory.rs:180`: a recall may fail with `NotFound` while another process prunes.
  `ReadsFailOnlyOfExpiry` says when.
* `projects.rs:473`, `393`: a full queue sets the phase to "ready" whatever it was, and the error of a
  refresh stays until the project is evicted.
* An index pairs functions that call the same also when their text is shorter than
  `MIN_BODY_TOKENS` (`refactors.rs:653-690`), where the look-up without an index leaves such texts
  out (`refactors.rs:1266-1290`): a similar short text may be found only while an index is ready.
  `AgreeingLookups` compares the two answers on texts that are long enough.
* `refactors.rs:253`: a panic while an index is built would leave the running flag set.
  Nothing in the build is known to panic; it is not modelled.
* `missions.rs:135` matches missions with the gap rows of the answer, of which there are at most
  twenty (`risks.rs:438`): with more gaps, a mission whose paths lie in one that is not listed is not
  blocked (README.md:254, "coverage gaps block only affected missions"). `DoNotClash` compares
  both where all gaps are listed; the verdict of the gate counts them all.
* `frameworks.rs:574` counts the line of a match within its symbol's text, not within the file.
* An environment is required in NDJSON imports;
  2026-09-07-runtime-evidence-fusion-design.md:75 lets it default to `unknown`.

## 7. What is not modelled

* Language packs, canonical encodings and hashing: functions of their input, identities
  in the models. Parsing by tree-sitter is out of TLC's reach.
* JavaScript and PHP resolution, compiler input (SCIP), nested repositories, manifests and
  TypeScript inventories, the untracked-directory cache.
* Route and framework recognition beyond its gates, advisory matching, the graph layouts of the browser.
* The encodings and the seal of a capsule (`rcc.rs`, `qbec.rs`), which are reached only without
  a backend (`tools.rs` 767-818); normalization of a hand-made overlay (`delta.rs` 304-332).
* JSON, HTTP parsing, command line, installer, web client, metrics: input and output.
  `file_watcher.rs` has no caller.
* Loss of power in the evidence and memory stores; `fork` in any process but a writer of
  generations.

## 8. Plan

Order of importance: what a crash can destroy, then what an agent is told, then
what a user of the browser sees, then the algorithms.

1. *Done.* The three stores with their lock: `WriterLock`, `GenerationStore`,
   `PublishedGenerations`, `ObservationStore`, `MemoryStore`, with proofs.
2. *Done.* What an agent is told: `RuntimeRefresh`, `McpBackend`, `McpServer`, `Responses`,
   `CodeGraph`, `RuntimeEvidence`, `QualityGates`, `Orient`, `CgcrEngine` and `RepoRouter`
   with proofs.
3. *Done.* Threads: `SimilarityBackground` with `Refactors`, `ProjectServer`, with proofs.
4. *Done.* Proofs of `ObservationStore`, of `McpBackend`, `McpServer` and `Responses`, of the order of use of
   `ProjectServer`, of `DeltaOverlay`, of what the reranker decides and what a pack accounts for in `Orient`,
   of what `Refactors` answers;
   the step simulation behind `RefinesPromise`.
5. *Done.* Proofs of all that is checked of `CodeGraph`, and of the scan and the missions of
   `QualityGates`. Left: proofs about its cycles and its parser of licences.
6. JavaScript resolution in `ArcResolution`, a compiler input in `McpBackend`, and an
   instance of `ProjectServer` with two open projects once it fits.

## 9. Running the checks

    tlc -workers 2 -config MCGenerationStore.cfg MCGenerationStore.tla
    tlapm CgcrEngineProofs.tla

Each `.cfg` names its MC module. The longest run takes about two minutes, the longest
proofs (`GraphStoreProofs`, `McpServerProofs`, `ObservationStoreProofs`, `OpenGraphsProofs`,
`RefactorsProofs`) a few each, and `GraphReadersProofs` about twelve.
