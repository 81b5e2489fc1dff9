------------------------------- MODULE Responses -------------------------------
(***************************************************************************)
(* What the model behind an MCP client gets to see of an answer:           *)
(* crates/cgrx-mcp/src/tools/response.rs.  A structured answer has lists   *)
(* of items, how many there are of each and whether it was cut at the      *)
(* limit; its visible form has tables with a row for each item, paths      *)
(* numbered once, and some lists cut further.  The token-efficient profile *)
(* sends the visible form alone.  A cell is <<field, item>>, a path is a   *)
(* model value, and Null stands for a field that an item does not have.    *)
(***************************************************************************)
EXTENDS Integers, Sequences, FiniteSets

CONSTANTS
  Null,
  Files,     \* the paths of items
  Most,      \* the lists that are cut further, and the rows they keep
  MostFound  \* bound: items that an answer could list

ASSUME ListsAssumption ==
  /\ Null \notin Nat /\ MostFound \in Nat
  /\ \A l \in {"results", "issues", "symbol_communities", "unindexed", "import_gaps", "coverage_gaps"} :
       Most[l] \in Nat

Least(x, y) == IF x < y THEN x ELSE y
Take(n, s) == SubSeq(s, 1, Least(n, Len(s)))
If(b, s) == IF b THEN s ELSE <<>>

-----------------------------------------------------------------------------
(* Rows *)

(* The nth of a set of places, and what stands at these places. *)
Rank(places, k) == Cardinality({j \in places : j < k})
Nth(places, n) == CHOOSE k \in places : Rank(places, k) = n - 1
Picked(s, places) == [n \in 1 .. Cardinality(places) |-> s[Nth(places, n)]]

(* Each path is numbered from 0 where it is first used.                    *)
PathIds(used) ==
  LET firsts == {k \in DOMAIN used : \A j \in 1 .. k - 1 : used[j] # used[k]}
      First(k) == CHOOSE j \in firsts : used[j] = used[k]
  IN  [paths |-> Picked(used, firsts), ids |-> [k \in DOMAIN used |-> Rank(firsts, First(k))]]

Cell(item, field) ==
  CASE field = "path" -> item.path
    [] field \in item.absent -> Null
    [] OTHER -> <<field, item.id>>

Rows(items, fields) ==
  [n \in DOMAIN items |-> [k \in DOMAIN fields |-> Cell(items[n], fields[k])]]

(* The same with path_id cells, numbered over the rows in their order.     *)
PathsOf(items) == [n \in DOMAIN items |-> items[n].path]
NumberedRows(items, fields) ==
  LET ids == PathIds(PathsOf(items)).ids
  IN  [n \in DOMAIN items |-> [k \in DOMAIN fields |->
         IF fields[k] = "path_id" THEN ids[n] ELSE Cell(items[n], fields[k])]]

HasRefs(items) == \E n \in DOMAIN items : "symbol_ref" \notin items[n].absent

(* A list that is shown: its columns, its rows, and what tells of the rest.*)
(* An empty sequence of columns leaves the meaning of the cells unsaid.    *)
Shown(cols, rows, count, more) == [cols |-> cols, rows |-> rows, count |-> count, more |-> more]
Visible(paths, lists, gaps, partial) ==
  [paths |-> paths, lists |-> lists, gaps |-> gaps, partial |-> partial]
Told(a, l) == a.total[l]

-----------------------------------------------------------------------------
(* One operator for each shape of answer *)

Records(a, gaps) ==
  LET fields == <<"path", "start", "end", "text", "provenance">>
      rows == Rows(a.lists.records, fields)
  IN  Visible(<<>>, [records |-> Shown(fields, rows, Len(rows), FALSE)], gaps, Null)

CompactOrient(a) == Records(a, a.gaps)
CompactExpand(a) == Records(a, Null)

CompactSearch(a) ==
  LET refs == HasRefs(a.lists.matches)
      base == <<"symbol", "path", "start", "end", "callers", "callees">>
      row == (base \o If(refs, <<"symbol_ref">>)) \o <<"matched_by">>
      cols == (base \o If(refs, <<"symbol_ref">>)) \o <<"matched_by">>
  IN  Visible(<<>>, [matches |-> Shown(cols, Rows(a.lists.matches, row), Told(a, "matches"), a.more.matches)],
              a.gaps, Null)

CompactOutline(a) ==
  LET refs == If(HasRefs(a.lists.symbols), <<"symbol_ref">>)
      base == <<"symbol", "start", "end">>
      imports == <<"local", "symbol", "path", "start", "end", "site_start", "site_end",
                   "resolver", "confidence">>
  IN  Visible(<<>>,
        [symbols |-> Shown(base \o refs, Rows(a.lists.symbols, base \o refs), Told(a, "symbols"), a.more.symbols),
         imports |-> Shown(imports, Rows(a.lists.imports, imports), Told(a, "imports"), a.more.imports)],
        a.gaps, Null)

CompactTrace(a) ==
  LET refs == If(HasRefs(a.lists.nodes), <<"symbol_ref">>)
      cols == <<"symbol", "path_id", "hop", "direction">> \o If(a.evidence, <<"evidence", "count">>)
      row == <<"symbol", "path_id", "hop", "direction">> \o If(a.evidence, <<"evidence", "count">>)
  IN  Visible(PathIds(PathsOf(a.lists.nodes)).paths,
        [nodes |-> Shown(cols \o refs, NumberedRows(a.lists.nodes, row \o refs), Told(a, "nodes"), a.more.nodes)],
        a.gaps, Null)

CompactUsages(a) ==
  LET refs == If(HasRefs(a.lists.usages), <<"symbol_ref", "via_ref">>)
      base == <<"symbol", "path_id", "hop", "via", "relation", "site_start", "site_end", "resolver">>
      cols == base \o If(a.evidence, <<"evidence", "count">>)
      row == base \o If(a.evidence, <<"evidence", "count">>)
  IN  Visible(PathIds(PathsOf(a.lists.usages)).paths,
        [usages |-> Shown(cols \o refs, NumberedRows(a.lists.usages, row \o refs), Told(a, "usages"), a.more.usages)],
        a.gaps, Null)

(* Both functions of a candidate are numbered in one list of paths.        *)
PathPairs(found) ==
  [k \in 1 .. 2 * Len(found) |-> IF k % 2 = 1 THEN found[(k + 1) \div 2].path ELSE found[k \div 2].other]
PairRows(found, fields) ==
  LET ids == PathIds(PathPairs(found)).ids
  IN  [n \in DOMAIN found |-> <<ids[2 * n - 1], ids[2 * n]>> \o Rows(found, fields)[n]]
CandidateFields ==
  <<"language", "score", "shared_callees", "projection_id", "recommended_policy", "counterfactual_score",
    "reason_codes", "strategy_id">>

CompactRefactors(a) ==
  LET found == a.lists.candidates
  IN  Visible(PathIds(PathPairs(found)).paths,
        [candidates |-> Shown(<<"path_id", "other_id">> \o CandidateFields, PairRows(found, CandidateFields),
                              Told(a, "candidates"), a.more.candidates)],
        a.gaps, a.partial)

CompactDeadCode(a) ==
  LET fields == <<"symbol", "path", "span", "outgoing_calls">>
  IN  Visible(<<>>, [dead_symbols |-> Shown(fields, Rows(a.lists.dead_symbols, fields),
                                            Told(a, "dead_symbols"), a.more.dead_symbols)], Null, Null)

CompactExplain(a) ==
  LET Whole(l) == Shown(<<>>, a.lists[l], Told(a, l), FALSE)
  IN  Visible(<<>>, [callers |-> Whole("callers"), callees |-> Whole("callees"), usages |-> Whole("usages")],
              Null, Null)

CompactCoverage(a) ==
  LET fields == <<"path", "status", "gaps">>
  IN  Visible(<<>>, [paths |-> Shown(fields, Rows(a.lists.paths, fields), Null, FALSE),
                     scopes |-> Shown(<<>>, a.lists.scopes, Null, FALSE)], a.gaps, Null)

CompactRecall(a) ==
  LET fields == <<"id", "confidence", "fact">>
      rows == Rows(Take(Most.results, a.lists.results), fields)
  IN  Visible(<<>>, [results |-> Shown(fields, rows, Null, a.more.results)], Null, Null)

Recommended(issues) == Picked(issues, {n \in DOMAIN issues : "recommended" \notin issues[n].absent})

(* Symbol communities are cut without a word, but their total is shown;    *)
(* an issue is shown by its recommended strategy, and not without one.     *)
CompactArchitecture(a) ==
  LET Listed(l, fields) == Shown(fields, Rows(a.lists[l], fields), Told(a, l), a.more[l])
      communities == <<"label", "members", "cohesion", "packages", "edge_types", "path", "top_symbols">>
      issue == <<"issue_id", "kind", "packages", "boundary", "policy", "score", "reasons", "strategy_id">>
      chosen == Recommended(Take(Most.issues, a.lists.issues))
  IN  Visible(<<>>,
        [packages |-> Listed("packages", <<"name", "files", "symbols", "fan_in", "fan_out">>),
         boundaries |-> Listed("boundaries", <<"source", "target", "edges", "relations", "confidence",
                                               "path", "start", "end">>),
         hotspots |-> Listed("hotspots", <<"symbol", "path", "fan_in">>),
         cycles |-> Listed("cycles", <<"packages">>),
         communities |-> Listed("communities", <<"packages", "internal_weight", "cut_weight", "cohesion">>),
         symbol_communities |->
           Shown(communities, Rows(Take(Most.symbol_communities, a.lists.symbol_communities), communities),
                 Told(a, "symbol_communities"), a.more.symbol_communities),
         issues |-> Shown(issue, Rows(chosen, issue), Told(a, "issues"), Told(a, "issues") > Len(chosen))],
        a.gaps, a.partial)

CompactRisks(a) ==
  LET Listed(l, fields) == Shown(fields, Rows(a.lists[l], fields), Null, a.more[l])
  IN  Visible(<<>>,
        [findings |-> Listed("findings", <<"rule", "path", "line", "caller", "removed_path", "removed_symbol">>),
         impacts |-> Listed("impacts", <<"path", "caller", "target_path", "target", "line">>),
         tests |-> Listed("tests", <<"path", "symbol", "line", "impact", "depth", "status">>),
         unindexed |-> Shown(<<>>, Take(Most.unindexed, a.lists.unindexed), Told(a, "unindexed"), FALSE)],
        a.gaps, a.partial)

(* Each gap of an import is an observation that is ambiguous or unresolved,*)
(* and how many there are of these is shown.                               *)
CompactImport(a) ==
  Visible(<<>>, [import_gaps |-> Shown(<<>>, Take(Most.import_gaps, a.lists.import_gaps),
                                       Told(a, "import_gaps"), FALSE)], Null, Null)

(* A faulty CompactStatus: it counts the gaps that it shows.               *)
CompactStatusOfShown(a) ==
  LET shown == Take(Most.coverage_gaps, a.lists.coverage_gaps)
  IN  Visible(<<>>, [coverage_gaps |-> Shown(<<>>, shown, Len(shown), FALSE)], Len(shown), Null)

CompactStatus(a) ==
  Visible(<<>>, [coverage_gaps |-> Shown(<<>>, Take(Most.coverage_gaps, a.lists.coverage_gaps),
                                         Told(a, "coverage_gaps"), a.more.coverage_gaps)],
          a.gaps, Null)

(* Gates show their verdict; of the security and framework gates' findings *)
(* only how many there are.  The framework gate has no number of gaps.     *)
CompactGates(a, gaps) ==
  Visible(<<>>, [l \in DOMAIN a.lists |-> Shown(<<>>, <<>>, Len(a.lists[l]), FALSE)], gaps, a.partial)

ModelVisibleResult(tool, a) ==
  CASE tool = "orient" -> CompactOrient(a)
    [] tool = "expand" -> CompactExpand(a)
    [] tool = "search_graph" -> CompactSearch(a)
    [] tool = "get_outline" -> CompactOutline(a)
    [] tool = "trace_path" -> CompactTrace(a)
    [] tool = "find_usages" -> CompactUsages(a)
    [] tool = "suggest_refactors" -> CompactRefactors(a)
    [] tool = "detect_dead_code" -> CompactDeadCode(a)
    [] tool = "explain_symbol" -> CompactExplain(a)
    [] tool = "check_index_coverage" -> CompactCoverage(a)
    [] tool = "memory_recall" -> CompactRecall(a)
    [] tool = "get_architecture" -> CompactArchitecture(a)
    [] tool = "scan_risks" -> CompactRisks(a)
    [] tool = "ingest_runtime_evidence" -> CompactImport(a)
    [] tool = "status" -> CompactStatus(a)
    [] tool = "check_framework_gates" -> CompactGates(a, Null)
    [] OTHER -> CompactGates(a, a.gaps)

-----------------------------------------------------------------------------
(* Structured answers, as the runtime and the stores give them.  Lists     *)
(* that are cut at a limit, those whose number is reported, and those that *)
(* a flag covers; explain_symbol counts its lists after it cut them.  Some *)
(* answers report no gaps, nor do those about runtime evidence.            *)

ListsOf ==
  [orient |-> {"records"}, expand |-> {"records"}, search_graph |-> {"matches"},
   get_outline |-> {"symbols", "imports"}, trace_path |-> {"nodes"}, find_usages |-> {"usages"},
   suggest_refactors |-> {"candidates"}, detect_dead_code |-> {"dead_symbols"},
   explain_symbol |-> {"callers", "callees", "usages"}, check_index_coverage |-> {"paths", "scopes"},
   memory_recall |-> {"results"},
   get_architecture |-> {"packages", "boundaries", "hotspots", "cycles", "communities",
                         "symbol_communities", "issues"},
   scan_risks |-> {"findings", "impacts", "tests", "unindexed"},
   ingest_runtime_evidence |-> {"import_gaps"}, status |-> {"coverage_gaps"},
   check_security_gates |-> {"secrets", "dependencies", "licenses"},
   check_framework_gates |-> {"positive", "negative"},
   check_change_gates |-> {}, check_repository_gates |-> {}]

Unlimited == {"records", "paths", "scopes", "findings", "impacts", "import_gaps",
              "secrets", "dependencies", "licenses", "positive", "negative"}
Uncounted == (Unlimited \ {"import_gaps"}) \cup {"results", "tests"}
Unflagged == Unlimited \cup {"issues", "unindexed"}
Gapless == {"expand", "explain_symbol", "memory_recall", "ingest_runtime_evidence", "check_framework_gates"}

Structured(tool, found, limit, evidence, gaps) ==
  LET Limit(l) == IF l \in Unlimited THEN Len(found)
                  ELSE IF l = "results" THEN Least(limit, Most.results) ELSE limit
      lists == [l \in ListsOf[tool] |-> Take(Limit(l), found)]
      explains == tool = "explain_symbol"
      told == IF tool \in Gapless \/ (evidence /\ tool \in {"trace_path", "find_usages"}) THEN 0 ELSE gaps
  IN  [lists |-> lists, evidence |-> evidence, gaps |-> told, partial |-> gaps > 0,
       total |-> [l \in DOMAIN lists |-> IF explains THEN Len(lists[l])
                                         ELSE IF l \in Uncounted THEN Null ELSE Len(found)],
       more |-> [l \in DOMAIN lists |-> ~explains /\ l \notin Unflagged /\ Len(found) > Limit(l)]]

(* Every item has a symbol_ref, and an issue may have no strategy that is  *)
(* recommended.  Two functions of a candidate have a path each.            *)
Found ==
  UNION {[1 .. n -> [path : Files, other : Files, absent : {{}, {"recommended"}}]] : n \in 0 .. MostFound}
Item(found) == [n \in DOMAIN found |-> [id |-> n, path |-> found[n].path, other |-> found[n].other,
                                        absent |-> found[n].absent]]

Answers(tool) ==
  {[tool |-> tool, of |-> Structured(tool, Item(found), limit, evidence, gaps)] :
     found \in Found, limit \in 1 .. MostFound, evidence \in BOOLEAN, gaps \in 0 .. 1}

-----------------------------------------------------------------------------
(* Properties *)

Meant(v, cell, col) == IF col \in {"path_id", "other_id"} THEN v.paths[cell + 1] ELSE cell
Fact(item, col) ==
  CASE col = "path_id" -> item.path
    [] col = "other_id" -> item.other
    [] OTHER -> Cell(item, col)

(* Each cell of a row is what its column is called, paths by their number. *)
Readable(v, l, of) ==
  LET t == v.lists[l]
      items == IF l = "issues" THEN Recommended(of.lists[l]) ELSE of.lists[l]
  IN  t.cols # <<>> =>
        \A n \in DOMAIN t.rows :
          /\ Len(t.rows[n]) = Len(t.cols)
          /\ \A k \in DOMAIN t.cols : Meant(v, t.rows[n][k], t.cols[k]) = Fact(items[n], t.cols[k])

(* Fewer rows than items: a larger count or a flag says so, whether it was *)
(* the runtime that cut the list or the visible form.                      *)
TellsOfTheRest(v, l, of) ==
  LET t == v.lists[l]
      missing == \/ Len(of.lists[l]) > Len(t.rows)
                 \/ of.more[l]
                 \/ of.total[l] # Null /\ of.total[l] > Len(t.rows)
  IN  missing => t.more \/ (t.count # Null /\ t.count > Len(t.rows))

(* A reader of the visible answer alone reads the items of the structured  *)
(* one, learns where some of them are missing, and reads the number of its *)
(* gaps: but for detect_dead_code, which drops that number.                *)
TellsTheTruth(tool, v, of) ==
  /\ \A l \in DOMAIN v.lists : Readable(v, l, of) /\ TellsOfTheRest(v, l, of)
  /\ of.gaps > 0 /\ tool # "detect_dead_code" => v.gaps = of.gaps

Truthful ==
  {tool \in DOMAIN ListsOf :
     \A a \in Answers(tool) : TellsTheTruth(tool, ModelVisibleResult(tool, a.of), a.of)}
=============================================================================
