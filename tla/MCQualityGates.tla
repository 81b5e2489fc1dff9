----------------------------- MODULE MCQualityGates -----------------------------
(***************************************************************************)
(* Model-checking instance of QualityGates.  A repository is unremarkable  *)
(* but for one part: its graph (four symbols in three packages, any arcs   *)
(* of seven), its change (any fate of four symbols), the pattern matches   *)
(* of its texts, or what the security audit reads.                         *)
(***************************************************************************)
EXTENDS QualityGates

MCPackageOf == <<1, 2, 3, 3, 4>>
MCFileOf == <<1, 2, 3, 4>>

Arc(n, source, target) == [source |-> source, target |-> target, kind |-> "CALLS", site |-> n]
Use(n, file, found, to) == [file |-> file, found |-> found, to |-> to, kind |-> "IMPORTS", site |-> n]
Graph(arcs, uses, gaps) ==
  [files |-> 1 .. 4, symbols |-> 1 .. 4, arcs |-> arcs, uses |-> uses, gaps |-> gaps]

Arcs == {Arc(1, 1, 2), Arc(2, 2, 1), Arc(3, 2, 3), Arc(4, 3, 2), Arc(5, 3, 1), Arc(6, 4, 3), Arc(7, 1, 3)}
Graphs ==
  {Graph(arcs, {}, 0) : arcs \in SUBSET Arcs}
  \cup {Graph({Arc(1, 1, 2)}, uses, gaps) :
          uses \in SUBSET 
                        {Use(8, 2, "Proven", 1), Use(9, 1, "External", 1),
                         Use(10, 3, "UnresolvedLocal", 1), Use(11, 2, "Proven", 5)},
          gaps \in 0 .. 1}

-----------------------------------------------------------------------------
MCRepoPaths == 1 .. 4
MCPathOf == <<1, 1, 2, 3>>
MCNameOf == <<"f", "h", "g", "t">>
MCBaseCalls == <<<<3, 1>>, <<3, 2>>, <<4, 1>>, <<4, 3>>>>

NoGaps == [p \in MCRepoPaths |-> {}]
Change(now, kept) ==
  LET holds(c) == now[c[1]] = "same" \/ (now[c[1]] = "edited" /\ c[1] \in kept) IN
  [now |-> now,
   live |-> {c \in ToSet(MCBaseCalls) : holds(c) /\ now[c[2]] \in {"same", "edited"}},
   retained |-> {c \in ToSet(MCBaseCalls) : holds(c) /\ now[c[2]] = "gone"},
   edited |-> {MCPathOf[s] : s \in {s \in 1 .. 4 : now[s] # "same"}},
   others |-> {}, before |-> NoGaps, after |-> NoGaps, unindexed |-> {}, unread |-> {}, cut |-> FALSE]
Unchanged == Change([s \in 1 .. 4 |-> "same"], {})

Nows == [1 .. 4 -> {"same", "edited", "gone", "twice"}]
Plain == {Change(now, kept) : now \in Nows, kept \in {{}, {3, 4}}}
Few == {c \in Plain : c.now[1] # "same" /\ c.now[4] = "same" /\ "twice" \notin {c.now[s] : s \in 1 .. 4}}
Changes ==
  Plain
  \cup {[c EXCEPT !.others = {"f"}] : c \in Few}
  \cup {[c EXCEPT !.before = [@ EXCEPT ![2] = {r}]] : c \in Few, r \in {"PARSER", "DYNAMIC_DISPATCH"}}
  \cup {[c EXCEPT !.after = [@ EXCEPT ![3] = {r}]] : c \in Few, r \in {"PARSER", "DYNAMIC_DISPATCH"}}
  \cup {[c EXCEPT !.unindexed = {4}] : c \in Few} \cup {[c EXCEPT !.edited = @ \cup {2, 4}] : c \in Few}
  \cup {[c EXCEPT !.unread = {p}] : c \in Few, p \in {1, 3}}
  \cup {[c EXCEPT !.cut = TRUE] : c \in Few}

Run(test, fresh, status) == [test |-> test, fresh |-> fresh, status |-> status]
MCTestRuns ==
  {<<>>, <<Run(4, FALSE, "passed")>>, <<Run(4, TRUE, "failed"), Run(4, TRUE, "passed")>>,
   <<Run(3, TRUE, "passed"), Run(4, TRUE, "passed")>>, <<Run(4, TRUE, "passed")>>}

-----------------------------------------------------------------------------
Match(pattern, at, good) == [framework |-> "django", pattern |-> pattern, at |-> at, good |-> good]
Text(start, matches) == [path |-> 1, start |-> start, language |-> "py", matches |-> matches]
Texts ==
  {{Text(0, good \cup bad)} \cup nested :
     good \in {{}, {Match("urlpatterns", 1, TRUE)}, {Match("path", i, TRUE) : i \in 1 .. 3}},
     bad \in SUBSET {Match("import flask", i, FALSE) : i \in 1 .. 2},
     nested \in {{}, {Text(4, {Match("path", 2, TRUE)})}}}

-----------------------------------------------------------------------------
File(path, allowed, kind, found) == [path |-> path, allowed |-> allowed, kind |-> kind, found |-> found]
Package(placeholder, suspicious, high) ==
  [placeholder |-> placeholder, suspicious |-> suspicious, high |-> high]
Audit(git, files, lock, licenses) == [git |-> git, files |-> files, lock |-> lock, licenses |-> licenses]

Tokens == {"MIT", "GPL", "(", ")", "AND", "OR", "WITH"}
Rows == {<<row>> : row \in UNION {[1 .. n -> Tokens] : n \in 1 .. 3}}
        \cup {<<<<"(", "GPL", "OR", "MIT", ")", "AND", "MIT">>>>, <<<<"GPL", "AND", "MIT", "OR", "MIT">>>>,
              <<<<"MIT", "OR", "MIT", "AND", "GPL">>>>, <<<<"MIT", "WITH", "MIT", "AND", "MIT">>>>,
              <<<<"MIT", "AND", "(", "MIT", ")">>>>, <<<<"GPL", "or", "MIT">>>>, <<<<"MIT", "or", "or">>>>, <<<<"and">>>>,
              <<<<"MIT", "or", "MIT", "and", "GPL">>>>, <<<<"MIT", "with", "GPL">>>>, <<<<"MIT">>, <<"GPL">>>>, <<<<>>>>, <<>>}
MIT == <<<<"MIT">>>>
Audits ==
  {Audit(TRUE, {}, <<>>, rows) : rows \in Rows \cup {Missing}}
  \cup {Audit(git, {File(1, allowed, kind, found)}, <<>>, MIT) :
          git \in BOOLEAN, allowed \in BOOLEAN, found \in 0 .. 2,
          kind \in {"text", "binary", "special", "large", "unreadable"}}
  \cup {Audit(TRUE, {}, lock, MIT) :
          lock \in {Missing} \cup {<<Package(x, y, z)>> : x \in BOOLEAN, y \in BOOLEAN, z \in BOOLEAN}}

-----------------------------------------------------------------------------
Repository(graph, change, texts, audit) ==
  [graph |-> graph, change |-> change, texts |-> texts, audit |-> audit]
Quiet == Repository(Graph({}, {}, 0), Unchanged, {}, Audit(TRUE, {}, <<>>, MIT))
MCRepositories ==
  {[Quiet EXCEPT !.graph = g] : g \in Graphs} \cup {[Quiet EXCEPT !.change = c] : c \in Changes}
  \cup {[Quiet EXCEPT !.texts = t] : t \in Texts} \cup {[Quiet EXCEPT !.audit = a] : a \in Audits}
MCRefreshes == {Quiet, [Quiet EXCEPT !.graph.gaps = 1], [Quiet EXCEPT !.graph = Graph(Arcs, {}, 0)]}

MCRequests == {[scope |-> 1 .. 5, offset |-> page[1], limit |-> page[2]] :
                 page \in {<<0, 1>>, <<1, 1>>, <<0, GateLimit>>}}

MCDemands == {<<"error", 0, 0>>, <<"error", 0, 9>>, <<"warning", 1, 2>>, <<"none", 0, 1>>}

(* Bounds: a session ends with the first report of a gate, and with the    *)
(* first failed refresh of a graph that no refresh meets.                  *)
OneReport == report = Missing
FewFailures == failed => since \subseteq {r.graph : r \in Refreshes}
=============================================================================
