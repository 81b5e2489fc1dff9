------------------------------ MODULE QualityGates ------------------------------
(***************************************************************************)
(* The four quality gates and their SARIF export: change and repository    *)
(* gates (cgrx-mcp tools/response.rs), framework gates (frameworks.rs),    *)
(* the security audit (security.rs) and gate_to_sarif (sarif.rs).  The     *)
(* repository gate asks get_architecture, which the runtime caches.        *)
(***************************************************************************)
EXTENDS Architecture, ChangeRisks

CONSTANTS
  Repositories,   \* states of a working tree that the gates are asked about
  Refreshes,      \* those that a refresh meets
  Requests,       \* get_architecture arguments: scope, offset, limit
  GateLimit,      \* the page that the repository gate asks for
  CacheLimit,     \* ARCHITECTURE_CACHE_ENTRY_LIMIT
  BatchLimit,     \* findings a security check returns
  ScanLimit,      \* findings and impacts a scan returns
  Demands,        \* what a gate is asked with: fail_on, and the thresholds of
                  \* its rules for errors and of those for warnings
  TestRuns,       \* recorded test runs
  Allowlist,      \* licences allowed
  Missing

ASSUME GatesAssumption ==
  /\ ScanLimit \in Nat
  /\ \A r \in Repositories \cup Refreshes : IsChange(r.change)
  /\ \A runs \in TestRuns : \A r \in ToSet(runs) : r.status \in {"passed", "failed"}

(* A row of the inventory is a list of tokens, and Missing is none.        *)
ASSUME RowsAssumption ==
  /\ Missing \notin {"(", ")", "AND", "OR", "WITH", "and", "or", "with"}
  /\ \A r \in Repositories \cup Refreshes :
       r.audit.licenses # Missing =>
         \A row \in ToSet(r.audit.licenses) : row \in Seq(STRING) /\ Missing \notin ToSet(row)

VARIABLES
  repository,   \* what a refresh has read: graph, change, detected, audit
  cache,        \* [get_architecture arguments -> answer]
  since,        \* a history: the graphs there were since cache was emptied
  failed,       \* a history: a refresh has failed since then
  report        \* what the last gate answered, or Missing
gatesVars == <<repository, cache, since, failed, report>>

-----------------------------------------------------------------------------
(* What every gate does with its rules *)

Rule(rule, value, threshold, severity) ==
  [rule |-> rule, value |-> value, threshold |-> threshold, severity |-> severity,
   status |-> IF value > threshold THEN "breached" ELSE "passed"]
Breached(rules, severity) == \E r \in rules : r.status = "breached" /\ r.severity = severity

Verdict(rules, partial) ==
  IF Breached(rules, "error") THEN "FAIL"
  ELSE IF partial THEN "INCONCLUSIVE"
  ELSE IF Breached(rules, "warning") THEN "WARN" ELSE "PASS"

WouldBlock(rules, partial, failOn) ==
  CASE failOn = "none" -> FALSE
    [] failOn = "warning" -> Breached(rules, "error") \/ Breached(rules, "warning") \/ partial
    [] failOn = "error" -> Breached(rules, "error") \/ partial

Judged(tool, rules, partial, failOn, gaps, findings) ==
  [tool |-> tool, rules |-> rules, partial |-> partial, fail_on |-> failOn,
   verdict |-> Verdict(rules, partial), would_block |-> WouldBlock(rules, partial, failOn),
   coverage_gaps |-> gaps, findings |-> findings]

-----------------------------------------------------------------------------
(* The change gate and the repository gate *)

EvaluateChangeGates(scan, failOn, level, warn) ==
  Judged("check_change_gates",
    {Rule("max_warning_findings", Len(scan.findings), level, "error"),
     Rule("max_blocked_missions",
          Cardinality({i \in DOMAIN scan.missions : scan.missions[i].blocking # {}}), level, "error"),
     Rule("max_coverage_gaps", Cardinality(scan.gaps), level, "error"),
     Rule("max_unverified_impacts", Len(scan.impacts), warn, "warning")},
    scan.partial, failOn, ToSet(scan.listed), <<>>)

EvaluateRepositoryGates(architecture, failOn, level, warn) ==
  Judged("check_repository_gates",
    {Rule("max_package_cycles", architecture.total_cycles, level, "error"),
     Rule("max_package_fan_out", Max({0} \cup {p.fan_out : p \in ToSet(architecture.packages)}), warn, "warning"),
     Rule("max_symbol_fan_in", Max({0} \cup {h.fan_in : h \in ToSet(architecture.hotspots)}), warn, "warning"),
     Rule("max_unresolved_local_dependencies", architecture.unresolved, level, "error"),
     Rule("max_coverage_gaps", architecture.gaps, level, "error")},
    architecture.partial, failOn, 1 .. architecture.gaps, <<>>)

-----------------------------------------------------------------------------
(* Frameworks: patterns found in the texts of symbols *)

Frameworks == {"django", "fastapi", "express"}
LanguageOf == [django |-> "py", fastapi |-> "py", express |-> "js"]

(* A place in a text counts once for every offset it is taken to have.     *)
Occurrences(documents, framework, good) ==
  UNION {{<<d.path, m.pattern, d.start + m.at>> :
            m \in {m \in d.matches : m.framework = framework /\ m.good = good}} :
         d \in {d \in documents : d.language = LanguageOf[framework]}}

Confidence(positive, negative) ==
  IF positive = 0 THEN 0
  ELSE IF negative = 0 THEN IF positive >= 3 THEN 3 ELSE 2
  ELSE IF positive > negative THEN 1 ELSE 0

EvaluateFrameworkGates(documents, failOn, level, warn) ==
  LET Count(f, good) == Cardinality(Occurrences(documents, f, good)) IN
  Judged("check_framework_gates",
    {Rule("max_framework_confidence",
          Max({Confidence(Count(f, TRUE), Count(f, FALSE)) : f \in Frameworks}), warn, "warning"),
     Rule("max_false_positive_matches",
          FoldFunction(+, 0, [f \in Frameworks |-> Count(f, FALSE)]), level, "error")},
    FALSE, failOn, {}, <<>>)

-----------------------------------------------------------------------------
(* The licence expressions of an inventory, as a list of tokens *)

Peek(tokens, i) == IF i <= Len(tokens) THEN tokens[i] ELSE Missing
(* A keyword in another case is still one, where one may stand.            *)
Upper == [and |-> "AND", or |-> "OR", with |-> "WITH"]
Keyword(token) == IF token \in DOMAIN Upper THEN Upper[token] ELSE token
Failed == [ok |-> FALSE, next |-> 0, allowed |-> FALSE]
Parsed(next, allowed) == [ok |-> TRUE, next |-> next, allowed |-> allowed]

(* left is what was read so far, and a rule reads on from there.           *)
ParseFrom(tokens, first, from) ==
  LET Both(left, right) == [right EXCEPT !.allowed = left.allowed /\ @]
      Either(left, right) == [right EXCEPT !.allowed = left.allowed \/ @]
      Bracket(inner) ==
        IF inner.ok /\ Peek(tokens, inner.next) = ")" THEN Parsed(inner.next + 1, inner.allowed) ELSE Failed
      parse[rule \in {"expression", "terms", "term", "factors", "factor"},
            left \in [ok : BOOLEAN, next : 0 .. Len(tokens) + 1, allowed : BOOLEAN]] ==
        LET i == left.next
            token == Peek(tokens, i)
            after == Parsed(i + 1, FALSE)
        IN
        IF ~left.ok THEN Failed
        ELSE CASE rule = "expression" -> parse["terms", parse["term", left]]
               [] rule = "terms" ->
                    IF Keyword(token) # "OR" THEN left ELSE parse["terms", Either(left, parse["term", after])]
               [] rule = "term" -> parse["factors", parse["factor", left]]
               [] rule = "factors" ->
                    IF Keyword(token) # "AND" THEN left ELSE parse["factors", Both(left, parse["factor", after])]
               [] rule = "factor" ->
                    IF token = "(" THEN Bracket(parse["expression", after])
                    ELSE IF token \in {")", "AND", "OR", "WITH", Missing} THEN Failed
                    ELSE IF Keyword(Peek(tokens, i + 1)) # "WITH" THEN Parsed(i + 1, token \in Allowlist)
                    ELSE IF Peek(tokens, i + 2) = Missing THEN Failed
                    ELSE Parsed(i + 3, {token, tokens[i + 2]} \subseteq Allowlist)
  IN  parse[first, from]

ParseExpression(tokens) == ParseFrom(tokens, "expression", Parsed(1, FALSE))

(* A faulty LicenseExpressionAllowed: what follows the expression is lost. *)
LicenseAllowedPrefix(tokens) ==
  LET parsed == ParseExpression(tokens) IN parsed.ok /\ parsed.allowed

LicenseExpressionAllowed(tokens) ==
  LET parsed == ParseExpression(tokens) IN parsed.ok /\ parsed.allowed /\ parsed.next = Len(tokens) + 1

-----------------------------------------------------------------------------
(* The security audit: candidates in the diff, the lock file, licences *)

Batch(total, gaps) ==
  [total |-> total, returned |-> Capped(total, BatchLimit), truncated |-> total > BatchLimit, gaps |-> gaps]
Unread(component) == Batch(0, {<<component, "error">>})

(* A file that cannot be read ends the whole check; one of a kind that is  *)
(* not searched is a gap of its own.                                       *)
SecretDiff(audit) ==
  LET files == {f \in audit.files : ~f.allowed} IN
  IF ~audit.git \/ \E f \in files : f.kind = "unreadable" THEN Unread("secret_diff")
  ELSE Batch(FoldFunction(+, 0, [f \in files |-> IF f.kind = "text" THEN f.found ELSE 0]),
             {<<"secret_diff", f.kind, f.path>> : f \in {f \in files : f.kind \in {"binary", "special", "large"}}})

(* A placeholder version is the only finding of its package.               *)
Dependencies(audit) ==
  IF audit.lock = Missing THEN Unread("dependencies")
  ELSE Batch(FoldFunction(+, 0,
               [i \in DOMAIN audit.lock |->
                  LET p == audit.lock[i] IN
                  IF p.placeholder THEN 1 ELSE Cardinality({k \in {"suspicious", "high"} : p[k]})]), {})

Licenses(audit) ==
  IF audit.licenses \in {Missing, <<>>} \/ <<>> \in ToSet(audit.licenses) THEN Unread("licenses")
  ELSE Batch(Len(SelectSeq(audit.licenses, LAMBDA row : ~LicenseExpressionAllowed(row))), {})

JudgedBatches(batches, failOn, level) ==
  LET gaps == UNION {batches[b].gaps : b \in DOMAIN batches}
              \cup {<<b, "FINDINGS_TRUNCATED">> : b \in {b \in DOMAIN batches : batches[b].truncated}}
  IN  Judged("check_security_gates",
        {Rule("max_secret_findings", batches.secret_diff.total, level, "error"),
         Rule("max_dependency_findings", batches.dependencies.total, level, "error"),
         Rule("max_license_findings", batches.licenses.total, level, "error")},
        gaps # {}, failOn, gaps,
        [max_secret_findings |-> batches.secret_diff.returned,
         max_dependency_findings |-> batches.dependencies.returned,
         max_license_findings |-> batches.licenses.returned])

EvaluateSecurityGates(audit, failOn, level) ==
  JudgedBatches([secret_diff |-> SecretDiff(audit), dependencies |-> Dependencies(audit),
                 licenses |-> Licenses(audit)], failOn, level)

-----------------------------------------------------------------------------
(* gate_to_sarif checks a report against its rules and lists what it shows *)

SarifRefuses(gate) ==
  LET breached == {r \in gate.rules : r.value > r.threshold}
      severe == {r.severity : r \in breached}
      expected == IF "error" \in severe THEN "FAIL"
                  ELSE IF gate.partial THEN "INCONCLUSIVE"
                  ELSE IF "warning" \in severe THEN "WARN" ELSE "PASS"
      blocking == \/ gate.fail_on # "none" /\ ("error" \in severe \/ gate.partial)
                  \/ gate.fail_on = "warning" /\ "warning" \in severe
  IN  \/ \E r, s \in gate.rules : r # s /\ r.rule = s.rule
      \/ \E r \in gate.rules : (r.status = "breached") # (r \in breached)
      \/ gate.verdict # expected
      \/ gate.would_block # blocking

GateToSarif(gate) ==
  LET breached == {r \in gate.rules : r.status = "breached"}
      coverage == \E r \in gate.rules : r.rule = "max_coverage_gaps"
      gapsShown == gate.partial \/ \E r \in breached : r.rule = "max_coverage_gaps"
  IN  {[rule |-> "gate-verdict", verdict |-> gate.verdict]}
      \cup {[rule |-> r.rule, level |-> r.severity] : r \in breached}
      \cup (IF gapsShown
            THEN {[rule |-> IF coverage THEN "max_coverage_gaps" ELSE "coverage-gap", gap |-> g] :
                    g \in gate.coverage_gaps}
            ELSE {})
      \cup UNION {{[rule |-> r.rule, finding |-> i] : i \in 1 .. gate.findings[r.rule]} :
                  r \in {r \in breached : r.rule \in DOMAIN gate.findings}}

-----------------------------------------------------------------------------
(* Requests.  Only a refresh that rebuilds the graph empties the cache of  *)
(* architecture: one that finds nothing to rebuild may have changed what   *)
(* is missing of the graph, and one that fails anything it came to.        *)

(* A faulty CacheKey: a page is taken for the whole. *)
CacheKeyOfScope(scope, offset, limit) == <<scope>>

CacheKey(scope, offset, limit) == <<scope, offset, limit>>

Architecture(scope, offset, limit) ==
  LET key == CacheKey(scope, offset, limit) IN
  IF key \in DOMAIN cache THEN cache[key]
  ELSE GetArchitecture(repository.graph, scope, offset, limit)

Remember(scope, offset, limit) ==
  LET key == CacheKey(scope, offset, limit)
      kept == IF Cardinality(DOMAIN cache) >= CacheLimit /\ key \notin DOMAIN cache THEN <<>> ELSE cache
  IN  cache' = (key :> Architecture(scope, offset, limit)) @@ kept

GatesInit ==
  /\ repository \in Repositories
  /\ cache = <<>>
  /\ since = {repository.graph}
  /\ failed = FALSE
  /\ report = Missing

RefreshRepository ==
  /\ repository' \in Refreshes \ {repository}
  /\ cache' = <<>>
  /\ since' = {repository'.graph}
  /\ failed' = FALSE
  /\ report' = Missing

(* No source changed: the walk was cut short, or whole again, or a path of *)
(* no supported language came or went.                                     *)
RefreshCoverage ==
  /\ \E r \in Refreshes \ {repository} :
       /\ r = [repository EXCEPT !.graph.gaps = r.graph.gaps]
       /\ repository' = r
  /\ since' = since \cup {repository'.graph}
  /\ report' = Missing
  /\ UNCHANGED <<cache, failed>>

FailRefresh ==
  /\ repository' \in Refreshes \ {repository}
  /\ since' = since \cup {repository'.graph}
  /\ failed' = TRUE
  /\ report' = Missing
  /\ UNCHANGED cache

AskArchitecture(request) ==
  /\ Remember(request.scope, request.offset, request.limit)
  /\ report' = Missing
  /\ UNCHANGED <<repository, since, failed>>

CheckRepositoryGates(scope, failOn, level, warn) ==
  /\ Remember(scope, 0, GateLimit)
  /\ report' = EvaluateRepositoryGates(Architecture(scope, 0, GateLimit), failOn, level, warn)
  /\ UNCHANGED <<repository, since, failed>>

CheckChangeGates(failOn, level, warn) ==
  /\ report' = EvaluateChangeGates(ScanRisks(repository.change, ScanLimit, <<>>), failOn, level, warn)
  /\ UNCHANGED <<repository, cache, since, failed>>

CheckFrameworkGates(failOn, level, warn) ==
  /\ report' = EvaluateFrameworkGates(repository.texts, failOn, level, warn)
  /\ UNCHANGED <<repository, cache, since, failed>>

CheckSecurityGates(failOn, level) ==
  /\ report' = EvaluateSecurityGates(repository.audit, failOn, level)
  /\ UNCHANGED <<repository, cache, since, failed>>

GatesNext ==
  \/ RefreshRepository \/ RefreshCoverage \/ FailRefresh
  \/ \E request \in Requests : AskArchitecture(request)
  \/ \E demand \in Demands :
       LET failOn == demand[1]
           level == demand[2]
           warn == demand[3]
       IN  \/ CheckRepositoryGates(DOMAIN PackageOf, failOn, level, warn)
           \/ CheckChangeGates(failOn, level, warn)
           \/ CheckFrameworkGates(failOn, level, warn)
           \/ CheckSecurityGates(failOn, level)

GatesSpec == GatesInit /\ [][GatesNext]_gatesVars

-----------------------------------------------------------------------------
Scan == ScanRisks(repository.change, ScanLimit, <<>>)
(* What is claimed of a repository alone is looked at once for each.       *)
NothingAsked == report = Missing /\ cache = <<>>
Threshold(severity) == (CHOOSE r \in report.rules : r.severity = severity).threshold
Reaches(graph) ==
  LET edges == {<<c.from, c.to>> : c \in {c \in Crossings(graph, DOMAIN PackageOf) :
                                            c.to \in PackagesIn(graph, DOMAIN PackageOf)}}
      within[k \in 0 .. Cardinality(edges)] ==
        IF k = 0 THEN edges
        ELSE within[k - 1] \cup {<<x[1][1], x[2][2]>> : x \in {x \in edges \X within[k - 1] : x[1][2] = x[2][1]}}
  IN  within[Cardinality(edges)]
CirclesOf(graph, reaches) ==
  {{q \in PackagesIn(graph, DOMAIN PackageOf) : {<<p, q>>, <<q, p>>} \subseteq reaches} :
     p \in {p \in PackagesIn(graph, DOMAIN PackageOf) : <<p, p>> \in reaches}}
Circles(graph) == CirclesOf(graph, Reaches(graph))

(* What a licence expression means: a choice of alternatives, each of     *)
(* factors, each a licence, a licence with an exception, or an expression *)
(* in brackets.                                                            *)
Meaning(tokens) ==
  LET words == {i \in DOMAIN tokens : tokens[i] \notin {"(", ")", "AND", "OR", "WITH"}}
      Grown(known) ==
        [factor |->
           {<<i, i, tokens[i] \in Allowlist>> : i \in words}
           \cup {<<i, i + 2, tokens[i] \in Allowlist /\ tokens[i + 2] \in Allowlist>> :
                   i \in {i \in words : i + 2 <= Len(tokens) /\ Keyword(tokens[i + 1]) = "WITH"}}
           \cup {<<s[1] - 1, s[2] + 1, s[3]>> :
                   s \in {s \in known.choice : /\ s[1] > 1 /\ s[2] < Len(tokens)
                                               /\ tokens[s[1] - 1] = "(" /\ tokens[s[2] + 1] = ")"}},
         term |-> known.factor
           \cup {<<x[1][1], x[2][2], x[1][3] /\ x[2][3]>> :
                   x \in {x \in known.term \X known.factor :
                            x[1][2] + 2 = x[2][1] /\ Keyword(tokens[x[1][2] + 1]) = "AND"}},
         choice |-> known.term
           \cup {<<x[1][1], x[2][2], x[1][3] \/ x[2][3]>> :
                   x \in {x \in known.choice \X known.term :
                            x[1][2] + 2 = x[2][1] /\ Keyword(tokens[x[1][2] + 1]) = "OR"}}]
      known[k \in 0 .. 3 * Len(tokens)] ==
        IF k = 0 THEN [factor |-> {}, term |-> {}, choice |-> {}] ELSE Grown(known[k - 1])
  IN  tokens # <<>> /\ <<1, Len(tokens), TRUE>> \in known[3 * Len(tokens)].choice

(* A graph the repository gate is to pass: nothing is missing of it, no    *)
(* import is unresolved, and it keeps the thresholds.                      *)
ToPass(graph) ==
  LET scope == DOMAIN PackageOf IN
  /\ graph.gaps = 0 /\ ~\E u \in graph.uses : u.found = "UnresolvedLocal"
  /\ Cardinality(Circles(graph)) <= Threshold("error")
  /\ \A p \in PackagesIn(graph, scope) : FanOut(graph, scope, p) <= Threshold("warning")
  /\ \A s \in graph.symbols : Cardinality({a \in graph.arcs : a.target = s}) <= Threshold("warning")

(* What a gate passes is in order: no change is unexplained, and no file,  *)
(* package or licence went unread.  And the repository gate, which may     *)
(* answer from a cache, passes exactly the graphs that are: of the graph   *)
(* there is, but for what went missing of it since it was last rebuilt; or *)
(* after a refresh that failed, of one there was since.                    *)
VerdictIsDue ==
  report # Missing =>
    /\ report.tool = "check_repository_gates" =>
         \E graph \in since :
           /\ report.verdict = "PASS" <=> ToPass(graph)
           /\ ~failed => graph = [repository.graph EXCEPT !.gaps = graph.gaps]
    /\ report.tool = "check_change_gates" /\ report.verdict = "PASS" =>
         /\ ~repository.change.cut /\ repository.change.unindexed = {}
         /\ \A p \in repository.change.edited : repository.change.after[p] = {}
    /\ report.tool = "check_security_gates" /\ report.verdict = "PASS" =>
         LET audit == repository.audit IN
         /\ audit.git /\ audit.lock # Missing /\ audit.licenses # Missing
         /\ \A f \in audit.files : f.allowed \/ f.kind = "text"
         /\ Threshold("error") = 0 =>
              /\ \A f \in audit.files : f.allowed \/ f.found = 0
              /\ \A row \in ToSet(audit.licenses) : Meaning(row)

(* gate_to_sarif accepts the report of every gate, and shows why one that  *)
(* does not pass does not: the rule that is breached, or what is missing.  *)
SarifAgrees ==
  report # Missing =>
    /\ ~SarifRefuses(report)
    /\ report.verdict \in {"FAIL", "WARN"} =>
         \E r \in report.rules : [rule |-> r.rule, level |-> r.severity] \in GateToSarif(report)
    /\ report.verdict = "INCONCLUSIVE" =>
         \E g \in report.coverage_gaps :
           \E id \in {"coverage-gap", "max_coverage_gaps"} : [rule |-> id, gap |-> g] \in GateToSarif(report)

(* A gate passes only what is in order, and its report as SARIF says the   *)
(* same.                                                                   *)
GateIsHonest == VerdictIsDue /\ SarifAgrees

(* The licence parser accepts an inventory row exactly when the expression *)
(* it spells allows it.                                                    *)
LicencesMeanWhatTheySay ==
  NothingAsked /\ repository.audit.licenses # Missing =>
    \A row \in ToSet(repository.audit.licenses) : LicenseExpressionAllowed(row) <=> Meaning(row)

(* An issue of the plan never recommends a future that its gaps block, and *)
(* every cycle of the page has one, as has every symbol of the page that   *)
(* as many arcs reach as make it a hotspot.                                *)
PlansAreOpen ==
  \A key \in DOMAIN cache :
    LET issues == cache[key].issues
        Told(kind, about) == \E issue \in issues : issue.kind = kind /\ about = issue.of
    IN
    /\ \A issue \in issues : ~issue.futures[1].blocked
    /\ \A c \in ToSet(cache[key].cycles) :
         \E edge \in c \X c : Told("PACKAGE_DEPENDENCY_CYCLE", edge)
    /\ \A h \in ToSet(cache[key].hotspots) :
         h.fan_in >= HotspotFanIn => Told("HIGH_FAN_IN_HOTSPOT", h.symbol)

(* Communities partition the packages, and the symbols, and none of these  *)
(* would do better in the community of another: modularity would not grow. *)
Pay(weights, found) ==
    LET Moved(n, T) == {IF S = T THEN S \cup {n} ELSE S \ {n} : S \in found} \ {{}}
    IN  /\ UNION found = Nodes(weights)
        /\ \A S, T \in found : S = T \/ S \cap T = {}
        /\ \A n \in Nodes(weights), T \in found :
             Modularity(weights, Moved(n, T)) <= Modularity(weights, found)
CommunitiesPay ==
  NothingAsked =>
  \A weights \in {PackageWeights(repository.graph, DOMAIN PackageOf),
                  SymbolWeights(repository.graph, DOMAIN PackageOf)} : Pay(weights, Communities(weights))

(* A plan is called passed only when every test of it has a result for the *)
(* scanned text and none of those is a failure.                            *)
NotMasked(runs, plan) ==
    /\ plan.execution = "passed" => \A t \in ToSet(plan.tests) :
         LET fresh == {r \in ToSet(runs) : r.test = t.test /\ r.fresh} IN
         fresh # {} /\ \A r \in fresh : r.status = "passed"
    /\ plan.execution # "not_run" => plan.tests # <<>>
FailuresAreNotMasked ==
  NothingAsked => \A runs \in TestRuns : NotMasked(runs, ScanRisks(repository.change, ScanLimit, runs))

(* A scan with no gap missed nothing: each call of HEAD whose callee was   *)
(* edited and is called still has an impact, and each call whose callee is *)
(* gone, that nothing resolves, has a finding; and no finding is about a   *)
(* call that may be resolved.                                              *)
MissesNothing(change, scan) ==
  LET calls == {c \in ToSet(BaseCalls) : {PathOf[c[1]], PathOf[c[2]]} \cap change.edited # {}}
      Covers(rows, c) == \E i \in DOMAIN rows : rows[i].caller = c[1] /\ NameOf[rows[i].target] = NameOf[c[2]]
  IN
  /\ ~scan.partial => \A c \in calls :
       /\ change.now[c[2]] = "edited" /\ change.now[c[1]] # "twice" /\ c \in change.live => Covers(scan.impacts, c)
       /\ change.now[c[1]] = "same" /\ change.now[c[2]] = "gone" /\ NameOf[c[2]] \notin Names(change)
            /\ c \in change.retained => Covers(scan.findings, c)
  /\ \A i \in DOMAIN scan.findings :
       LET f == scan.findings[i] IN
       <<f.caller, f.target>> \notin change.live /\ NameOf[f.target] \notin Names(change)
ScanMissesNothing == NothingAsked => MissesNothing(repository.change, Scan)

(* The plan of a change hides neither a call the change breaks nor a test  *)
(* that fails.                                                             *)
ScanHidesNothing == ScanMissesNothing /\ FailuresAreNotMasked

(* The structure a report shows is the structure there is: communities that*)
(* pay, and for every cycle and busy symbol an issue to be worked on.      *)
StructureIsTold == CommunitiesPay /\ PlansAreOpen

(* Missions of one group touch no common path, what a mission waits for is *)
(* in an earlier group, nothing that was found or changed is left without  *)
(* a mission, and a gap blocks the missions that touch its path, no other, *)
(* when the answer lists all gaps.                                         *)
DoNotClash(change, scan) ==
  LET missions == scan.missions
      touched(i) == missions[i].touched
  IN
  /\ \A i, j \in DOMAIN missions :
       i # j /\ missions[i].group = missions[j].group => touched(i) \cap touched(j) = {}
  /\ \A i \in DOMAIN missions : \A j \in missions[i].after : missions[j].group < missions[i].group
  /\ DOMAIN scan.findings \subseteq UNION {missions[i].findings : i \in DOMAIN missions}
  /\ DOMAIN scan.impacts \subseteq UNION {missions[i].impacts : i \in DOMAIN missions}
  /\ change.edited \subseteq UNION {touched(i) : i \in DOMAIN missions}
  /\ Cardinality(scan.gaps) <= GapRows => \A i \in DOMAIN missions :
       missions[i].blocking = {} <=> ~\E g \in scan.gaps : g[1] \in touched(i) \cup {0}
MissionsDoNotClash == NothingAsked => DoNotClash(repository.change, Scan)
=============================================================================
