------------------------------ MODULE ChangeRisks ------------------------------
(***************************************************************************)
(* scan_risks (runtime/risks.rs): what the edits of a working tree do to   *)
(* the calls that HEAD had proven, the tests that may show it, and the     *)
(* missions that follow.  A change says of every symbol of HEAD what       *)
(* became of it, and which of HEAD's calls are proven still or retained.   *)
(***************************************************************************)
EXTENDS Integers, FiniteSets, SequencesExt, Sorting

CONSTANTS
  RepoPaths,  \* the paths of HEAD and of the working tree, numbered as they sort
  PathOf,     \* [symbol of HEAD -> path], symbols numbered as path and name sort
  NameOf,     \* [symbol of HEAD -> name]
  Tests,      \* symbols whose name or path follows a test convention
  BaseCalls,  \* sequence of <<caller, target>>: the proven calls of HEAD
  GapRows     \* gaps that an answer lists; it counts all

Symbols == DOMAIN PathOf

ASSUME BaselineAssumption ==
  /\ IsFiniteSet(RepoPaths) /\ RepoPaths \subseteq Nat \ {0}
  /\ IsFiniteSet(Symbols) /\ Symbols \subseteq Nat /\ PathOf \in [Symbols -> RepoPaths]
  /\ BaseCalls \in Seq(Symbols \X Symbols)
  /\ GapRows \in Nat

(* A gap is a path, or 0 for the whole repository, and a code.             *)
Reasons == {"PARSER", "DYNAMIC_DISPATCH"}
CodeOrder ==
  [AMBIGUOUS_CALLER |-> 1, DYNAMIC_DISPATCH |-> 2, PARSER |-> 3, RESULT_LIMIT |-> 4,
   SCAN_BUDGET_EXCEEDED |-> 5, SOURCE_UNVERIFIED_OR_BUDGET |-> 6, UNINDEXED_CHANGED_PATH |-> 7,
   VERIFICATION_PLAN_LIMIT |-> 8]

Present(change) == {s \in Symbols : change.now[s] # "gone"}
Names(change) == {NameOf[s] : s \in Present(change)} \cup change.others

(* now: same, edited, gone, or two definitions of one name and path;       *)
(* live: calls proven now; retained: calls that the caller's text still    *)
(* has and nothing resolves; others: names that other symbols bear;        *)
(* before and after: gaps of HEAD and of now by path; edited: indexed      *)
(* paths that HEAD has otherwise or not; unindexed: changed paths that no  *)
(* language pack reads; unread: paths that differ from what was indexed;   *)
(* cut: a budget of documents, edges or traversal was spent.               *)
IsChange(change) ==
  /\ change.now \in [Symbols -> {"same", "edited", "gone", "twice"}]
  /\ change.live \subseteq Present(change) \X Present(change)
  /\ {change.before, change.after} \subseteq [RepoPaths -> SUBSET Reasons]
  /\ change.edited \cup change.unindexed \subseteq RepoPaths
  /\ \A s \in Symbols : change.now[s] # "same" => PathOf[s] \in change.edited

Material(gaps) == \E g \in gaps : g[2] # "DYNAMIC_DISPATCH"
GapsAt(gapsOf, paths) == {g \in RepoPaths \X Reasons : g[1] \in paths /\ g[2] \in gapsOf[g[1]]}
GapBefore(g, h) == g[1] < h[1] \/ (g[1] = h[1] /\ CodeOrder[g[2]] < CodeOrder[h[2]])
FirstOf(n, s) == SubSeq(s, 1, IF n < Len(s) THEN n ELSE Len(s))
ListedGaps(gaps) == FirstOf(GapRows, InOrder(gaps, GapBefore))
Unverified(paths) == {<<p, "SOURCE_UNVERIFIED_OR_BUDGET">> : p \in paths}

(* The gaps known before the calls are inspected.                          *)
FirstGaps(change) ==
  (IF change.cut THEN {<<0, "SCAN_BUDGET_EXCEEDED">>} ELSE {})
  \cup GapsAt(change.after, change.edited)
  \cup {<<p, "UNINDEXED_CHANGED_PATH">> : p \in change.unindexed}

GapsOfCall(change, caller, target) ==
  LET paths == {PathOf[caller], PathOf[target]} IN
  GapsAt(change.before, paths) \cup GapsAt(change.after, paths)

-----------------------------------------------------------------------------
(* One call of HEAD that touches a changed path *)

Impact(change, limit, seen, caller, target) ==
  LET unread == {PathOf[caller], PathOf[target]} \cap change.unread
      key == <<"impact", caller, NameOf[target]>>
      full == Len(seen.impacts) >= limit
  IN
  IF change.now[target] # "edited" \/ <<caller, target>> \notin change.live \/ key \in seen.dedup
    THEN seen
  ELSE IF unread # {}
    THEN [seen EXCEPT !.dedup = @ \cup {key},
            !.gaps = @ \cup Unverified(IF PathOf[caller] \in unread THEN {PathOf[caller]} ELSE unread)]
  ELSE [seen EXCEPT !.dedup = @ \cup {key},
          !.gaps = @ \cup (IF full THEN {<<0, "RESULT_LIMIT">>} ELSE {}),
          !.impacts = IF full THEN @ ELSE Append(@, [caller |-> caller, target |-> target])]

(* Absence is no evidence while anything of the graph is missing.          *)
Finding(change, limit, seen, caller, target) ==
  LET key == <<"removed", caller, NameOf[target]>>
      reached == Len(seen.findings) = limit
  IN
  IF \/ seen.incomplete \/ GapsOfCall(change, caller, target) # {}
     \/ change.now[caller] # "same" \/ NameOf[target] \in Names(change)
     \/ <<caller, target>> \notin change.retained \/ key \in seen.dedup
    THEN seen
  ELSE IF PathOf[caller] \in change.unread
    THEN [seen EXCEPT !.dedup = @ \cup {key}, !.gaps = @ \cup Unverified({PathOf[caller]})]
  ELSE [seen EXCEPT !.dedup = @ \cup {key},
          !.findings = Append(@, [caller |-> caller, target |-> target]),
          !.gaps = @ \cup (IF reached THEN {<<0, "RESULT_LIMIT">>} ELSE {})]

Inspect(change, limit, seen, call) ==
  LET caller == call[1]
      target == call[2]
      gaps == GapsOfCall(change, caller, target)
      noted == [seen EXCEPT !.gaps = @ \cup gaps]
  IN
  IF {PathOf[caller], PathOf[target]} \cap change.edited = {} THEN seen
  ELSE IF Len(seen.findings) > limit THEN [seen EXCEPT !.gaps = @ \cup {<<0, "RESULT_LIMIT">>}]
  ELSE IF Material(gaps) \/ change.now[caller] = "gone" THEN noted
  ELSE IF change.now[caller] = "twice"
    THEN [noted EXCEPT !.gaps = @ \cup {<<PathOf[caller], "AMBIGUOUS_CALLER">>}]
  ELSE IF change.now[target] # "gone" THEN Impact(change, limit, noted, caller, target)
  ELSE Finding(change, limit, noted, caller, target)

-----------------------------------------------------------------------------
(* Tests of an impact: its caller, or what calls that *)

TestCandidates(change, caller) ==
  <<caller>> \o InOrder({s \in Symbols : <<s, caller>> \in change.live}, <)

AddTest(change, limit, impacts, i, plan, test) ==
  LET key == <<test, impacts[i].target>>
      path == PathOf[test]
      gaps == GapsAt(change.after, {path})
      noted == [plan EXCEPT !.dedup = @ \cup {key}, !.gaps = @ \cup gaps]
  IN
  IF plan.stop \/ test \notin Tests \/ key \in plan.dedup THEN plan
  ELSE IF Material(gaps) THEN noted
  ELSE IF path \in change.unread THEN [noted EXCEPT !.gaps = @ \cup Unverified({path})]
  ELSE IF Len(plan.tests) >= limit
    THEN [noted EXCEPT !.stop = TRUE, !.gaps = @ \cup {<<0, "VERIFICATION_PLAN_LIMIT">>}]
  ELSE [noted EXCEPT !.tests = Append(@, [test |-> test, impact |-> i])]

TestsOfImpact(change, limit, impacts, i, plan) ==
  LET candidates == TestCandidates(change, impacts[i].caller)
      added[k \in 0 .. Len(candidates)] ==
        IF k = 0 THEN plan ELSE AddTest(change, limit, impacts, i, added[k - 1], candidates[k])
  IN  added[Len(candidates)]

NoTests == [tests |-> <<>>, dedup |-> {}, gaps |-> {}, stop |-> FALSE]
TestsOf(change, limit, impacts) ==
  LET planned[i \in 0 .. Len(impacts)] ==
        IF i = 0 THEN NoTests ELSE TestsOfImpact(change, limit, impacts, i, planned[i - 1])
  IN  planned[Len(impacts)]

(* A result counts for the revision and the text that were scanned, and a  *)
(* failure counts before every success.                                    *)
Outcome(test, runs) ==
  LET fresh == {r \in ToSet(runs) : r.test = test /\ r.fresh} IN
  IF \E r \in fresh : r.status = "failed" THEN "failed"
  ELSE IF fresh # {} THEN "passed" ELSE "not_run"

Execution(tests, runs) ==
  LET outcomes == [i \in 1 .. Len(tests) |-> Outcome(tests[i].test, runs)] IN
  IF "failed" \in ToSet(outcomes) THEN "failed"
  ELSE IF ToSet(outcomes) \subseteq {"not_run"} THEN "not_run"
  ELSE IF "not_run" \in ToSet(outcomes) THEN "partial" ELSE "passed"

-----------------------------------------------------------------------------
(* Missions *)

Mission(kind, key, change, review, findings, impacts) ==
  [kind |-> kind, key |-> key, change |-> change, findings |-> findings, impacts |-> impacts,
   touched |-> change \cup review, tests |-> {}, blocking |-> {}, group |-> 0, after |-> {}]

(* In the order of their keys: findings, impacts by changed symbol, paths. *)
(* (The code orders keys as text, in which position 10 comes before 2.)    *)
BeforeMission(x, y) ==
  \E i \in 1 .. 3 : x.key[i] < y.key[i] /\ \A j \in 1 .. i - 1 : x.key[j] = y.key[j]
MissionsOf(change, findings, impacts) ==
  LET ofFindings == {LET f == findings[i] IN
                     Mission("retained_call_candidate", <<1, f.target, i>>, {PathOf[f.target]},
                             {PathOf[f.caller]}, {i}, {}) : i \in 1 .. Len(findings)}
      ofImpacts == {LET indexes == {i \in 1 .. Len(impacts) : impacts[i].target = t} IN
                    Mission("changed_dependency", <<2, t, 0>>, {PathOf[t]},
                            {PathOf[impacts[i].caller] : i \in indexes}, {}, indexes) :
                    t \in {impacts[i].target : i \in 1 .. Len(impacts)}}
      represented == UNION {mission.change : mission \in ofFindings \cup ofImpacts}
      ofPaths == {Mission("review_changed_path", <<3, p, 0>>, {p}, {p}, {}, {}) :
                  p \in change.edited \ represented}
  IN  InOrder(ofFindings \cup ofImpacts \cup ofPaths, BeforeMission)

WithEvidence(mission, tests, gaps) ==
  LET ofTests == {i \in 1 .. Len(tests) : tests[i].impact \in mission.impacts}
      touched == mission.touched \cup {PathOf[tests[i].test] : i \in ofTests}
  IN  [mission EXCEPT !.tests = ofTests, !.touched = touched,
         !.blocking = {g \in gaps : g[1] \in touched \cup {0}}]

(* after: what missions touch; group: the groups of the missions so far.   *)
ConflictsBefore(missions, i) == {j \in 1 .. i - 1 : missions[j].touched \cap missions[i].touched # {}}
GroupAfter(groups, prior) == Max({0} \cup {groups[j] + 1 : j \in prior})

(* A faulty Schedule: a mission waits for the one before it only. *)
ScheduleAfterLast(missions) ==
  LET groups[k \in 0 .. Len(missions)] ==
        IF k = 0 THEN <<>>
        ELSE LET last == groups[k - 1] IN
             Append(last, GroupAfter(last, ConflictsBefore(missions, k) \cap {k - 1}))
  IN  [i \in 1 .. Len(missions) |->
         [missions[i] EXCEPT !.after = ConflictsBefore(missions, i) \cap {i - 1}, !.group = groups[Len(missions)][i]]]

(* A mission comes after every earlier one that touches one of its paths.  *)
Placed(missions, groups, k) == Append(groups, GroupAfter(groups, ConflictsBefore(missions, k)))
Groups(missions) ==
  LET groups[k \in 0 .. Len(missions)] == IF k = 0 THEN <<>> ELSE Placed(missions, groups[k - 1], k)
  IN  groups[Len(missions)]

Schedule(missions) ==
  LET groups == Groups(missions)
  IN  [i \in 1 .. Len(missions) |->
         [missions[i] EXCEPT !.after = ConflictsBefore(missions, i), !.group = groups[i]]]

(* Findings come before impacts in one page. *)
ImpactsOfPage(findings, impacts, limit) == FirstOf(limit - Len(findings), impacts)

(* A faulty OverLimit: each list is compared with the limit by itself. *)
OverLimitEach(findings, impacts, limit) ==
  IF Len(findings) > limit \/ Len(impacts) > limit THEN {<<0, "RESULT_LIMIT">>} ELSE {}

OverLimit(findings, impacts, limit) ==
  IF Len(findings) + Len(impacts) > limit THEN {<<0, "RESULT_LIMIT">>} ELSE {}

SeenFirst(change) ==
  [findings |-> <<>>, impacts |-> <<>>, gaps |-> FirstGaps(change), dedup |-> {},
   incomplete |-> FirstGaps(change) # {}]

Inspected(change, limit) ==
  LET seen[k \in 0 .. Len(BaseCalls)] ==
        IF k = 0 THEN SeenFirst(change) ELSE Inspect(change, limit, seen[k - 1], BaseCalls[k])
  IN  seen[Len(BaseCalls)]

(* The answer from what was found, the page of it, its tests and missions: *)
(* a gap blocks missions when it is among those that are listed.           *)
Answered(findings, impacts, tests, gaps, missions, runs) ==
  [findings |-> findings, impacts |-> impacts, tests |-> tests,
   execution |-> Execution(tests, runs), gaps |-> gaps, listed |-> ListedGaps(gaps), partial |-> gaps # {},
   missions |-> Schedule([i \in 1 .. Len(missions) |->
                            WithEvidence(missions[i], tests, ToSet(ListedGaps(gaps)))])]

Planned(change, gaps, findings, impacts, plan, runs) ==
  Answered(findings, impacts, plan.tests, gaps \cup plan.gaps, MissionsOf(change, findings, impacts), runs)

Paged(change, limit, runs, seen, findings, impacts) ==
  Planned(change, seen.gaps \cup OverLimit(findings, seen.impacts, limit), findings, impacts,
          TestsOf(change, limit, impacts), runs)

Reported(change, limit, runs, seen) ==
  LET findings == FirstOf(limit, seen.findings)
  IN  Paged(change, limit, runs, seen, findings, ImpactsOfPage(findings, seen.impacts, limit))

ScanRisks(change, limit, runs) == Reported(change, limit, runs, Inspected(change, limit))
=============================================================================
