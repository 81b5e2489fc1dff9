----------------------------- MODULE EvidencePacker -----------------------------
(***************************************************************************)
(* EvidencePacker::pack of cgrx-capsule/src/packer.rs: which records of    *)
(* evidence a budget of tokens admits.  Required anchors come first, each  *)
(* with the records that connect it; then, one at a time, the candidate    *)
(* that gains most per token.  What is left out is excluded for a reason,  *)
(* and what it leaves unaccounted for is residual.                         *)
(***************************************************************************)
EXTENDS Naturals, Sequences, FiniteSets, SequencesExt, Saturating

CONSTANTS
  Tokens(_), \* packed_records_tokens of a set of node ids
  Missing    \* no path

(* A set in the order of a strict total order. *)
Ordered(S, Before(_, _)) ==
  [n \in 1 .. Cardinality(S) |-> CHOOSE x \in S : Cardinality({y \in S : Before(y, x)}) = n - 1]

(* records: [ids -> [path, span, obligations, neighbors, penalty]].  The   *)
(* order of tie_key.                                                       *)
Tie(records, x, y) ==
  LET a == records[x] b == records[y] IN
  \/ a.path < b.path
  \/ a.path = b.path /\ (a.span < b.span \/ (a.span = b.span /\ x < y))

(* adjacency: of the records only, and both ways. *)
Adjacent(records, x) ==
  {y \in DOMAIN records : y \in records[x].neighbors \/ x \in records[y].neighbors}

(* The records within each number of steps of a target. *)
Near(records, targets) ==
  LET near[k \in 0 .. Cardinality(DOMAIN records)] ==
        IF k = 0 THEN targets
        ELSE LET last == near[k - 1] IN last \cup UNION {Adjacent(records, x) : x \in last}
  IN  near

(* shortest_path_to_set: breadth first, neighbours in the order of ties; so*)
(* of the shortest paths to a target the first in that order, step by step.*)
Foremost(records, ids) == CHOOSE x \in ids : \A y \in ids \ {x} : Tie(records, x, y)
Descent(records, start, near, length) ==
  LET step[i \in 0 .. length] ==
        IF i = 0 THEN start ELSE Foremost(records, Adjacent(records, step[i - 1]) \cap near[length - i])
  IN  [i \in 1 .. length + 1 |-> step[i - 1]]
ShortestPath(records, start, targets) ==
  LET near == Near(records, targets)
      lengths == {k \in 0 .. Cardinality(DOMAIN records) : start \in near[k]}
  IN  IF start \in targets THEN <<>>
      ELSE IF lengths = {} THEN Missing
      ELSE Descent(records, start, near, CHOOSE k \in lengths : \A l \in lengths : k <= l)

(* A faulty FitsBudget: the records before the last are not counted. *)
FitsBudgetAlone(ids, budget) == \A id \in ids : Tokens({id}) <= budget

(* Every prefix of the packed records, in the order of ids, fits. *)
FitsBudget(ids, budget) == \A n \in ids \cup {0} : Tokens({id \in ids : id <= n}) <= budget

Covered(records, ids) == UNION {records[id].obligations : id \in ids \cap DOMAIN records}
PathsOf(records, ids) == {records[id].path : id \in ids \cap DOMAIN records}

(* add_residual and or_insert: the first reason stays. *)
AddResidual(residual, obligations, kind) ==
  residual \cup {[obligation |-> o, kind |-> kind] : o \in obligations \ {r.obligation : r \in residual}}
Admit(s, path) ==
  [s EXCEPT !.selected = @ \cup ToSet(path), !.excluded = {e \in @ : e.id \notin ToSet(path)}]

(* A required anchor: absent, out of reach, over the budget, or admitted. *)
RequireAnchor(input, budget, s, anchor) ==
  LET records == input.records
      path == IF s.selected = {} \/ input.disconnected THEN <<anchor>>
              ELSE ShortestPath(records, anchor, s.selected)
      Refuse(reason, kind) ==
        [s EXCEPT !.excluded = {e \in @ : e.id # anchor} \cup {[id |-> anchor, reason |-> reason]},
                  !.residual = AddResidual(@, records[anchor].obligations, kind)]
  IN  IF anchor \notin DOMAIN records
      THEN [s EXCEPT !.residual = AddResidual(@, {<<"ANCHOR", anchor>>}, "MISSING_ANCHOR")]
      ELSE IF path = Missing THEN Refuse("disconnected_required_anchor", "CONNECTOR_MISSING")
      ELSE IF FitsBudget(s.selected \cup ToSet(path), budget) THEN Admit(s, path)
      ELSE Refuse("required_anchor_exceeds_budget", "BUDGET_EXHAUSTED")

(* What a candidate gains: obligations, then a new file, its provenance    *)
(* and its scores, less what repeats a file or is uncertain.               *)
Utility(input, selected, candidate) ==
  LET record == input.records[candidate.id]
      gain == (record.obligations \cap input.obligations) \ Covered(input.records, selected)
      again == record.path \in PathsOf(input.records, selected)
  IN  Minus(Cardinality(gain) * 1000000 + (IF again THEN 0 ELSE 100000)
              + (IF candidate.provenance = "Syntax" THEN 20000 ELSE 10000)
              + Lesser(candidate.scores.graph, 50000) + Lesser(candidate.scores.semantic, 9999)
              + Lesser(candidate.scores.rrf, 9999),
            (IF again THEN 50000 ELSE 0) + Lesser(record.penalty, 9999))

(* Of those that gain anything, the one that gains most for its cost.      *)
TakeBest(records, s, useful) ==
  LET Better(a, b) == \/ a.gain * b.cost > b.gain * a.cost
                      \/ a.gain * b.cost = b.gain * a.cost /\ Tie(records, a.id, b.id)
  IN  IF useful = {} THEN [s EXCEPT !.over = TRUE]
      ELSE Admit(s, (CHOOSE a \in useful : \A b \in useful \ {a} : Better(a, b)).path)

(* The candidates still to be had, each with the path that joins it.       *)
Open(input, s) ==
  LET Path(id) == IF s.selected = {} THEN <<id>> ELSE ShortestPath(input.records, id, s.selected)
  IN  {[candidate |-> c, path |-> Path(c.id)] :
         c \in {c \in ToSet(input.candidates) : c.id \in DOMAIN input.records \ s.selected}}
With(s, o) == s.selected \cup ToSet(o.path)
Affordable(s, budget, open) == {o \in open : o.path # Missing /\ FitsBudget(With(s, o), budget)}

(* Each of the others is excluded, out of reach or over the budget; the    *)
(* first reason stays.                                                     *)
Excluded(s, open, affordable) ==
  LET known == {e.id : e \in s.excluded}
      Barred(set, reason) ==
        {[id |-> o.candidate.id, reason |-> reason] : o \in {o \in set : o.candidate.id \notin known}}
  IN  s.excluded \cup Barred({o \in open : o.path = Missing}, "disconnected")
        \cup Barred({o \in open \ affordable : o.path # Missing}, "budget")

Choice(input, s, o) ==
  [path |-> o.path, id |-> o.candidate.id, gain |-> Utility(input, s.selected, o.candidate),
   cost |-> IF Tokens(With(s, o)) > Tokens(s.selected) THEN Tokens(With(s, o)) - Tokens(s.selected) ELSE 1]

(* One round over the candidates: the best is admitted, and those that can *)
(* not be are excluded.  A round that finds none is the last.              *)
Round(input, budget, s) ==
  LET open == Open(input, s)
      affordable == Affordable(s, budget, open)
  IN  TakeBest(input.records, [s EXCEPT !.excluded = Excluded(s, open, affordable)],
               {c \in {Choice(input, s, o) : o \in affordable} : c.gain > 0})

Packed(input, last, covered) ==
  [records |-> last.selected, excluded |-> last.excluded, tokens |-> Tokens(last.selected),
   residual |-> AddResidual({r \in last.residual : r.obligation \notin covered},
                            input.obligations \ covered, "NOT_PACKED")]

(* The required anchors, in order: those without a record are last.        *)
Anchors(records, anchors) ==
  Ordered(anchors \cap DOMAIN records, LAMBDA x, y : Tie(records, x, y)) \o Ordered(anchors \ DOMAIN records, <)

Start == [selected |-> {}, residual |-> {}, excluded |-> {}, over |-> FALSE]
Required(input, budget) ==
  LET anchors == Anchors(input.records, input.anchors)
      s[n \in 0 .. Len(anchors)] ==
        IF n = 0 THEN Start ELSE RequireAnchor(input, budget, s[n - 1], anchors[n])
  IN  s[Len(anchors)]

(* Rounds until none is left to be had. *)
Completed(input, budget, required) ==
  LET Step(t) == IF t.over THEN t ELSE Round(input, budget, t)
      s[n \in 0 .. Len(input.candidates) + 1] == IF n = 0 THEN required ELSE Step(s[n - 1])
  IN  s[Len(input.candidates) + 1]

(* pack, of [candidates, records, obligations, anchors, disconnected].     *)
Pack(input, budget) ==
  LET last == Completed(input, budget, Required(input, budget))
  IN  Packed(input, last, Covered(input.records, last.selected))

-----------------------------------------------------------------------------
(* What a pack of an input under a budget has to be *)

(* Everything is accounted for: each obligation is covered or residual and *)
(* not both; no prefix of the records is over the budget; the records hang *)
(* together unless anchors may stand alone; and each candidate that is left*)
(* out is out of reach, worth nothing next to what was taken, or excluded  *)
(* for the budget that its path to the records is indeed over.             *)
AccountsForAll(input, budget, pack) ==
  LET records == input.records
      covered == Covered(records, pack.records)
      out == {c \in ToSet(input.candidates) : c.id \in DOMAIN records \ pack.records}
      Reach(c) == ShortestPath(records, c.id, pack.records)
      OverBudget(c) ==
        LET path == IF pack.records = {} THEN <<c.id>> ELSE Reach(c) IN
        ~FitsBudget(pack.records \cup ToSet(path), budget)
  IN
  /\ input.obligations \subseteq covered \cup {r.obligation : r \in pack.residual}
  /\ \A r, q \in pack.residual : r.obligation \notin covered /\ (r.obligation = q.obligation => r = q)
  /\ \A n \in pack.records : Tokens({id \in pack.records : id <= n}) <= budget
  /\ \A e \in pack.excluded : e.id \notin pack.records
  /\ ~input.disconnected => \A m, n \in pack.records :
       ShortestPath([id \in pack.records |-> records[id]], m, {n}) # Missing
  /\ \A c \in out :
       \/ pack.records # {} /\ Reach(c) = Missing
       \/ Utility(input, pack.records, c) = 0
       \/ OverBudget(c) /\ \E e \in pack.excluded : e.id = c.id
=============================================================================
