--------------------------- MODULE CgcrEngineProofs ---------------------------
(***************************************************************************)
(* Proofs about the refinement engine, for any obligations, probes, costs, *)
(* records and budget, and whatever the oracle answers: what a compiled    *)
(* context contains is consistent, within its budget, and complete only if *)
(* every obligation was discharged by evidence.                            *)
(***************************************************************************)
EXTENDS CgcrEngine, TLAPS

(* A round is in progress. *)
InRound == at \in {"execute", "facts"}

(* The loop goes on while it has reason to, and the status comes at its end.*)
ControlInv ==
  /\ at \notin {"finish", "done"} => quiet < 2 /\ ~exhausted
  /\ at # "done" => status = None

(* Discharged obligations and records, in any context, are those of facts. *)
OneState(s) ==
  /\ {o \in Obligations : s.state[o] = "discharged"} =
       {f.obligation : f \in {g \in s.facts : g.discharged}}
  /\ s.records = InitialRecords \cup ({f.record : f \in s.facts} \ {None})

SavedInv == InRound => OneState(saved) /\ saved.facts \subseteq facts

(* Every fact is of a probe that was about its obligation. *)
FactInv ==
  \A f \in facts :
    /\ f.obligation \in f.probe.obligations
    /\ (InRound /\ f.probe = probe) \/ \E i \in DOMAIN executed : f.probe = executed[i]

(* What was executed is not allowed any more, what is being executed is.   *)
ProbeInv ==
  /\ \A i \in DOMAIN executed : executed[i].kind \notin allowed[executed[i].id]
  /\ InRound => probe.kind \in allowed[probe.id]

(* Work is left where the budget is exhausted, and where a round began.    *)
WorkInv ==
  /\ InRound => \E o \in Obligations : saved.state[o] = "open"
  /\ exhausted => \E o \in Obligations : state[o] # "discharged"
  /\ at \notin {"finish", "done"} => ~exhausted

(* A round in progress has spent nothing of its tokens yet. *)
TokensInv ==
  InRound => Tokens[saved.records] + budget.tokens <= Tokens[InitialRecords] + Budget.tokens

USE RequestAssumption, CostAssumption, BudgetAssumption

-----------------------------------------------------------------------------
LEMMA InitTypes == Init => TypeOK /\ ControlInv
<1> SUFFICES ASSUME Init
             PROVE  TypeOK /\ ControlInv
  OBVIOUS
<1>1. [state |-> state, provisional |-> provisional, records |-> records, facts |-> facts] \in Context
  BY DEF Init, Context
<1>2. executed \in Seq(Probe)
  BY DEF Init
<1>3. budget \in Amounts /\ inputBytes \in Nat /\ answer \in 0 .. MaxFacts /\ quiet \in 0 .. 2
  BY DEF Init
<1>4. uncertain \in BOOLEAN /\ exhausted \in BOOLEAN /\ stale \in BOOLEAN
  BY Zenon DEF Init
<1>5. allowed \in [Counterexamples -> SUBSET Kinds] /\ status \in Statuses \cup {None}
  BY DEF Init
<1>6. ControlInv
  BY DEF Init, ControlInv
<1> QED
  BY <1>1, <1>2, <1>3, <1>4, <1>5, <1>6 DEF Init, TypeOK

(* Bytes and tokens are spent only as far as there are any.                *)
LEMMA Spending ==
  ASSUME NEW left \in Amounts, NEW cost \in Amounts, cost.bytes <= left.bytes
  PROVE  /\ [left EXCEPT !.bytes = @ - cost.bytes] \in Amounts
         /\ [left EXCEPT !.bytes = @ - cost.bytes].bytes = left.bytes - cost.bytes
         /\ [left EXCEPT !.bytes = @ - cost.bytes].tokens = left.tokens
  BY DEF Amounts

LEMMA SpendingTokens ==
  ASSUME NEW left \in Amounts, NEW delta \in Nat, delta <= left.tokens
  PROVE  LET after == [left EXCEPT !.tokens = IF delta < @ THEN @ - delta ELSE 0] IN
         /\ after \in Amounts
         /\ after.bytes = left.bytes
         /\ after.tokens = left.tokens - delta
  BY DEF Amounts

(* What a round's records add is a number.                                 *)
LEMMA DeltaType ==
  ASSUME TypeOK, InRound
  PROVE  /\ records \in SUBSET Records /\ saved.records \in SUBSET Records
         /\ Delta \in Nat
         /\ Tokens[records] <= Tokens[saved.records] + Delta
<1>1. records \in SUBSET Records /\ saved.records \in SUBSET Records
  BY DEF TypeOK, InRound, Context
<1>2. Tokens[records] \in Nat /\ Tokens[saved.records] \in Nat
  BY <1>1
<1> QED
  BY <1>1, <1>2 DEF Delta

(* A probe that is chosen is a probe, and fits into the budget. *)
LEMMA ChosenFits ==
  ASSUME NEW p \in Probe, p \in Candidates
  PROVE  /\ p.id \in Counterexamples /\ p.kind \in Kinds /\ p.kind \in allowed[p.id]
         /\ p.obligations = About[p.id] \cap Open
         /\ Cost[p.kind].bytes <= budget.bytes
         /\ p.obligations # {}
  BY DEF Candidates, Probe, Fits, Actionable

-----------------------------------------------------------------------------
(* Types *)

(* Every step of the loop keeps the types, and goes on only as it may. *)
LEMMA TypesKept == TypeOK /\ ControlInv /\ [Next]_vars => TypeOK' /\ ControlInv'
<1> SUFFICES ASSUME TypeOK, ControlInv, [Next]_vars
             PROVE  TypeOK' /\ ControlInv'
  OBVIOUS
<1> USE DEF TypeOK, ControlInv, Goto, request, context, verdict
<1>1. CASE Start
  <2>1. CASE stale' = TRUE
    BY <1>1, <2>1 DEF Start
  <2>2. CASE stale' = FALSE
    BY <1>1, <2>2 DEF Start
  <2> QED
    BY <1>1, <2>1, <2>2 DEF Start
<1>2. CASE Rest
  BY <1>2 DEF Rest
<1>3. CASE NothingFits
  BY <1>3 DEF NothingFits
<1>4. ASSUME NEW p \in Probe, Choose(p)
      PROVE  TypeOK' /\ ControlInv'
  <2>1. Cost[p.kind] \in Amounts /\ Cost[p.kind].bytes <= budget.bytes
    BY <1>4, ChosenFits DEF Choose
  <2>2. budget' \in Amounts
    BY <1>4, <2>1, Spending DEF Choose, Spent
  <2>3. inputBytes' \in Nat
    <3>1. inputBytes \in Nat /\ Cost[p.kind].bytes \in Nat
      BY <2>1 DEF Amounts
    <3>2. inputBytes' = inputBytes + Cost[p.kind].bytes
      BY <1>4 DEF Choose
    <3> QED
      BY ONLY <3>1, <3>2
  <2>4. saved' \in Context
    BY <1>4 DEF Choose
  <2> QED
    BY <1>4, <2>2, <2>3, <2>4 DEF Choose
<1>5. ASSUME NEW p \in Probe, Overflow(p)
      PROVE  TypeOK' /\ ControlInv'
  <2>1. Cost[p.kind] \in Amounts /\ Cost[p.kind].bytes <= budget.bytes
    BY <1>5, ChosenFits DEF Overflow
  <2>2. budget' \in Amounts
    BY <1>5, <2>1, Spending DEF Overflow, Spent
  <2> QED
    BY <1>5, <2>2 DEF Overflow
<1>6. CASE Answer
  BY <1>6 DEF Answer
<1>7. CASE OracleFails
  BY <1>7 DEF OracleFails, Doubted, Context, Reasons
<1>8. CASE TakeFact
  <2>1. PICK fact \in [probe : {probe}, obligation : probe.obligations,
                       discharged : BOOLEAN, record : Records \cup {None}] :
          LET o == fact.obligation IN
          /\ IF fact.discharged
             THEN /\ state' = [state EXCEPT ![o] = "discharged"]
                  /\ provisional' = [provisional EXCEPT ![o] = None]
             ELSE /\ provisional' = [provisional EXCEPT ![o] = "residual"]
                  /\ UNCHANGED state
          /\ records' = records \cup ({fact.record} \ {None})
          /\ facts' = facts \cup {fact}
    BY <1>8 DEF TakeFact
  <2>2. fact \in Fact
    BY <1>8, <2>1 DEF TakeFact, Fact, Probe
  <2>3. facts' \subseteq Fact /\ records' \subseteq Records
    BY <2>1, <2>2 DEF Context, Fact
  <2> DEFINE o == fact.obligation
  <2>4. state' \in [Obligations -> {"open", "discharged"} \cup Reasons \cup Ends]
    <3>1. state' = state \/ state' = [state EXCEPT ![o] = "discharged"]
      BY <2>1
    <3>2. state \in [Obligations -> {"open", "discharged"} \cup Reasons \cup Ends]
      BY DEF Context
    <3> HIDE DEF o
    <3> QED
      BY ONLY <3>1, <3>2
  <2>5. provisional' \in [Obligations -> Reasons \cup {None}]
    <3>1. \E r \in Reasons \cup {None} : provisional' = [provisional EXCEPT ![o] = r]
      BY <2>1 DEF Reasons
    <3>2. provisional \in [Obligations -> Reasons \cup {None}]
      BY DEF Context
    <3> HIDE DEF o
    <3> QED
      BY ONLY <3>1, <3>2
  <2> QED
    BY <1>8, <2>3, <2>4, <2>5 DEF TakeFact, Context
<1>9. CASE RejectFact
  BY <1>9 DEF RejectFact, Doubted, Context, Reasons
<1>10. CASE StaleFact
  BY <1>10 DEF StaleFact
<1>11. CASE RollBack
  BY <1>11 DEF RollBack, EndRound, Retired, Context, Probe
<1>12. CASE KeepRound
  <2>1. Delta \in Nat /\ budget.tokens \in Nat /\ ~(Delta > budget.tokens)
    BY <1>12, DeltaType DEF KeepRound, EndRound, Overrun, InRound, Amounts
  <2>2. Delta <= budget.tokens
    BY <2>1
  <2>3. budget' \in Amounts
    BY <1>12, <2>1, <2>2, SpendingTokens DEF KeepRound
  <2> QED
    BY <1>12, <2>3 DEF KeepRound, EndRound, Retired, Probe
<1>13. CASE Finish
  <2>1. state' \in [Obligations -> {"open", "discharged"} \cup Reasons \cup Ends]
    BY <1>13 DEF Finish, Marked, End, Ends, Context
  <2>2. status' \in Statuses
    BY <1>13 DEF Finish, Status, Statuses
  <2> QED
    BY <1>13, <2>1, <2>2 DEF Finish, Context
<1>14. CASE UNCHANGED vars
  BY <1>14 DEF vars
<1> QED
  BY <1>1, <1>2, <1>3, <1>4, <1>5, <1>6, <1>7, <1>8, <1>9, <1>10, <1>11, <1>12, <1>13, <1>14 DEF Next

(* Every state of a compilation is well typed, with a probe and what its   *)
(* rollback restores exactly while a round is in progress.                 *)
THEOREM TypeCorrect == Spec => []TypeOK
<1>1. Spec => [](TypeOK /\ ControlInv)
  BY InitTypes, TypesKept, PTL DEF Spec
<1> QED
  BY <1>1, PTL
-----------------------------------------------------------------------------
(* One state of obligations, facts and records *)

(* A fact is taken with what it discharges and the record it brings.       *)
LEMMA FactTaken ==
  ASSUME TypeOK, TakeFact
  PROVE  \E fact \in Fact :
           /\ fact.probe = probe /\ fact.obligation \in probe.obligations
           /\ Discharged' = Discharged \cup (IF fact.discharged THEN {fact.obligation} ELSE {})
           /\ records' = records \cup ({fact.record} \ {None})
           /\ facts' = facts \cup {fact}
<1>1. PICK fact \in [probe : {probe}, obligation : probe.obligations,
                     discharged : BOOLEAN, record : Records \cup {None}] :
        LET o == fact.obligation IN
        /\ IF fact.discharged
           THEN /\ state' = [state EXCEPT ![o] = "discharged"]
                /\ provisional' = [provisional EXCEPT ![o] = None]
           ELSE /\ provisional' = [provisional EXCEPT ![o] = "residual"]
                /\ UNCHANGED state
        /\ records' = records \cup ({fact.record} \ {None})
        /\ facts' = facts \cup {fact}
  BY DEF TakeFact
<1>2. fact \in Fact /\ fact.obligation \in Obligations
  BY <1>1 DEF TakeFact, TypeOK, Fact, Probe
<1>3. CASE fact.discharged
  <2>1. state' = [state EXCEPT ![fact.obligation] = "discharged"]
    BY <1>1, <1>3
  <2>2. Discharged' = Discharged \cup {fact.obligation}
    BY <2>1, <1>2 DEF TypeOK, Context, Discharged
  <2> QED
    BY <1>1, <1>2, <1>3, <2>2
<1>4. CASE ~fact.discharged
  BY <1>1, <1>2, <1>4 DEF Discharged
<1> QED
  BY <1>3, <1>4

(* What a fact brings is added on both sides. *)
LEMMA OneStateWithFact ==
  ASSUME TypeOK, ContextIsOneState, NEW fact \in Fact,
         Discharged' = Discharged \cup (IF fact.discharged THEN {fact.obligation} ELSE {}),
         records' = records \cup ({fact.record} \ {None}),
         facts' = facts \cup {fact}
  PROVE  ContextIsOneState'
<1>1. fact.discharged \in BOOLEAN
  BY DEF Fact
<1>2. {f.obligation : f \in {g \in facts' : g.discharged}} =
        {f.obligation : f \in {g \in facts : g.discharged}}
          \cup (IF fact.discharged THEN {fact.obligation} ELSE {})
  BY <1>1
<1>3. {f.record : f \in facts'} \ {None} = ({f.record : f \in facts} \ {None}) \cup ({fact.record} \ {None})
  OBVIOUS
<1> QED
  BY <1>2, <1>3 DEF ContextIsOneState

(* Marking what is open discharges nothing. *)
LEMMA MarkingDischargesNothing ==
  ASSUME TypeOK, Finish
  PROVE  Discharged' = Discharged
<1>1. \A o \in Obligations : state'[o] = "discharged" <=> state[o] = "discharged"
  BY DEF Finish, Marked, End, TypeOK, Context, Reasons
<1> QED
  BY <1>1 DEF Discharged

LEMMA OneStateKept ==
  TypeOK /\ ContextIsOneState /\ SavedInv /\ [Next]_vars => ContextIsOneState' /\ SavedInv'
<1> SUFFICES ASSUME TypeOK, ContextIsOneState, SavedInv, [Next]_vars
             PROVE  ContextIsOneState' /\ SavedInv'
  OBVIOUS
<1>1. ASSUME UNCHANGED <<state, records, facts>>
      PROVE  ContextIsOneState'
  BY <1>1 DEF ContextIsOneState, Discharged
<1>2. CASE Start \/ Rest \/ NothingFits \/ \E p \in Probe : Overflow(p)
  BY <1>1, <1>2 DEF Start, Rest, NothingFits, Overflow, Goto, context, SavedInv, InRound
<1>3. ASSUME NEW p \in Probe, Choose(p)
      PROVE  ContextIsOneState' /\ SavedInv'
  BY <1>1, <1>3 DEF Choose, Goto, context, ContextIsOneState, Discharged, SavedInv, InRound, OneState
<1>4. CASE Answer \/ OracleFails \/ RejectFact \/ StaleFact \/ UNCHANGED vars
  BY <1>1, <1>4 DEF Answer, OracleFails, RejectFact, StaleFact, Goto, context, vars, SavedInv, InRound
<1>5. CASE TakeFact
  <2>1. ContextIsOneState'
    BY <1>5, FactTaken, OneStateWithFact
  <2>2. facts \subseteq facts' /\ saved' = saved /\ at' = at
    BY <1>5 DEF TakeFact
  <2> QED
    BY <2>1, <2>2 DEF SavedInv, InRound, OneState
<1>6. CASE RollBack
  <2>1. OneState(saved)
    BY <1>6 DEF RollBack, EndRound, SavedInv, InRound
  <2>2. ContextIsOneState'
    BY <1>6, <2>1 DEF RollBack, ContextIsOneState, OneState, Discharged
  <2> QED
    BY <1>6, <2>2 DEF RollBack, Goto, SavedInv, InRound
<1>7. CASE KeepRound
  BY <1>1, <1>7 DEF KeepRound, Goto, context, SavedInv, InRound
<1>8. CASE Finish
  <2>1. ContextIsOneState'
    BY <1>8, MarkingDischargesNothing DEF Finish, ContextIsOneState
  <2> QED
    BY <1>8, <2>1 DEF Finish, Goto, SavedInv, InRound
<1> QED
  BY <1>2, <1>3, <1>4, <1>5, <1>6, <1>7, <1>8 DEF Next

(* However rounds were rolled back, obligations, facts and records are of  *)
(* one state.                                                              *)
THEOREM ContextStaysOneState == Spec => []ContextIsOneState
<1>1. Init => ContextIsOneState /\ SavedInv
  BY DEF Init, ContextIsOneState, Discharged, SavedInv, InRound
<1>2. Spec => [](ContextIsOneState /\ SavedInv)
  BY <1>1, OneStateKept, TypeCorrect, PTL DEF Spec
<1> QED
  BY <1>2, PTL
-----------------------------------------------------------------------------
(* Completeness is proven *)

(* A round that ends is the last one executed, and those before stay.      *)
LEMMA RoundExecuted ==
  ASSUME TypeOK, EndRound
  PROVE  /\ InRound /\ probe \in Probe
         /\ DOMAIN executed' = DOMAIN executed \cup {Len(executed) + 1}
         /\ Len(executed) + 1 \notin DOMAIN executed
         /\ executed'[Len(executed) + 1] = probe
         /\ \A i \in DOMAIN executed : executed'[i] = executed[i] /\ executed[i] \in Probe
<1>1. executed \in Seq(Probe) /\ probe \in Probe /\ executed' = Append(executed, probe) /\ InRound
  BY DEF TypeOK, EndRound, InRound
<1>2. DOMAIN executed = 1 .. Len(executed) /\ DOMAIN executed' = 1 .. Len(executed) + 1 /\ Len(executed) \in Nat
  BY <1>1
<1>3. executed'[Len(executed) + 1] = probe
  BY <1>1
<1>4. \A i \in DOMAIN executed : executed'[i] = executed[i] /\ executed[i] \in Probe
  BY <1>1, <1>2
<1> QED
  BY <1>1, <1>2, <1>3, <1>4

LEMMA FactsKept ==
  TypeOK /\ SavedInv /\ FactInv /\ [Next]_vars => FactInv'
<1> SUFFICES ASSUME TypeOK, SavedInv, FactInv, [Next]_vars
             PROVE  FactInv'
  OBVIOUS
<1>1. CASE EndRound /\ facts' \subseteq facts
  <2> SUFFICES ASSUME NEW f \in facts'
               PROVE  /\ f.obligation \in f.probe.obligations
                      /\ \E i \in DOMAIN executed' : f.probe = executed'[i]
    BY DEF FactInv
  <2>1. /\ f.obligation \in f.probe.obligations
        /\ f.probe = probe \/ \E i \in DOMAIN executed : f.probe = executed[i]
    BY <1>1 DEF FactInv
  <2> QED
    BY <1>1, <2>1, RoundExecuted
<1>2. CASE RollBack \/ KeepRound
  <2>1. EndRound
    BY <1>2 DEF RollBack, KeepRound
  <2>2. saved.facts \subseteq facts
    BY <2>1, RoundExecuted DEF SavedInv
  <2>3. facts' \subseteq facts
    BY <1>2, <2>2 DEF RollBack, KeepRound, context
  <2> QED
    BY <1>1, <2>1, <2>3
<1>3. CASE TakeFact
  <2>1. InRound /\ InRound' /\ probe' = probe /\ executed' = executed
    BY <1>3 DEF TakeFact, InRound
  <2>2. PICK fact \in Fact : /\ fact.probe = probe /\ fact.obligation \in probe.obligations
                             /\ facts' = facts \cup {fact}
    BY <1>3, FactTaken
  <2> QED
    BY <2>1, <2>2 DEF FactInv
<1>4. CASE Start \/ Rest \/ NothingFits \/ Finish \/ \E p \in Probe : Choose(p) \/ Overflow(p)
  <2>1. ~InRound /\ facts' = facts /\ executed' = executed
    BY <1>4 DEF Start, Rest, NothingFits, Finish, Choose, Overflow, context, InRound
  <2> QED
    BY <2>1 DEF FactInv
<1>5. CASE Answer \/ OracleFails \/ RejectFact \/ StaleFact \/ UNCHANGED vars
  <2>1. InRound' = InRound /\ facts' = facts /\ executed' = executed /\ probe' = probe
    BY <1>5 DEF Answer, OracleFails, RejectFact, StaleFact, Goto, context, vars, InRound
  <2> QED
    BY <2>1 DEF FactInv
<1> QED
  BY <1>2, <1>3, <1>4, <1>5 DEF Next

(* A status is given once, to what marking left.                           *)
LEMMA CompletenessKept ==
  /\ TypeOK /\ ControlInv /\ ContextIsOneState /\ FactInv /\ CompleteIsProven
  /\ [Next]_vars
  => CompleteIsProven'
<1> SUFFICES ASSUME TypeOK, ControlInv, ContextIsOneState, FactInv, CompleteIsProven, [Next]_vars,
                    status' = "CompleteBounded"
             PROVE  /\ ~uncertain' /\ ~stale'
                    /\ \A o \in Obligations : \E f \in facts', i \in DOMAIN executed' :
                         /\ f.discharged /\ f.obligation = o /\ f.probe = executed'[i]
                         /\ o \in executed'[i].obligations
  BY DEF CompleteIsProven
<1>1. CASE Finish
  <2>1. /\ ~InRound /\ facts' = facts /\ executed' = executed
        /\ uncertain' = uncertain /\ stale' = stale
    BY <1>1 DEF Finish, request, InRound
  <2>2. {o \in Obligations : state'[o] # "discharged"} = {} /\ ~uncertain /\ ~stale
    BY <1>1 DEF Finish, Status
  <2>3. Discharged = Obligations
    BY <1>1, <2>2, MarkingDischargesNothing DEF Discharged
  <2>4. \A o \in Obligations : \E f \in facts : f.discharged /\ f.obligation = o
    BY <2>3 DEF ContextIsOneState
  <2>5. \A f \in facts : f.obligation \in f.probe.obligations /\ \E i \in DOMAIN executed : f.probe = executed[i]
    BY <2>1 DEF FactInv
  <2> QED
    BY <2>1, <2>2, <2>4, <2>5
<1>2. CASE UNCHANGED vars
  BY <1>2 DEF vars, context, request, verdict, CompleteIsProven
<1>3. CASE ~Finish /\ ~UNCHANGED vars
  <2>1. status' = status /\ at # "done"
    BY <1>3 DEF Next, Start, Rest, NothingFits, Choose, Overflow, Answer, OracleFails, TakeFact,
                RejectFact, StaleFact, RollBack, KeepRound, EndRound, verdict
  <2> QED
    BY <2>1 DEF ControlInv, Statuses
<1> QED
  BY <1>1, <1>2, <1>3

(* A context is complete only if nothing is uncertain or stale and each    *)
(* obligation was discharged by a fact of a probe executed about it.       *)
THEOREM CompletenessIsProven == Spec => []CompleteIsProven
<1>1. Init => ControlInv /\ ContextIsOneState /\ SavedInv /\ FactInv /\ CompleteIsProven
  BY DEF Init, ControlInv, ContextIsOneState, Discharged, SavedInv, InRound, FactInv, CompleteIsProven, Statuses
<1>2. Spec => [](ControlInv /\ ContextIsOneState /\ SavedInv /\ FactInv /\ CompleteIsProven)
  BY <1>1, TypesKept, OneStateKept, FactsKept, CompletenessKept, TypeCorrect, PTL DEF Spec
<1> QED
  BY <1>2, PTL

-----------------------------------------------------------------------------
(* Budgets *)

LEMMA BudgetsKept ==
  TypeOK /\ ControlInv /\ TokensInv /\ BudgetsAreKept /\ [Next]_vars => TokensInv' /\ BudgetsAreKept'
<1> SUFFICES ASSUME TypeOK, ControlInv, TokensInv, BudgetsAreKept, [Next]_vars
             PROVE  TokensInv' /\ BudgetsAreKept'
  OBVIOUS
<1>0. /\ budget \in Amounts /\ budget.bytes \in Nat /\ budget.tokens \in Nat
      /\ Budget.bytes \in Nat /\ Budget.tokens \in Nat /\ inputBytes \in Nat
  BY DEF TypeOK, Amounts
<1>1. ASSUME NEW p \in Probe, Choose(p)
      PROVE  TokensInv' /\ BudgetsAreKept'
  <2>1. Cost[p.kind] \in Amounts /\ Cost[p.kind].bytes <= budget.bytes /\ Cost[p.kind].bytes \in Nat
    BY <1>1, ChosenFits DEF Choose, Amounts
  <2>2. /\ budget'.bytes = budget.bytes - Cost[p.kind].bytes /\ budget'.tokens = budget.tokens
        /\ inputBytes' = inputBytes + Cost[p.kind].bytes
    BY <1>0, <1>1, <2>1, Spending DEF Choose, Spent
  <2>3. inputBytes' + budget'.bytes <= InputBytes + Budget.bytes
    BY <1>0, <2>1, <2>2 DEF BudgetsAreKept
  <2>4. saved'.records = records /\ ~InRound /\ InRound' /\ at' = "execute"
    BY <1>1 DEF Choose, InRound, Goto
  <2>5. Tokens[records] + budget.tokens <= Tokens[InitialRecords] + Budget.tokens
    BY <2>4 DEF BudgetsAreKept, InRound
  <2> QED
    BY <2>2, <2>3, <2>4, <2>5 DEF TokensInv, BudgetsAreKept
<1>2. ASSUME NEW p \in Probe, Overflow(p)
      PROVE  TokensInv' /\ BudgetsAreKept'
  <2>1. Cost[p.kind] \in Amounts /\ Cost[p.kind].bytes <= budget.bytes /\ Cost[p.kind].bytes \in Nat
    BY <1>2, ChosenFits DEF Overflow, Amounts
  <2>2. /\ budget'.bytes = budget.bytes - Cost[p.kind].bytes /\ budget'.tokens = budget.tokens
        /\ inputBytes' = inputBytes
    BY <1>0, <1>2, <2>1, Spending DEF Overflow, Spent
  <2>3. inputBytes' + budget'.bytes <= InputBytes + Budget.bytes
    BY <1>0, <2>1, <2>2 DEF BudgetsAreKept
  <2>4. records' = records /\ ~InRound /\ ~InRound'
    BY <1>2 DEF Overflow, InRound, Goto, context
  <2> QED
    BY <2>2, <2>3, <2>4 DEF TokensInv, BudgetsAreKept, InRound
<1>3. CASE Answer \/ OracleFails \/ TakeFact \/ RejectFact \/ StaleFact
  <2>1. /\ InRound /\ InRound' /\ saved' = saved
        /\ budget' = budget /\ inputBytes' = inputBytes
    BY <1>3 DEF Answer, OracleFails, TakeFact, RejectFact, StaleFact, Goto, request, InRound
  <2> QED
    BY <2>1 DEF TokensInv, BudgetsAreKept, InRound
<1>4. CASE RollBack
  <2>1. /\ InRound /\ ~InRound' /\ records' = saved.records
        /\ budget' = budget /\ inputBytes' = inputBytes
    BY <1>4 DEF RollBack, EndRound, Goto, InRound
  <2> QED
    BY <2>1 DEF TokensInv, BudgetsAreKept
<1>5. CASE KeepRound
  <2>1. InRound /\ ~InRound' /\ records' = records /\ inputBytes' = inputBytes
    BY <1>5 DEF KeepRound, EndRound, Goto, InRound, context
  <2>2. /\ Delta \in Nat /\ Tokens[records] <= Tokens[saved.records] + Delta
        /\ Tokens[records] \in Nat /\ Tokens[saved.records] \in Nat /\ Tokens[InitialRecords] \in Nat
    BY <2>1, DeltaType
  <2>3. Delta <= budget.tokens
    BY <1>0, <1>5, <2>2 DEF KeepRound, Overrun
  <2>4. budget'.bytes = budget.bytes /\ budget'.tokens = budget.tokens - Delta
    BY <1>0, <1>5, <2>2, <2>3, SpendingTokens DEF KeepRound
  <2>5. Tokens[saved.records] + budget.tokens <= Tokens[InitialRecords] + Budget.tokens
    BY <2>1 DEF TokensInv
  <2>6. Tokens[records] + budget'.tokens <= Tokens[InitialRecords] + Budget.tokens
    BY <1>0, <2>2, <2>3, <2>4, <2>5
  <2> QED
    BY <2>1, <2>4, <2>6 DEF TokensInv, BudgetsAreKept
<1>6. CASE Start \/ Rest \/ NothingFits \/ Finish \/ UNCHANGED vars
  <2>1. records' = records /\ saved' = saved /\ budget' = budget /\ inputBytes' = inputBytes
    BY <1>6 DEF Start, Rest, NothingFits, Finish, vars, request, context
  <2>2. CASE UNCHANGED vars
    BY <2>1, <2>2 DEF vars, TokensInv, BudgetsAreKept, InRound
  <2>3. CASE Start \/ Rest \/ NothingFits \/ Finish
    <3>1. at \notin {"execute", "facts"} /\ at' \notin {"execute", "facts"}
      BY <2>3 DEF Start, Rest, NothingFits, Finish, Goto
    <3> QED
      BY <2>1, <3>1 DEF TokensInv, BudgetsAreKept, InRound
  <2> QED
    BY <1>6, <2>2, <2>3
<1> QED
  BY <1>1, <1>2, <1>3, <1>4, <1>5, <1>6 DEF Next

(* All rounds together add no more tokens than the budget allowed, and read*)
(* no more bytes.                                                          *)
THEOREM BudgetsAlwaysKept == Spec => []BudgetsAreKept
<1>1. Init => ControlInv /\ TokensInv /\ BudgetsAreKept
  <2> SUFFICES ASSUME Init
               PROVE  ControlInv /\ TokensInv /\ BudgetsAreKept
    OBVIOUS
  <2>1. Tokens[InitialRecords] \in Nat /\ Budget.tokens \in Nat /\ Budget.bytes \in Nat
    BY DEF Amounts
  <2> QED
    BY <2>1, InitTypes DEF Init, TokensInv, BudgetsAreKept, InRound
<1>2. Spec => [](ControlInv /\ TokensInv /\ BudgetsAreKept)
  BY <1>1, TypesKept, BudgetsKept, TypeCorrect, PTL DEF Spec
<1> QED
  BY <1>2, PTL
-----------------------------------------------------------------------------
(* Probes *)

LEMMA ProbesKept ==
  TypeOK /\ ProbeInv /\ ProbesOnce /\ [Next]_vars => ProbeInv' /\ ProbesOnce'
<1> SUFFICES ASSUME TypeOK, ProbeInv, ProbesOnce, [Next]_vars
             PROVE  ProbeInv' /\ ProbesOnce'
  OBVIOUS
<1>1. CASE RollBack \/ KeepRound
  <2>0. EndRound /\ at' \notin {"execute", "facts"}
    BY <1>1 DEF RollBack, KeepRound, Goto
  <2>1. probe.id \in Counterexamples /\ probe.kind \in Kinds /\ probe.kind \in allowed[probe.id]
    BY <2>0, RoundExecuted DEF ProbeInv, Probe
  <2>2. allowed' = [allowed EXCEPT ![probe.id] = @ \ {probe.kind}]
    BY <2>0 DEF EndRound, Retired
  <2>3. allowed \in [Counterexamples -> SUBSET Kinds]
    BY DEF TypeOK
  <2>4. \A i \in DOMAIN executed : executed[i].id \in Counterexamples
    BY <2>0, RoundExecuted DEF Probe
  <2>5. \A i \in DOMAIN executed : ~(executed[i].id = probe.id /\ executed[i].kind = probe.kind)
    BY <2>1 DEF ProbeInv
  <2>6. \A i \in DOMAIN executed' : executed'[i].kind \notin allowed'[executed'[i].id]
    BY <2>0, <2>1, <2>2, <2>3, <2>4, RoundExecuted DEF ProbeInv
  <2>7. ProbesOnce'
    <3> SUFFICES ASSUME NEW i \in DOMAIN executed', NEW j \in DOMAIN executed',
                        executed'[i].id = executed'[j].id, executed'[i].kind = executed'[j].kind
                 PROVE  i = j
      BY DEF ProbesOnce
    <3>1. CASE i \in DOMAIN executed /\ j \in DOMAIN executed
      BY <2>0, <3>1, RoundExecuted DEF ProbesOnce
    <3>2. CASE i = Len(executed) + 1 /\ j \in DOMAIN executed
      BY <2>0, <2>5, <3>2, RoundExecuted
    <3>3. CASE i \in DOMAIN executed /\ j = Len(executed) + 1
      BY <2>0, <2>5, <3>3, RoundExecuted
    <3> QED
      BY <2>0, <3>1, <3>2, <3>3, RoundExecuted
  <2> QED
    BY <2>0, <2>6, <2>7 DEF ProbeInv, InRound
<1>2. ASSUME NEW p \in Probe, Choose(p)
      PROVE  ProbeInv' /\ ProbesOnce'
  <2>1. executed' = executed /\ allowed' = allowed /\ probe' = p /\ p.kind \in allowed[p.id]
    BY <1>2, ChosenFits DEF Choose
  <2> QED
    BY <2>1 DEF ProbeInv, ProbesOnce
<1>3. CASE Start \/ Rest \/ NothingFits \/ Finish \/ \E p \in Probe : Overflow(p)
  <2>1. executed' = executed /\ allowed' = allowed /\ at' \notin {"execute", "facts"}
    BY <1>3 DEF Start, Rest, NothingFits, Finish, Overflow, Goto, request
  <2> QED
    BY <2>1 DEF ProbeInv, ProbesOnce, InRound
<1>4. CASE Answer \/ OracleFails \/ TakeFact \/ RejectFact \/ StaleFact
  <2>1. executed' = executed /\ allowed' = allowed /\ probe' = probe /\ InRound
    BY <1>4 DEF Answer, OracleFails, TakeFact, RejectFact, StaleFact, request, InRound
  <2> QED
    BY <2>1 DEF ProbeInv, ProbesOnce
<1>5. CASE UNCHANGED vars
  BY <1>5 DEF vars, request, ProbeInv, ProbesOnce, InRound
<1> QED
  BY <1>1, <1>2, <1>3, <1>4, <1>5 DEF Next

(* No probe is executed twice, whatever it answered. *)
THEOREM NoProbeTwice == Spec => []ProbesOnce
<1>1. Init => ProbeInv /\ ProbesOnce
  BY DEF Init, ProbeInv, ProbesOnce, InRound
<1>2. Spec => [](ProbeInv /\ ProbesOnce)
  BY <1>1, ProbesKept, TypeCorrect, PTL DEF Spec
<1> QED
  BY <1>2, PTL

-----------------------------------------------------------------------------
(* Exhaustion *)

LEMMA WorkKept ==
  TypeOK /\ WorkInv /\ [Next]_vars => WorkInv'
<1> SUFFICES ASSUME TypeOK, WorkInv, [Next]_vars
             PROVE  WorkInv'
  OBVIOUS
<1> DEFINE Left == \E o \in Obligations : state[o] # "discharged"
<1>1. CASE Actionable # {} /\ state' = state /\ at' = "finish"
  <2>1. Left'
    BY <1>1 DEF Actionable, Open
  <2> QED
    BY <1>1, <2>1 DEF WorkInv, InRound
<1>2. ASSUME NEW p \in Probe, Choose(p)
      PROVE  WorkInv'
  <2>1. \E o \in Obligations : saved'.state[o] = "open"
    BY <1>2, ChosenFits DEF Choose, Open
  <2>2. exhausted' = exhausted /\ ~exhausted
    BY <1>2 DEF Choose, verdict, WorkInv
  <2> QED
    BY <2>1, <2>2 DEF WorkInv
<1>3. ASSUME NEW p \in Probe, Overflow(p)
      PROVE  WorkInv'
  <2>1. Actionable # {}
    BY <1>3 DEF Overflow, Candidates
  <2> QED
    BY <1>1, <1>3, <2>1 DEF Overflow, Goto, context
<1>4. CASE RollBack
  <2>1. \E o \in Obligations : saved.state[o] = "open"
    BY <1>4, RoundExecuted DEF RollBack, WorkInv
  <2>2. Left' /\ at' = "finish"
    BY <1>4, <2>1 DEF RollBack, Goto
  <2> QED
    BY <2>2 DEF WorkInv, InRound
<1>5. CASE NothingFits
  BY <1>1, <1>5 DEF NothingFits, Goto, context
<1>6. CASE Answer \/ OracleFails \/ TakeFact \/ RejectFact \/ StaleFact
  <2>1. exhausted' = exhausted /\ saved' = saved /\ InRound /\ InRound'
    BY <1>6 DEF Answer, OracleFails, TakeFact, RejectFact, StaleFact, Goto, verdict, InRound
  <2>2. ~exhausted
    BY <2>1 DEF WorkInv, InRound
  <2> QED
    BY <2>1, <2>2 DEF WorkInv
<1>7. CASE Start \/ KeepRound
  <2>1. exhausted' = exhausted /\ ~exhausted /\ at' \in {"choose", "finish"}
    BY <1>7 DEF Start, KeepRound, EndRound, Goto, WorkInv
  <2> QED
    BY <2>1 DEF WorkInv, InRound
<1>8. CASE Rest
  <2>1. exhausted' = exhausted /\ ~exhausted /\ at' = "finish"
    BY <1>8 DEF Rest, Goto, verdict, WorkInv
  <2> QED
    BY <2>1 DEF WorkInv, InRound
<1>9. CASE Finish
  <2>1. Discharged' = Discharged /\ exhausted' = exhausted /\ at' = "done"
    BY <1>9, MarkingDischargesNothing DEF Finish, Goto
  <2>2. exhausted => \E o \in Obligations : o \notin Discharged
    BY DEF WorkInv, Discharged
  <2>3. exhausted' => Left'
    BY <2>1, <2>2 DEF Discharged
  <2> QED
    BY <2>1, <2>3 DEF WorkInv, InRound
<1>10. CASE UNCHANGED vars
  BY <1>10 DEF vars, context, verdict, WorkInv, InRound
<1> QED
  BY <1>2, <1>3, <1>4, <1>5, <1>6, <1>7, <1>8, <1>9, <1>10 DEF Next

LEMMA ExhaustionKept ==
  /\ TypeOK /\ ControlInv /\ WorkInv /\ ExhaustedLeavesWork /\ [Next]_vars
  => ExhaustedLeavesWork'
<1> SUFFICES ASSUME TypeOK, ControlInv, WorkInv, ExhaustedLeavesWork, [Next]_vars,
                    status' = "BudgetExhausted"
             PROVE  \E o \in Obligations : state'[o] # "discharged"
  BY DEF ExhaustedLeavesWork
<1>1. CASE Finish
  <2>1. exhausted /\ exhausted' = exhausted
    BY <1>1 DEF Finish, Status
  <2> QED
    BY <2>1, WorkKept DEF WorkInv
<1>2. CASE UNCHANGED vars
  BY <1>2 DEF vars, context, verdict, ExhaustedLeavesWork
<1>3. CASE ~Finish /\ ~UNCHANGED vars
  <2>1. status' = status /\ at # "done"
    BY <1>3 DEF Next, Start, Rest, NothingFits, Choose, Overflow, Answer, OracleFails, TakeFact,
                RejectFact, StaleFact, RollBack, KeepRound, EndRound, verdict
  <2> QED
    BY <2>1 DEF ControlInv, Statuses
<1> QED
  BY <1>1, <1>2, <1>3

(* The budget is said to be exhausted only if something is left to prove:  *)
(* a rolled back round has discharged nothing.                             *)
THEOREM ExhaustionLeavesWork == Spec => []ExhaustedLeavesWork
<1>1. Init => ControlInv /\ WorkInv /\ ExhaustedLeavesWork
  BY DEF Init, ControlInv, WorkInv, InRound, ExhaustedLeavesWork, Statuses
<1>2. Spec => [](ControlInv /\ WorkInv /\ ExhaustedLeavesWork)
  BY <1>1, TypesKept, WorkKept, ExhaustionKept, TypeCorrect, PTL DEF Spec
<1> QED
  BY <1>2, PTL

-----------------------------------------------------------------------------
(* What a context says of itself is so, for any counterexamples, costs and *)
(* answers.                                                                *)
THEOREM ContextStaysSound == Spec => []ContextIsSound
BY ContextStaysOneState, CompletenessIsProven, BudgetsAlwaysKept, NoProbeTwice, ExhaustionLeavesWork, PTL
   DEF ContextIsSound
=============================================================================
