------------------------------ MODULE CgcrEngine ------------------------------
(***************************************************************************)
(* Counterexample-guided refinement of a context: CgcrEngine::compile of   *)
(* crates/cgrx-cgcr/src/engine.rs and the choice of probes, scheduler.rs.  *)
(* Each round executes the probe that promises most for its cost and takes *)
(* its facts one by one: a fact discharges an obligation or says why not,  *)
(* and may bring a record.  A round whose records overrun the budget is    *)
(* rolled back.  The oracle that answers probes may do anything.           *)
(* Latency is budgeted as source bytes are and left out; a reason is its   *)
(* code; costs are those of a CostTable, which knows every kind.           *)
(***************************************************************************)
EXTENDS Naturals, Sequences, FiniteSets

CONSTANTS
  Obligations,     \* what the context has to account for
  Kinds,           \* kinds of probe
  Counterexamples, \* identifiers of the counterexamples of the request
  About,           \* [Counterexamples -> sets of obligations]
  Allowed,         \* [Counterexamples -> sets of kinds]
  Cost,            \* [Kinds -> source bytes and expected tokens]
  Weight,          \* normalized_cost of each kind
  Records,         \* evidence records, by node
  InitialRecords,  \* those of the initial pack
  Tokens,          \* [sets of records -> Nat]: packed_records_tokens
  Budget,          \* source bytes and tokens that may be spent
  InputBytes,      \* probe_input_bytes of the initial pack
  MaxBytes,        \* u64::MAX
  MaxFacts,        \* bound: facts of one answer
  None             \* no value

Amounts == [bytes : Nat, tokens : Nat]
Statuses == {"Stale", "BudgetExhausted", "CompleteBounded", "NoExtraContext", "Partial"}

ASSUME RequestAssumption ==
  /\ About \in [Counterexamples -> SUBSET Obligations]
  /\ Allowed \in [Counterexamples -> SUBSET Kinds]
  /\ IsFiniteSet(Obligations)
  /\ None \notin Records \cup Statuses
ASSUME CostAssumption ==
  /\ Cost \in [Kinds -> Amounts]
  /\ Weight \in [Kinds -> Nat \ {0}]
  /\ Tokens \in [SUBSET Records -> Nat]
ASSUME BudgetAssumption ==
  /\ Budget \in Amounts
  /\ InputBytes \in Nat /\ MaxBytes \in Nat /\ MaxFacts \in Nat
  /\ InitialRecords \subseteq Records

VARIABLES
  at,          \* where compile is
  state,       \* [Obligations -> "open", "discharged" or the reason it is residual]
  uncertain,   \* the obligations have uncertainties
  provisional, \* [Obligations -> a reason it may turn out to be residual, or None]
  allowed,     \* [Counterexamples -> kinds not executed yet]: remaining
  budget,      \* what is left of the budget
  inputBytes,  \* probe_input_bytes
  records,     \* packed.records
  facts,       \* the facts taken
  executed,    \* executed_probes, in order
  probe,       \* the probe being executed, or None
  answer,      \* how many facts of its answer are left
  saved,       \* what a rollback of the round restores
  quiet,       \* no_growth_rounds
  exhausted,   \* budget_exhausted
  stale,       \* stale
  status       \* of the compiled context, or None

request == <<uncertain, allowed, budget, inputBytes, quiet>>
context == <<state, provisional, records, facts>>
verdict == <<exhausted, stale, status>>
vars == <<at, request, context, executed, probe, answer, saved, verdict>>

Reasons == {"INVALID_PROBE_FACT", "residual", "error"}
Ends == {"STALE_SNAPSHOT", "BUDGET_EXHAUSTED", "NO_NEW_EVIDENCE", "NO_PROBE_EVIDENCE"}

Probe == [id : Counterexamples, kind : Kinds, obligations : SUBSET Obligations]
Fact == [probe : Probe, obligation : Obligations, discharged : BOOLEAN, record : Records \cup {None}]
Context == [state : [Obligations -> {"open", "discharged"} \cup Reasons \cup Ends],
            provisional : [Obligations -> Reasons \cup {None}],
            records : SUBSET Records, facts : SUBSET Fact]

Open == {o \in Obligations : state[o] = "open"}
Discharged == {o \in Obligations : state[o] = "discharged"}

Init ==
  /\ at = "start"
  /\ state = [o \in Obligations |-> "open"]
  /\ uncertain \in BOOLEAN
  /\ provisional = [o \in Obligations |-> None]
  /\ allowed = Allowed
  /\ budget = Budget
  /\ inputBytes = InputBytes
  /\ records = InitialRecords
  /\ facts = {}
  /\ executed = <<>>
  /\ probe = None
  /\ answer = 0
  /\ saved = None
  /\ quiet = 0
  /\ exhausted = FALSE
  /\ stale = FALSE
  /\ status = None

Goto(stage) == at' = stage

-----------------------------------------------------------------------------
(* The snapshot the request is pinned to is compared with the current one. *)
Start ==
  /\ at = "start"
  /\ stale' \in BOOLEAN
  /\ Goto(IF stale' THEN "finish" ELSE "choose")
  /\ UNCHANGED <<request, context, executed, probe, answer, saved, exhausted, status>>

Actionable == {c \in Counterexamples : About[c] \cap Open # {}}
Fits(kind) == Cost[kind].bytes <= budget.bytes /\ Cost[kind].tokens <= budget.tokens

Candidates ==
  {p \in Probe : /\ p.id \in Actionable
                 /\ p.kind \in allowed[p.id]
                 /\ Fits(p.kind)
                 /\ p.obligations = About[p.id] \cap Open}

(* Obligations per cost; of equals the code takes the least identifier.    *)
Best(p) ==
  \A q \in Candidates :
    Cardinality(q.obligations) * Weight[p.kind] <= Cardinality(p.obligations) * Weight[q.kind]

(* Nothing open that a counterexample is about. *)
Rest ==
  /\ at = "choose"
  /\ Actionable = {}
  /\ Goto("finish")
  /\ UNCHANGED <<request, context, executed, probe, answer, saved, verdict>>

(* A faulty NothingFits: the loop is not left. *)
NothingFitsAgain ==
  /\ at = "choose"
  /\ Actionable # {}
  /\ Candidates = {}
  /\ exhausted' = \E c \in Actionable : allowed[c] # {}
  /\ UNCHANGED <<at, request, context, executed, probe, answer, saved, stale, status>>

(* No probe is left, or none that the budget allows. *)
NothingFits ==
  /\ at = "choose"
  /\ Actionable # {}
  /\ Candidates = {}
  /\ exhausted' = \E c \in Actionable : allowed[c] # {}
  /\ Goto("finish")
  /\ UNCHANGED <<request, context, executed, probe, answer, saved, stale, status>>

Spent(p) == budget' = [budget EXCEPT !.bytes = @ - Cost[p.kind].bytes]

Choose(p) ==
  /\ at = "choose"
  /\ p \in Candidates /\ Best(p)
  /\ inputBytes + Cost[p.kind].bytes <= MaxBytes
  /\ Spent(p)
  /\ inputBytes' = inputBytes + Cost[p.kind].bytes
  /\ probe' = p
  /\ saved' = [state |-> state, provisional |-> provisional, records |-> records, facts |-> facts]
  /\ Goto("execute")
  /\ UNCHANGED <<uncertain, allowed, quiet, context, executed, answer, verdict>>

(* The counter of input bytes would overflow. *)
Overflow(p) ==
  /\ at = "choose"
  /\ p \in Candidates /\ Best(p)
  /\ inputBytes + Cost[p.kind].bytes > MaxBytes
  /\ Spent(p)
  /\ exhausted' = TRUE
  /\ Goto("finish")
  /\ UNCHANGED <<uncertain, allowed, inputBytes, quiet, context, executed, probe, answer, saved, stale, status>>

-----------------------------------------------------------------------------
(* The oracle answers with so many facts, or with an error. *)
Answer ==
  /\ at = "execute"
  /\ answer' \in 0 .. MaxFacts
  /\ Goto("facts")
  /\ UNCHANGED <<request, context, executed, probe, saved, verdict>>

(* Every obligation of the probe may turn out to be residual for a reason. *)
Doubted(reason) == [o \in Obligations |-> IF o \in probe.obligations THEN reason ELSE provisional[o]]

OracleFails ==
  /\ at = "execute"
  /\ provisional' = Doubted("error")
  /\ Goto("facts")
  /\ UNCHANGED <<request, state, records, facts, executed, probe, answer, saved, verdict>>

(* A fresh fact of the selected probe. *)
TakeFact ==
  /\ at = "facts"
  /\ answer > 0
  /\ \E fact \in [probe : {probe}, obligation : probe.obligations,
                  discharged : BOOLEAN, record : Records \cup {None}] :
       LET o == fact.obligation IN
       /\ IF fact.discharged
          THEN /\ state' = [state EXCEPT ![o] = "discharged"]
               /\ provisional' = [provisional EXCEPT ![o] = None]
          ELSE /\ provisional' = [provisional EXCEPT ![o] = "residual"]
               /\ UNCHANGED state
       /\ records' = records \cup ({fact.record} \ {None})
       /\ facts' = facts \cup {fact}
  /\ answer' = answer - 1
  /\ UNCHANGED <<at, request, executed, probe, saved, verdict>>

(* A faulty RejectFact: the fact is applied all the same. *)
AcceptAnyFact ==
  /\ at = "facts"
  /\ answer > 0
  /\ \E o \in Obligations :
       /\ state' = [state EXCEPT ![o] = "discharged"]
       /\ facts' = facts \cup {[probe |-> probe, obligation |-> o, discharged |-> TRUE, record |-> None]}
  /\ answer' = answer - 1
  /\ UNCHANGED <<at, request, provisional, records, executed, probe, saved, verdict>>

(* A fact of another probe, or of an obligation this one is not about. *)
RejectFact ==
  /\ at = "facts"
  /\ answer > 0
  /\ provisional' = Doubted("INVALID_PROBE_FACT")
  /\ answer' = answer - 1
  /\ UNCHANGED <<at, request, state, records, facts, executed, probe, saved, verdict>>

(* A fact of another snapshot or source ends the round; those before stay. *)
StaleFact ==
  /\ at = "facts"
  /\ answer > 0
  /\ stale' = TRUE
  /\ answer' = 0
  /\ UNCHANGED <<at, request, context, executed, probe, saved, exhausted, status>>

-----------------------------------------------------------------------------
(* The counterexample's kinds, less the one just executed. *)
Retired == [allowed EXCEPT ![probe.id] = @ \ {probe.kind}]

(* saturating_sub: what the round's records add. *)
Delta == IF Tokens[records] > Tokens[saved.records] THEN Tokens[records] - Tokens[saved.records] ELSE 0

EndRound ==
  /\ at = "facts"
  /\ answer = 0
  /\ executed' = Append(executed, probe)
  /\ allowed' = Retired
  /\ probe' = None
  /\ saved' = None
  /\ UNCHANGED <<uncertain, inputBytes, answer, stale, status>>

Overrun == Delta > budget.tokens

(* The records cost more than is left: the round is undone, less the bytes *)
(* it read, and the loop left.                                             *)
RollBack ==
  /\ EndRound
  /\ Overrun
  /\ state' = saved.state
  /\ provisional' = saved.provisional
  /\ records' = saved.records
  /\ facts' = saved.facts
  /\ exhausted' = TRUE
  /\ Goto("finish")
  /\ UNCHANGED <<budget, quiet>>

(* The next round, unless a fact was stale or two rounds brought no record.*)
KeepRound ==
  /\ EndRound
  /\ ~Overrun
  /\ budget' = [budget EXCEPT !.tokens = IF Delta < @ THEN @ - Delta ELSE 0]
  /\ quiet' = IF records = saved.records THEN quiet + 1 ELSE 0
  /\ Goto(IF stale \/ quiet' >= 2 THEN "finish" ELSE "choose")
  /\ UNCHANGED <<context, exhausted>>

-----------------------------------------------------------------------------
End ==
  IF stale THEN "STALE_SNAPSHOT"
  ELSE IF exhausted THEN "BUDGET_EXHAUSTED"
  ELSE IF quiet >= 2 THEN "NO_NEW_EVIDENCE"
  ELSE "NO_PROBE_EVIDENCE"

(* mark_all_open_residual: an open obligation is residual, for the reason  *)
(* it was given or for the one that ended the loop.                        *)
Marked ==
  [o \in Obligations |->
     IF state[o] # "open" THEN state[o]
     ELSE IF stale \/ provisional[o] = None THEN End
     ELSE provisional[o]]

Status(residual) ==
  IF stale THEN "Stale"
  ELSE IF exhausted THEN "BudgetExhausted"
  ELSE IF residual = {} /\ ~uncertain THEN "CompleteBounded"
  ELSE IF records = {} /\ executed = <<>> /\ residual = {} THEN "NoExtraContext"
  ELSE "Partial"

Finish ==
  /\ at = "finish"
  /\ state' = Marked
  /\ status' = Status({o \in Obligations : state'[o] # "discharged"})
  /\ Goto("done")
  /\ UNCHANGED <<request, provisional, records, facts, executed, probe, answer, saved, exhausted, stale>>

Next ==
  \/ Start
  \/ Rest \/ NothingFits \/ \E p \in Probe : Choose(p) \/ Overflow(p)
  \/ Answer \/ OracleFails \/ TakeFact \/ RejectFact \/ StaleFact
  \/ RollBack \/ KeepRound
  \/ Finish

Spec == Init /\ [][Next]_vars
FairSpec == Spec /\ WF_vars(Next)

-----------------------------------------------------------------------------
(* Properties *)

(* Types, and a probe with its rollback is there exactly during a round. *)
TypeOK ==
  /\ at \in {"start", "choose", "execute", "facts", "finish", "done"}
  /\ [state |-> state, provisional |-> provisional, records |-> records, facts |-> facts] \in Context
  /\ uncertain \in BOOLEAN
  /\ allowed \in [Counterexamples -> SUBSET Kinds]
  /\ budget \in Amounts
  /\ inputBytes \in Nat
  /\ executed \in Seq(Probe)
  /\ answer \in 0 .. MaxFacts
  /\ quiet \in 0 .. 2
  /\ exhausted \in BOOLEAN /\ stale \in BOOLEAN
  /\ status \in Statuses \cup {None}
  /\ IF at \in {"execute", "facts"} THEN probe \in Probe /\ saved \in Context
     ELSE probe = None /\ saved = None

(* However rounds were rolled back, obligations, facts and records are of  *)
(* one state: an obligation is discharged by a fact that is kept, and the  *)
(* records are the initial ones and those of the facts.                    *)
ContextIsOneState ==
  /\ Discharged = {f.obligation : f \in {g \in facts : g.discharged}}
  /\ records = InitialRecords \cup ({f.record : f \in facts} \ {None})

(* A context is complete only if nothing is uncertain or stale and each    *)
(* obligation was discharged by a fact of a probe executed about it.       *)
CompleteIsProven ==
  status = "CompleteBounded" =>
    /\ ~uncertain /\ ~stale
    /\ \A o \in Obligations : \E f \in facts, i \in DOMAIN executed :
         f.discharged /\ f.obligation = o /\ f.probe = executed[i] /\ o \in executed[i].obligations

(* All rounds together add no more tokens than the budget allowed, and read*)
(* no more bytes.                                                          *)
BudgetsAreKept ==
  /\ at \notin {"execute", "facts"} => Tokens[records] + budget.tokens <= Tokens[InitialRecords] + Budget.tokens
  /\ inputBytes + budget.bytes <= InputBytes + Budget.bytes

(* No probe is executed twice, whatever it answered. *)
ProbesOnce ==
  \A i, j \in DOMAIN executed :
    executed[i].id = executed[j].id /\ executed[i].kind = executed[j].kind => i = j

(* The budget is said to be exhausted only if something is left to prove:  *)
(* a rolled back round has discharged nothing.                             *)
ExhaustedLeavesWork ==
  status = "BudgetExhausted" => \E o \in Obligations : state[o] # "discharged"

(* What a context says of itself is so: its status, its obligations, its   *)
(* budget and its probes.                                                  *)
ContextIsSound ==
  /\ ContextIsOneState
  /\ CompleteIsProven
  /\ BudgetsAreKept
  /\ ProbesOnce
  /\ ExhaustedLeavesWork

(* The loop ends, whatever the oracle answers, if it answers at all. *)
Terminates == <>(at = "done")
=============================================================================
