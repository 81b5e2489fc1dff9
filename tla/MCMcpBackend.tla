------------------------------ MODULE MCMcpBackend ------------------------------
(***************************************************************************)
(* Model-checking instance of McpBackend: two revisions that differ in both*)
(* files, one of them deleted by the second.  A history tells whether a    *)
(* call took the generation that it opened from an earlier call.           *)
(***************************************************************************)
EXTENDS McpBackend

CONSTANTS a, b, t1, t2, r1, r2

MCCommitted ==
  [r \in Revs |-> [p \in Paths |->
     IF r = r1 THEN t1 ELSE IF p = a THEN t2 ELSE None]]

VARIABLE reused \* the call has found CURRENT to be the generation it wants
reuseVars == <<allVars, reused>>

ReuseInit == Init /\ reused = FALSE

ReuseNext ==
  /\ Next
  /\ reused' = CASE stage = "idle" -> FALSE
                 [] stage = "publish" /\ stage' = "open" -> current = revision
                 [] OTHER -> reused

ReuseSpec == ReuseInit /\ [][ReuseNext]_reuseVars

(* The generation of CURRENT, when a call reuses it as it is, is of the    *)
(* revision wanted: each file of the call's answer is as it was at some    *)
(* moment of its refresh (open_current_report).                            *)
NeverReusesWrongData == reused => AnswersAreOfTheFiles
=============================================================================
