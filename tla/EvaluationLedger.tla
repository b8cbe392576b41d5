-------------------------- MODULE EvaluationLedger --------------------------
(***************************************************************************)
(* What a client of the service may rely on, without the steps that bring  *)
(* it about: a submission is registered, evaluations of it open and        *)
(* conclude, each concludes at most once and only after it opened, and the *)
(* one that concludes decides what is seen, until the next one opens: that *)
(* hides it, or, opening unseen, may bring an older verdict back, but not  *)
(* an older status.  EssayService implements it                            *)
(* (EssayProperties!LedgerSpec).                                           *)
(***************************************************************************)
CONSTANTS Submissions, Evaluators, Nothing

VARIABLES
  state,   \* the status a client sees
  shown,   \* the evaluator whose verdict a SUCCESS shows, Nothing otherwise
  open     \* the evaluations of each submission that have not concluded

ledgerVars == <<state, shown, open>>

Init ==
  /\ state = [s \in Submissions |-> "none"]
  /\ shown = [s \in Submissions |-> Nothing]
  /\ open = [s \in Submissions |-> {}]

Register(s) ==
  /\ state[s] = "none"
  /\ state' = [state EXCEPT ![s] = "PENDING"]
  /\ UNCHANGED <<shown, open>>

\* Opening an evaluation, or marking it again while it is open, hides the
\* verdict of an earlier one.
Begin(t, s) ==
  /\ state[s] # "none"
  /\ open' = [open EXCEPT ![s] = @ \cup {t}]
  /\ state' = [state EXCEPT ![s] = "EVALUATING"]
  /\ shown' = [shown EXCEPT ![s] = Nothing]

\* An evaluation may open without being seen, after another has concluded:
\* the status stays, a SUCCESS may show the verdict of any evaluation that is
\* not open, or none.
BeginUnseen(t, s) ==
  /\ state[s] \in {"SUCCESS", "FAILED"}
  /\ open' = [open EXCEPT ![s] = @ \cup {t}]
  /\ \E u \in IF state[s] = "SUCCESS" THEN (Evaluators \ open'[s]) \cup {Nothing} ELSE {Nothing} :
       shown' = [shown EXCEPT ![s] = u]
  /\ UNCHANGED state

Succeed(t, s) ==
  /\ t \in open[s]
  /\ open' = [open EXCEPT ![s] = @ \ {t}]
  /\ state' = [state EXCEPT ![s] = "SUCCESS"]
  /\ shown' = [shown EXCEPT ![s] = t]

Fail(t, s) ==
  /\ t \in open[s]
  /\ open' = [open EXCEPT ![s] = @ \ {t}]
  /\ state' = [state EXCEPT ![s] = "FAILED"]
  /\ shown' = [shown EXCEPT ![s] = Nothing]

\* A failing call or a crash ends evaluations without a conclusion.
Abandon(lost) ==
  /\ open' = [s \in Submissions |-> open[s] \ lost]
  /\ UNCHANGED <<state, shown>>

Next ==
  \/ \E s \in Submissions :
       \/ Register(s)
       \/ \E t \in Evaluators : \/ Begin(t, s) \/ BeginUnseen(t, s)
                               \/ Succeed(t, s) \/ Fail(t, s)
  \/ \E lost \in SUBSET Evaluators : Abandon(lost)

Spec == Init /\ [][Next]_ledgerVars
=============================================================================
