----------------------------- MODULE EssayClaims -----------------------------
(***************************************************************************)
(* What comments and tests of the repository say of the evaluation flow    *)
(* and the code does not do.  TLC shows a behaviour of EssayService that   *)
(* contradicts each of them.                                               *)
(***************************************************************************)
EXTENDS EssayService

\* "On a failed evaluation the request is put in the message queue": the
\* doc of generateSubmissionFeedback.  Not when the verdict cannot be stored.
FailedEvaluationIsQueued ==
  faults = 0 =>
    \A p \in Posts :
      pc[p] = "threw" /\ verdict[p] # "none" => job[p] # "none"

\* "A revision request for a submission being EVALUATING is refused": a test
\* of revisionSubmission.  Not when it is marked after the check.
NoRevisionWhileEvaluating ==
  [][\A r \in Revs : pc[r] = "revMark" /\ pc'[r] = "revInsert"
                       => status[sub[r]] # "EVALUATING"]_vars

\* "The queue's re-evaluation does nothing if the submission has a manual
\* retry log": a test of runEvaluationJob.  The code looks for RETRY logs.
QueueSkipsManuallyRevised ==
  [][pc[Worker] = "load" /\ HasLog(sub[Worker], "REVISION")
       => pc'[Worker] # "markRead"]_vars
=============================================================================
