--------------------------- MODULE EssayProperties ---------------------------
(***************************************************************************)
(* What the essay service promises, stated over EssayService.              *)
(***************************************************************************)
EXTENDS EssayService

\* Every variable of the service holds a value of its type.
TypeOK == StoreTypeOK /\ EvaluationTypeOK

\* Each task is at a step of its own handler or of evaluateSubmission, and
\* knows a submission that exists wherever the step needs one: what makes
\* the reads status[sub[t]] of the handlers defined.
Placed ==
  /\ \A p \in Posts : /\ pc[p] \in PostPcs \cup EvalPcs \cup Over \cup {"idle"}
                      /\ pc[p] \in EvalPcs \cup {"enqueue"} => sub[p] = p
  /\ \A r \in Revs : /\ pc[r] \in RevPcs \cup EvalPcs \cup Over \cup {"idle"}
                     /\ pc[r] \in EvalPcs \cup RevPcs => sub[r] # NoSub
  /\ pc[Worker] \in WorkerPcs \cup EvalPcs \cup {"idle"}
  /\ pc[Worker] # "idle" <=> sub[Worker] # NoSub
  /\ \A t \in Tasks : sub[t] # NoSub => Exists(sub[t])
  /\ \A s \in Posts : job[s] # "none" => Exists(s)
  /\ \A s \in Posts : job[s] \notin Q!Settled => stalls[s] <= MaxStalls

-----------------------------------------------------------------------------
(* Submissions                                                             *)

\* A student has at most one submission per component type, although two
\* POST requests may both pass isDuplicateSubmission before either inserts.
OneSubmissionPerComponent ==
  \A s1, s2 \in Posts :
    Exists(s1) /\ Exists(s2) /\ SlotOf[s1] = SlotOf[s2] => s1 = s2

\* The newest log of submission s is l, the marks aside.  (A mark may commit
\* its log after an outcome and have overlooked it, so the newest log of all
\* tells nothing.)
LastOutcome(s, l) ==
  \E i \in DOMAIN logs[s] :
    /\ logs[s][i] = l /\ l.status # "EVALUATING"
    /\ \A j \in DOMAIN logs[s] : j > i => logs[s][j].status = "EVALUATING"

\* A submission that is not EVALUATING has the status that the newest log
\* other than a mark tells, through any interleaving of INITIAL, RETRY and
\* REVISION evaluations, the marks whose save() finds nothing to update, any
\* failing call and any crash: a mark never brings an older status back.
StatusIsLastOutcome ==
  \A s \in Posts :
    Exists(s) /\ status[s] # "EVALUATING" =>
      \E action \in Actions : LastOutcome(s, Log(action, status[s]))

\* The tasks that will still write an outcome for submission s.
Owns(t, s) ==
  /\ sub[t] = s
  /\ \/ pc[t] \in {"evaluating", "save", "saveFailed"}
     \/ t \in Revs /\ pc[t] \in {"revInsert", "load", "markRead", "markCompare", "markSave"}

Calm == faults = 0 /\ crashes = 0 /\ "unstorable" \notin Verdicts

\* While nothing fails, a SUCCESS submission that nobody evaluates any more
\* shows the verdict of the evaluation that concluded last, whatever entities
\* read earlier markEvaluating and markRevision have saved over it.  (Until
\* the last of several overlapping ones concludes it may show an older one:
\* their marks write result columns back without touching the status.)
SuccessShowsItsVerdict ==
  Calm => \A s \in Posts :
            status[s] = "SUCCESS" /\ ~(\E t \in Tasks : Owns(t, s)) =>
              \E t \in Tasks : /\ result[s] = t
                               /\ LastOutcome(s, Log(ActionOf(t), "SUCCESS"))
                               /\ t \in Posts => t = s
                               /\ t \in Revs => sub[t] = s

\* While no call fails, the process does not crash and every verdict can be
\* stored, an EVALUATING submission has a task that will settle it: no
\* interleaving of the three callers leaves it EVALUATING for good, where
\* revisions and retries are refused.
EvaluatingHasOwner ==
  Calm => \A s \in Posts :
            status[s] = "EVALUATING" => \E t \in Tasks : Owns(t, s)

-----------------------------------------------------------------------------
(* Retries                                                                 *)

\* A submission is retried at most once, although BullMQ delivers a stalled
\* job again and the first delivery may have got as far as its last step.
RetriedAtMostOnce ==
  \A s \in Posts : \A i, j \in DOMAIN logs[s] :
    logs[s][i].action = "RETRY" /\ logs[s][j].action = "RETRY" => i = j

\* Redis never runs ahead of the database: a submission in the queue has the
\* FAILED outcome of its initial evaluation logged, at every crash point.
QueuedOnlyAfterFailure ==
  \A s \in Posts :
    job[s] # "none" => \E i \in DOMAIN logs[s] : logs[s][i] = Log("INITIAL", "FAILED")

\* A POST whose evaluation failed has queued its retry by the time it throws,
\* unless the Redis call itself failed.
FailedPostIsQueued ==
  faults = 0 =>
    \A p \in Posts :
      /\ pc[p] = "threw"
      /\ \E i \in DOMAIN logs[p] : logs[p][i] = Log("INITIAL", "FAILED")
      => job[p] # "none"

\* The video of a job that was not started yet is on disk.
VideoKeptForRetry ==
  \A s \in VideoPosts :
    job[s] \in {"delayed", "waiting"} /\ stalls[s] = 0 => s \in files

\* The video of a job whose consumer ran to its end is gone, through crashes
\* and redeliveries; only a job that BullMQ gives up as stalled leaves it
\* behind, and a call that failed, the unlink itself for one.
VideoDeletedAfterRetry ==
  faults = 0 =>
    \A s \in VideoPosts :
      job[s] \in Q!Settled /\ stalls[s] <= MaxStalls => s \notin files

\* The automatic evaluations of a submission never overlap: its retry starts
\* after its POST has written the FAILED outcome and is about to throw.
NoAutomaticOverlap ==
  \A p \in Posts :
    sub[Worker] = p => pc[p] \in {"threw", "crashed"}

-----------------------------------------------------------------------------
(* Revisions                                                               *)

\* A revision row that says SUCCESS shows the verdict of its own request, and
\* the submission it belongs to has the matching REVISION / SUCCESS log.
RevisionRowMatchesLog ==
  \A r \in Revs :
    revStatus[r] = "SUCCESS" =>
      /\ revResult[r] = r
      /\ \E i \in DOMAIN logs[sub[r]] : logs[sub[r]][i] = Log("REVISION", "SUCCESS")

-----------------------------------------------------------------------------
(* Refinement                                                              *)

\* The service implements the ledger: every outcome comes from an evaluation
\* that opened before, with a mark that was written or was overlooked, and had
\* not concluded.
Ledger == INSTANCE EvaluationLedger WITH
  Submissions <- Posts,
  Evaluators <- Tasks,
  Nothing <- NoContent,
  state <- status,
  shown <- [s \in Posts |-> IF status[s] = "SUCCESS" /\ result[s] \in Tasks
                            THEN result[s] ELSE NoContent],
  open <- [s \in Posts |-> {t \in Tasks : Owns(t, s)}]

LedgerSpec == Ledger!Spec

-----------------------------------------------------------------------------
(* Liveness                                                                *)

\* Every POST request that is not lost in a crash is answered.
EveryPostAnswered ==
  \A p \in Posts : pc[p] = "checkDup" ~> pc[p] \in Over

\* A queued retry is eventually over, whatever crashes and calls fail.
EveryRetryEnds ==
  \A s \in Posts : job[s] = "delayed" ~> job[s] \in Q!Settled

\* Nothing has failed so far, and no verdict the score column rejects is held.
CalmSoFar == faults = 0 /\ crashes = 0 /\ \A t \in Tasks : verdict[t] # "unstorable"

\* As long as nothing fails a submission does not stay PENDING or EVALUATING,
\* whatever revisions and retries of it overlap or refuse each other.
EverySubmissionSettles ==
  []CalmSoFar =>
    \A s \in Posts :
      status[s] \in {"PENDING", "EVALUATING"} ~> status[s] \in {"SUCCESS", "FAILED"}

\* As long as no call fails and the process stays up, a revision row does not
\* stay EVALUATING, even if its evaluation throws or cannot be stored.
EveryRevisionSettles ==
  [](faults = 0 /\ crashes = 0) =>
    \A r \in Revs : revStatus[r] = "EVALUATING" ~> revStatus[r] \in {"SUCCESS", "FAILED"}
=============================================================================
