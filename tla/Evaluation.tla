----------------------------- MODULE Evaluation -----------------------------
(***************************************************************************)
(* SubmissionsService.evaluateSubmission, the procedure that the POST      *)
(* handler (INITIAL), the queue consumer (RETRY) and the revision handler  *)
(* (REVISION) all run, possibly at once on one submission.  Every await of *)
(* a database, OpenAI or Redis call ends a step:                           *)
(*                                                                         *)
(*   load -> markRead -> markCompare -> markSave -> evaluating             *)
(*     |                                              |    |               *)
(*     v                                              |    v               *)
(*   throw                                            |   save -> return   *)
(*                                                    v    v               *)
(*                                              saveFailed -> enqueue      *)
(*                                                              -> throw   *)
(*                                                                         *)
(* What "return" and "throw" lead to depends on the caller (Returned and   *)
(* Thrown); the callers are in EssayService.                               *)
(***************************************************************************)
EXTENDS EssayStore

CONSTANTS
  Verdicts,     \* what OpenAI calls may end in: a subset of VerdictKinds
  MaxFaults,    \* bound: failing database and Redis calls in a behaviour
  MaxCrashes,   \* bound: crashes of the process in a behaviour
  MaxStalls     \* BullMQ's maxStalledCount

\* What Evaluation.fromJson accepts: it only asks for a number, and the int
\* column score then rejects an "unstorable" one (7.5, say).
Answers == {"good", "unstorable"}

\* "zero" is a failed call, or an answer that fromJson rejects.
VerdictKinds == Answers \cup {"zero"}

ASSUME VerdictsAssumption == Verdicts \subseteq VerdictKinds
ASSUME BoundsAssumption ==
  MaxFaults \in Nat /\ MaxCrashes \in Nat /\ MaxStalls \in Nat

VARIABLES
  pc,         \* where each task is
  sub,        \* the submission each task works on
  snap,       \* the result columns of the entity a task has read
  columns,    \* the columns in which save() found the row to differ from it
  verdict,    \* how the task's OpenAI call ended
  upload,     \* how the task's media upload ended
  files,      \* the uploaded videos on disk, named after their requests
  job, stalls,
  faults, crashes

Q == INSTANCE RetryQueue WITH JobKeys <- Posts

localVars == <<sub, snap, columns, verdict, upload>>
queueVars == <<job, stalls>>
faultVars == <<faults, crashes>>
vars == <<storeVars, pc, localVars, files, job, stalls, faultVars>>

PostPcs == {"checkDup", "create", "enqueue"}
RevPcs == {"revCompare", "revMark", "revInsert", "revSave", "revFail"}
EvalPcs == {"load", "markRead", "markCompare", "markSave", "evaluating", "save", "saveFailed"}
WorkerPcs == {"unlinkOk", "unlinkErr", "ackOk", "ackErr"}
InFlight == PostPcs \cup RevPcs \cup EvalPcs \cup WorkerPcs
Over == {"returned", "threw", "crashed"}

EvaluationTypeOK ==
  /\ pc \in [Tasks -> InFlight \cup Over \cup {"idle"}]
  /\ sub \in [Tasks -> Posts \cup {NoSub}]
  /\ snap \in [Tasks -> Content]
  /\ columns \in [Tasks -> SUBSET Columns]
  /\ verdict \in [Tasks -> VerdictKinds \cup {"none"}]
  /\ upload \in [Tasks -> {"none", "SUCCESS", "FAILED"}]
  /\ files \subseteq Posts
  /\ Q!QueueTypeOK
  /\ faults \in 0 .. MaxFaults
  /\ crashes \in 0 .. MaxCrashes

NoLocals ==
  /\ sub = [t \in Tasks |-> NoSub]
  /\ snap = [t \in Tasks |-> NoContent]
  /\ columns = [t \in Tasks |-> {}]
  /\ verdict = [t \in Tasks |-> "none"]
  /\ upload = [t \in Tasks |-> "none"]

EvaluationInit ==
  /\ StoreInit
  /\ Q!QueueInit
  /\ pc = [t \in Tasks |-> "idle"]
  /\ NoLocals
  /\ files = {}
  /\ faults = 0 /\ crashes = 0

-----------------------------------------------------------------------------
Goto(t, from, to) == pc[t] = from /\ pc' = [pc EXCEPT ![t] = to]

ActionOf(t) == IF t \in Posts THEN "INITIAL"
               ELSE IF t \in Revs THEN "REVISION" ELSE "RETRY"

\* The consumer passes the path of the job on; the revision handler none.
HasVideo(t) == t \notin Revs /\ sub[t] \in VideoPosts

\* Variant: the revision is marked FAILED in a finally block.
Returned_Finally(t) == IF t \in Posts THEN "returned"
                       ELSE IF t \in Revs THEN "revFail" ELSE "unlinkOk"

Returned(t) == IF t \in Posts THEN "returned"
               ELSE IF t \in Revs THEN "revSave" ELSE "unlinkOk"

\* Variants: the revision handler does not catch; it takes the failed
\* evaluation for its result.
Thrown_Uncaught(t) == IF t = Worker THEN "unlinkErr" ELSE "threw"
Thrown_Swallowed(t) == IF t \in Posts THEN "threw"
                       ELSE IF t \in Revs THEN "revSave" ELSE "unlinkErr"

Thrown(t) == IF t \in Posts THEN "threw"
             ELSE IF t \in Revs THEN "revFail" ELSE "unlinkErr"

\* Variants: without the first exit; with the second for revisions too.
Admissible_NoRetryCheck(t) ==
  t \in Revs \/ status[sub[t]] \in {"PENDING", "FAILED"}
Admissible_StatusOnly(t) == status[sub[t]] \in {"PENDING", "FAILED"}

\* The two early exits of evaluateSubmission, on the row as just loaded.
Admissible(t) ==
  \/ t \in Revs
  \/ /\ ~HasLog(sub[t], "RETRY")
     /\ status[sub[t]] \in {"PENDING", "FAILED"}

\* Variant: the evaluation starts without markEvaluating.
Admit_Unmarked(t) ==
  /\ Goto(t, "load", "evaluating")
  /\ Admissible(t)
  /\ UNCHANGED <<storeVars, localVars, files, queueVars, faultVars>>

Admit(t) ==
  /\ Goto(t, "load", "markRead")
  /\ Admissible(t)
  /\ UNCHANGED <<storeVars, localVars, files, queueVars, faultVars>>

Refuse(t) ==
  /\ Goto(t, "load", Thrown(t))
  /\ ~Admissible(t)
  /\ UNCHANGED <<storeVars, localVars, files, queueVars, faultVars>>

\* The SELECT with which save() begins; the UPDATE is a step of its own.
Compare(t, from, to) ==
  /\ Goto(t, from, to)
  /\ columns' = [columns EXCEPT ![t] = Changed(sub[t], snap[t])]
  /\ UNCHANGED <<storeVars, sub, snap, verdict, upload, files, queueVars, faultVars>>

\* markEvaluating reads the row and saves the entity it read, in one
\* READ COMMITTED transaction: other tasks may commit between any two of its
\* statements, until the UPDATE locks the row.
MarkRead(t) ==
  /\ Goto(t, "markRead", "markCompare")
  /\ snap' = [snap EXCEPT ![t] = result[sub[t]]]
  /\ UNCHANGED <<storeVars, sub, columns, verdict, upload, files, queueVars, faultVars>>

MarkCompare(t) == Compare(t, "markCompare", "markSave")

MarkSave(t) ==
  /\ Goto(t, "markSave", "evaluating")
  /\ MarkEvaluating(sub[t], snap[t], columns[t])
  /\ snap' = [snap EXCEPT ![t] = NoContent]
  /\ columns' = [columns EXCEPT ![t] = {}]
  /\ UNCHANGED <<sub, verdict, upload, files, queueVars, faultVars>>

\* SubmissionMediaUploader.upload never throws; it can only succeed while
\* the video is on disk.
UploadOutcomes(t) == IF ~HasVideo(t) THEN {"none"}
                     ELSE IF sub[t] \in files THEN {"SUCCESS", "FAILED"}
                     ELSE {"FAILED"}

\* Promise.allSettled([upload, evaluate])
Evaluate(t) ==
  /\ \E v \in Verdicts :
       /\ Goto(t, "evaluating", IF v = "zero" THEN "saveFailed" ELSE "save")
       /\ verdict' = [verdict EXCEPT ![t] = v]
  /\ \E u \in UploadOutcomes(t) : upload' = [upload EXCEPT ![t] = u]
  /\ UNCHANGED <<storeVars, sub, snap, columns, files, queueVars, faultVars>>

\* The domain object is dropped with the call that created it.
DropOutcome(t) ==
  /\ verdict' = [verdict EXCEPT ![t] = "none"]
  /\ upload' = [upload EXCEPT ![t] = "none"]
  /\ UNCHANGED <<sub, snap, columns>>

Outcome(t) == IF verdict[t] = "zero" THEN EmptyContent ELSE t

Save(t) ==
  /\ verdict[t] = "good"
  /\ Goto(t, "save", Returned(t))
  /\ SaveSubmissionResult(sub[t], ActionOf(t), "SUCCESS", Outcome(t), upload[t])
  /\ DropOutcome(t)
  /\ UNCHANGED <<files, queueVars, faultVars>>

\* Variant: a failed media upload keeps the request out of the queue.
SaveFailed_MediaFirst(t) ==
  /\ verdict[t] # "unstorable"
  /\ Goto(t, "saveFailed",
          IF t \in Posts /\ upload[t] # "FAILED" THEN "enqueue" ELSE Thrown(t))
  /\ SaveSubmissionResult(sub[t], ActionOf(t), "FAILED", Outcome(t), upload[t])
  /\ DropOutcome(t)
  /\ UNCHANGED <<files, queueVars, faultVars>>

\* markAsFailed keeps an evaluation that was obtained and not stored.
SaveFailed(t) ==
  /\ verdict[t] # "unstorable"
  /\ Goto(t, "saveFailed", IF t \in Posts THEN "enqueue" ELSE Thrown(t))
  /\ SaveSubmissionResult(sub[t], ActionOf(t), "FAILED", Outcome(t), upload[t])
  /\ DropOutcome(t)
  /\ UNCHANGED <<files, queueVars, faultVars>>

\* Variant: the request removes its upload when it is over.
EnqueueRetry_CleansUp(p) ==
  /\ Goto(p, "enqueue", "threw")
  /\ Q!Enqueue(p)
  /\ files' = files \ {p}
  /\ UNCHANGED <<storeVars, localVars, faultVars>>

EnqueueRetry(p) ==
  /\ Goto(p, "enqueue", "threw")
  /\ Q!Enqueue(p)
  /\ UNCHANGED <<storeVars, localVars, files, faultVars>>

-----------------------------------------------------------------------------
(* Failing calls                                                           *)

\* Variants: the request is queued although FAILED was not saved; the FAILED
\* outcome is tried again until it is saved; the revision's result is saved
\* without await.
OnError_QueueAnyway(t) ==
  IF pc[t] = "save" THEN "saveFailed"
  ELSE IF pc[t] = "saveFailed" /\ t \in Posts THEN "enqueue"
  ELSE IF pc[t] = "revSave" THEN "revFail"
  ELSE IF pc[t] \in EvalPcs THEN Thrown(t)
  ELSE "threw"
OnError_Unawaited(t) ==
  IF pc[t] = "save" THEN "saveFailed"
  ELSE IF pc[t] = "revSave" THEN "returned"
  ELSE IF pc[t] \in EvalPcs THEN Thrown(t)
  ELSE "threw"
OnError_TryAgain(t) ==
  IF pc[t] \in {"save", "saveFailed"} THEN "saveFailed"
  ELSE IF pc[t] = "revSave" THEN "revFail"
  ELSE IF pc[t] \in EvalPcs THEN Thrown(t)
  ELSE "threw"

\* Where an exception of the call that ends step pc[t] takes the task: into
\* the catch block of evaluateSubmission or of revisionSubmission, or out.
OnError(t) ==
  IF pc[t] = "save" THEN "saveFailed"
  ELSE IF pc[t] = "revSave" THEN "revFail"
  ELSE IF pc[t] \in EvalPcs THEN Thrown(t)
  ELSE "threw"

\* The verdict cannot be written, by the first save or by the second.
RejectVerdict(t) ==
  /\ verdict[t] = "unstorable"
  /\ pc[t] \in {"save", "saveFailed"}
  /\ pc' = [pc EXCEPT ![t] = OnError(t)]
  /\ UNCHANGED <<storeVars, localVars, files, queueVars, faultVars>>

\* A database or Redis call fails and its transaction is rolled back.
CallFails(t) ==
  /\ faults < MaxFaults
  /\ pc[t] \in PostPcs \cup RevPcs \cup (EvalPcs \ {"evaluating"})
  /\ pc' = [pc EXCEPT ![t] = OnError(t)]
  /\ faults' = faults + 1
  /\ UNCHANGED <<storeVars, localVars, files, queueVars, crashes>>

EvaluationStep(t) ==
  \/ Admit(t) \/ Refuse(t)
  \/ MarkRead(t) \/ MarkCompare(t) \/ MarkSave(t)
  \/ Evaluate(t)
  \/ Save(t) \/ SaveFailed(t)
  \/ RejectVerdict(t)
=============================================================================
