---------------------------- MODULE EssayService ----------------------------
(***************************************************************************)
(* The essay service: POST /v1/submissions, POST /v1/revisions and the     *)
(* queue consumer run evaluateSubmission concurrently over one database    *)
(* and one retry queue, in a process that may crash.                       *)
(*                                                                         *)
(*   POST /v1/submissions:  idle -> checkDup -> create -> evaluation       *)
(*   POST /v1/revisions:    idle -> revCompare -> revMark -> revInsert     *)
(*                               -> evaluation -> revSave -> returned      *)
(*                                             -> revFail -> threw         *)
(*   consumer:              idle -> evaluation -> unlinkOk -> ackOk -> idle*)
(*                                             -> unlinkErr -> ackErr      *)
(***************************************************************************)
EXTENDS Evaluation

-----------------------------------------------------------------------------
(* POST /v1/submissions                                                    *)

\* multer has stored the video before the handler runs.
Receive(p) ==
  /\ Goto(p, "idle", "checkDup")
  /\ files' = IF p \in VideoPosts THEN files \cup {p} ELSE files
  /\ UNCHANGED <<storeVars, localVars, queueVars, faultVars>>

\* The first of the two isDuplicateSubmission calls is ignored by the code.
CheckDuplicate(p) ==
  /\ Goto(p, "checkDup", IF IsDuplicate(p) THEN "threw" ELSE "create")
  /\ UNCHANGED <<storeVars, localVars, files, queueVars, faultVars>>

\* Variant: the retry is queued when the submission is created.
Create_Queues(p) ==
  /\ Goto(p, "create", "load")
  /\ CreatePending(p)
  /\ sub' = [sub EXCEPT ![p] = p]
  /\ Q!Enqueue(p)
  /\ UNCHANGED <<snap, columns, verdict, upload, files, faultVars>>

Create(p) ==
  /\ Goto(p, "create", "load")
  /\ CreatePending(p)
  /\ sub' = [sub EXCEPT ![p] = p]
  /\ UNCHANGED <<snap, columns, verdict, upload, files, queueVars, faultVars>>

CreateConflicts(p) ==
  /\ ~UniqueIndexAllows(p)
  /\ Goto(p, "create", "threw")
  /\ UNCHANGED <<storeVars, localVars, files, queueVars, faultVars>>

PostStep(p) ==
  \/ CheckDuplicate(p) \/ Create(p) \/ CreateConflicts(p)
  \/ EvaluationStep(p) \/ EnqueueRetry(p)

-----------------------------------------------------------------------------
(* POST /v1/revisions                                                      *)

RevisionRead(r, s) ==
  /\ Exists(s)
  /\ status[s] # "EVALUATING"
  /\ Goto(r, "idle", "revCompare")
  /\ sub' = [sub EXCEPT ![r] = s]
  /\ snap' = [snap EXCEPT ![r] = result[s]]
  /\ UNCHANGED <<storeVars, columns, verdict, upload, files, queueVars, faultVars>>

\* SubmissionNotFoundException or AlreadyEvaluatingException
RevisionRefused(r, s) ==
  /\ status[s] \in {"none", "EVALUATING"}
  /\ Goto(r, "idle", "threw")
  /\ UNCHANGED <<storeVars, localVars, files, queueVars, faultVars>>

\* markRevision saves the entity that was read outside its transaction.
RevisionCompare(r) == Compare(r, "revCompare", "revMark")

RevisionMark(r) ==
  /\ Goto(r, "revMark", "revInsert")
  /\ MarkRevision(sub[r], snap[r], columns[r])
  /\ columns' = [columns EXCEPT ![r] = {}]
  /\ UNCHANGED <<sub, snap, verdict, upload, files, queueVars, faultVars>>

RevisionInsert(r) ==
  /\ Goto(r, "revInsert", "load")
  /\ InsertRevision(r, snap[r])
  /\ UNCHANGED <<localVars, files, queueVars, faultVars>>

RevisionSave(r) ==
  /\ Goto(r, "revSave", "returned")
  /\ SaveRevisionResult(r, r)
  /\ UNCHANGED <<localVars, files, queueVars, faultVars>>

RevisionFail(r) ==
  /\ Goto(r, "revFail", "threw")
  /\ FailRevision(r)
  /\ UNCHANGED <<localVars, files, queueVars, faultVars>>

RevStep(r) ==
  \/ RevisionCompare(r) \/ RevisionMark(r) \/ RevisionInsert(r)
  \/ EvaluationStep(r)
  \/ RevisionSave(r) \/ RevisionFail(r)

-----------------------------------------------------------------------------
(* The consumer: one job at a time                                         *)

TakeJob(s) ==
  /\ Goto(Worker, "idle", "load")
  /\ Q!Take(s)
  /\ sub' = [sub EXCEPT ![Worker] = s]
  /\ UNCHANGED <<storeVars, snap, columns, verdict, upload, files, faultVars>>

\* Variant: the video is removed after a successful retry only.
Unlink_OnSuccess ==
  /\ \/ Goto(Worker, "unlinkOk", "ackOk") /\ files' = files \ {sub[Worker]}
     \/ Goto(Worker, "unlinkErr", "ackErr") /\ UNCHANGED files
  /\ UNCHANGED <<storeVars, localVars, queueVars, faultVars>>

\* The finally block of the consumer.
Unlink ==
  /\ \/ Goto(Worker, "unlinkOk", "ackOk")
     \/ Goto(Worker, "unlinkErr", "ackErr")
  /\ files' = files \ {sub[Worker]}
  /\ UNCHANGED <<storeVars, localVars, queueVars, faultVars>>

\* A failing unlink is only logged: the job is settled as it would have been,
\* and the video stays.
UnlinkFails ==
  /\ faults < MaxFaults
  /\ sub[Worker] \in files
  /\ \/ Goto(Worker, "unlinkOk", "ackOk")
     \/ Goto(Worker, "unlinkErr", "ackErr")
  /\ faults' = faults + 1
  /\ UNCHANGED <<storeVars, localVars, files, queueVars, crashes>>

\* Variant: a throwing consumer never settles its job.
Acknowledge_OkOnly ==
  /\ Goto(Worker, "ackOk", "idle")
  /\ Q!Settle(sub[Worker], "completed")
  /\ sub' = [sub EXCEPT ![Worker] = NoSub]
  /\ verdict' = [verdict EXCEPT ![Worker] = "none"]
  /\ upload' = [upload EXCEPT ![Worker] = "none"]
  /\ snap' = [snap EXCEPT ![Worker] = NoContent]
  /\ columns' = [columns EXCEPT ![Worker] = {}]
  /\ UNCHANGED <<storeVars, files, faultVars>>

Acknowledge ==
  /\ \/ Goto(Worker, "ackOk", "idle") /\ Q!Settle(sub[Worker], "completed")
     \/ Goto(Worker, "ackErr", "idle") /\ Q!Settle(sub[Worker], "failed")
  /\ sub' = [sub EXCEPT ![Worker] = NoSub]
  /\ verdict' = [verdict EXCEPT ![Worker] = "none"]
  /\ upload' = [upload EXCEPT ![Worker] = "none"]
  /\ snap' = [snap EXCEPT ![Worker] = NoContent]
  /\ columns' = [columns EXCEPT ![Worker] = {}]
  /\ UNCHANGED <<storeVars, files, faultVars>>

WorkerStep == EvaluationStep(Worker) \/ Unlink \/ Acknowledge

-----------------------------------------------------------------------------
(* The queue's timers, and the end of the process                          *)

DelayOver(s) ==
  /\ Q!Promote(s)
  /\ UNCHANGED <<storeVars, pc, localVars, files, faultVars>>

\* The consumer renews the lock of the job it is running.
Stalled(s) ==
  /\ sub[Worker] # s
  /\ Q!RecoverStalled(s)
  /\ UNCHANGED <<storeVars, pc, localVars, files, faultVars>>

\* Every request in flight and the consumer's call are lost; the database,
\* the queue and the files are not.
Crash ==
  /\ crashes < MaxCrashes
  /\ \E t \in Tasks : pc[t] \in InFlight
  /\ pc' = [t \in Tasks |-> IF t = Worker THEN "idle"
                            ELSE IF pc[t] \in InFlight THEN "crashed" ELSE pc[t]]
  /\ sub' = [sub EXCEPT ![Worker] = NoSub]
  /\ snap' = [t \in Tasks |-> NoContent]
  /\ columns' = [t \in Tasks |-> {}]
  /\ verdict' = [t \in Tasks |-> "none"]
  /\ upload' = [t \in Tasks |-> "none"]
  /\ crashes' = crashes + 1
  /\ UNCHANGED <<storeVars, files, queueVars, faults>>

\* Every request has been answered and no retry is left: the service waits.
Quiescent ==
  /\ \A t \in Tasks \ {Worker} : pc[t] \in Over
  /\ \A s \in Posts : job[s] \in {"none", "completed", "failed"}
  /\ UNCHANGED vars

-----------------------------------------------------------------------------
Init == EvaluationInit

Next ==
  \/ \E p \in Posts : Receive(p) \/ PostStep(p)
  \/ \E r \in Revs : RevStep(r)
  \/ \E r \in Revs, s \in Posts : RevisionRead(r, s) \/ RevisionRefused(r, s)
  \/ \E s \in Posts : TakeJob(s) \/ DelayOver(s) \/ Stalled(s)
  \/ WorkerStep
  \/ UnlinkFails
  \/ \E t \in Tasks : CallFails(t)
  \/ Crash
  \/ Quiescent

Spec == Init /\ [][Next]_vars

\* Every call of a handler returns or throws, the consumer takes waiting
\* jobs, and the queue's timers fire.  Clients need not send anything, and
\* nothing has to fail.
Fairness ==
  /\ \A p \in Posts : WF_vars(PostStep(p))
  /\ \A r \in Revs : WF_vars(RevStep(r))
  /\ WF_vars(WorkerStep)
  /\ WF_vars(\E s \in Posts : TakeJob(s))
  /\ \A s \in Posts : WF_vars(DelayOver(s)) /\ WF_vars(Stalled(s))

FairSpec == Spec /\ Fairness
=============================================================================
