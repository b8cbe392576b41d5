----------------------------- MODULE EssayProofs -----------------------------
(***************************************************************************)
(* Theorems about EssayService, for every set of requests, every number of *)
(* faults and crashes, and every limit of stalls: the rows and their logs, *)
(* the retry queue, and the uploaded videos, which outlive the request     *)
(* until the consumer is done with them.                                   *)
(***************************************************************************)
EXTENDS EssayProperties, TLAPS

USE DEF storeVars, localVars, queueVars, faultVars

Pcs == InFlight \cup Over \cup {"idle"}
USE DEF Pcs, InFlight, PostPcs, RevPcs, EvalPcs, WorkerPcs, Over

-----------------------------------------------------------------------------
(* Types                                                                   *)

\* Each transaction on a submission row keeps the tables well typed.
LEMMA SaveEvaluatingTyped ==
  ASSUME StoreTypeOK, NEW s \in Posts, NEW content \in Content, NEW cols,
         NEW action \in Actions, SaveEvaluating(s, content, cols, action)
  PROVE  StoreTypeOK'
  <1>1. Log(action, "EVALUATING") \in LogRow
    BY DEF Log, LogRow, Statuses
  <1>2. logs' \in [Posts -> Seq(LogRow)]
    BY <1>1 DEF SaveEvaluating, StoreTypeOK
  <1>3. status' \in [Posts -> Statuses \cup {"none"}] /\ result' \in [Posts -> Content]
    BY DEF SaveEvaluating, StoreTypeOK, Statuses
  <1> QED BY <1>2, <1>3 DEF SaveEvaluating, StoreTypeOK

LEMMA SaveSubmissionResultTyped ==
  ASSUME StoreTypeOK, NEW s \in Posts, NEW action \in Actions,
         NEW st \in {"SUCCESS", "FAILED"}, NEW content \in Content,
         NEW media \in {"none", "SUCCESS", "FAILED"},
         SaveSubmissionResult(s, action, st, content, media)
  PROVE  StoreTypeOK'
  <1>1. Log(action, st) \in LogRow
    BY DEF Log, LogRow, Statuses
  <1>2. logs' \in [Posts -> Seq(LogRow)]
    BY <1>1 DEF SaveSubmissionResult, StoreTypeOK
  <1>3. mediaLogs' \in [Posts -> Seq({"SUCCESS", "FAILED"})]
    BY DEF SaveSubmissionResult, StoreTypeOK
  <1> QED BY <1>2, <1>3 DEF SaveSubmissionResult, StoreTypeOK, Statuses

\* The invariant the type theorem is proved with.
Typed == TypeOK /\ Placed

\* The evaluation steps are the same for the three callers.
LEMMA EvaluationStepTyped ==
  ASSUME Typed, NEW t \in Tasks, EvaluationStep(t)
  PROVE  Typed'
  <1> USE TasksDisjoint, ContentAssumption, VerdictsAssumption, BoundsAssumption
      DEF Tasks
  <1>0. pc[t] \in EvalPcs => sub[t] \in Posts
    BY DEF Typed, TypeOK, EvaluationTypeOK, Placed
  <1>t. /\ ActionOf(t) \in Actions /\ Outcome(t) \in Content
        /\ upload[t] \in {"none", "SUCCESS", "FAILED"}
    BY DEF ActionOf, Actions, Outcome, Content, Typed, TypeOK, EvaluationTypeOK
  <1>1. CASE Admit(t)
    BY <1>1 DEF Admit, Goto, Typed, TypeOK, StoreTypeOK, EvaluationTypeOK, Placed, Exists,
                Q!QueueTypeOK, Q!Settled
  <1>2. CASE Refuse(t)
    BY <1>2 DEF Refuse, Thrown, Goto, Typed, TypeOK, StoreTypeOK, EvaluationTypeOK, Placed, Exists,
                Q!QueueTypeOK, Q!Settled
  <1>3. CASE MarkRead(t)
    BY <1>3, <1>0 DEF MarkRead, Goto, Typed, TypeOK, StoreTypeOK, EvaluationTypeOK, Placed, Exists,
                      Q!QueueTypeOK, Q!Settled
  <1>9. CASE MarkCompare(t)
    BY <1>9 DEF MarkCompare, Compare, Changed, Columns, Goto, Typed, TypeOK, StoreTypeOK,
                EvaluationTypeOK, Placed, Exists, Q!QueueTypeOK, Q!Settled
  <1>4. CASE MarkSave(t)
    <2>1. StoreTypeOK'
      BY <1>4, <1>0, SaveEvaluatingTyped
         DEF MarkSave, MarkEvaluating, Goto, Typed, TypeOK, EvaluationTypeOK, Actions
    <2> QED BY <2>1, <1>4, <1>0, SMTT(30)
       DEF MarkSave, MarkEvaluating, SaveEvaluating, Goto, Typed, TypeOK, StoreTypeOK,
           EvaluationTypeOK, Placed, Exists, Q!QueueTypeOK, Q!Settled, Content
  <1>5. CASE Evaluate(t)
    BY <1>5 DEF Evaluate, UploadOutcomes, Goto, Typed, TypeOK, StoreTypeOK, EvaluationTypeOK,
                Placed, Exists, Q!QueueTypeOK, Q!Settled
  <1>6. CASE Save(t)
    <2>1. StoreTypeOK'
      BY <1>6, <1>0, <1>t, SaveSubmissionResultTyped DEF Save, Goto, Typed, TypeOK
    <2> QED BY <2>1, <1>6, <1>0, SMTT(30)
       DEF Save, SaveSubmissionResult, DropOutcome, Returned, Goto, Typed, TypeOK, StoreTypeOK,
           EvaluationTypeOK, Placed, Exists, Q!QueueTypeOK, Q!Settled
  <1>7. CASE SaveFailed(t)
    <2>1. StoreTypeOK'
      BY <1>7, <1>0, <1>t, SaveSubmissionResultTyped DEF SaveFailed, Goto, Typed, TypeOK
    <2> QED BY <2>1, <1>7, <1>0, SMTT(30)
       DEF SaveFailed, SaveSubmissionResult, DropOutcome, Thrown, Goto, Typed, TypeOK, StoreTypeOK,
           EvaluationTypeOK, Placed, Exists, Q!QueueTypeOK, Q!Settled
  <1>8. CASE RejectVerdict(t)
    BY <1>8 DEF RejectVerdict, OnError, Thrown, Typed, TypeOK, StoreTypeOK, EvaluationTypeOK,
                Placed, Exists, Q!QueueTypeOK, Q!Settled
  <1> QED BY <1>1, <1>2, <1>3, <1>4, <1>5, <1>6, <1>7, <1>8, <1>9 DEF EvaluationStep

\* Failing calls, the queue's timers and a crash end no task out of place.
LEMMA EnvironmentTyped ==
  ASSUME Typed,
         (\E t \in Tasks : CallFails(t)) \/ Crash \/ Quiescent
           \/ (\E s \in Posts : TakeJob(s) \/ DelayOver(s) \/ Stalled(s))
  PROVE  Typed'
  <1> USE TasksDisjoint, ContentAssumption, BoundsAssumption DEF Tasks
  <1> USE DEF Typed, TypeOK, StoreTypeOK, EvaluationTypeOK, Placed, Exists, Q!QueueTypeOK,
              Q!Settled, Q!JobStates
  <1>1. ASSUME NEW t \in Tasks, CallFails(t) PROVE Typed'
    BY <1>1 DEF CallFails, OnError, Thrown
  <1>2. CASE Crash
    BY <1>2 DEF Crash, Content
  <1>3. CASE Quiescent
    BY <1>3 DEF Quiescent, vars
  <1>4. ASSUME NEW s \in Posts, TakeJob(s) PROVE Typed'
    BY <1>4 DEF TakeJob, Goto, Q!Take
  <1>5. ASSUME NEW s \in Posts, DelayOver(s) PROVE Typed'
    BY <1>5, SMTT(30) DEF DelayOver, Q!Promote
  <1>6. ASSUME NEW s \in Posts, Stalled(s) PROVE Typed'
    <2>1. stalls[s] \in 0 .. MaxStalls /\ job[s] = "active"
      <3>1. job[s] = "active"
        BY <1>6 DEF Stalled, Q!RecoverStalled
      <3>2. stalls[s] \in 0 .. MaxStalls + 1
        OBVIOUS
      <3>3. stalls[s] <= MaxStalls
        BY <3>1
      <3> QED BY <3>1, <3>2, <3>3
    <2>2. /\ stalls' = [stalls EXCEPT ![s] = stalls[s] + 1]
          /\ job' = [job EXCEPT ![s] = IF stalls[s] < MaxStalls THEN "waiting" ELSE "failed"]
      BY <1>6 DEF Stalled, Q!RecoverStalled
    <2>3. stalls' \in [Posts -> 0 .. MaxStalls + 1] /\ job' \in [Posts -> Q!JobStates]
      BY <2>1, <2>2, SMTT(30)
    <2>4. \A k \in Posts : job'[k] \notin Q!Settled => stalls'[k] <= MaxStalls
      BY <2>1, <2>2
    <2>5. \A k \in Posts : job'[k] # "none" => job[k] # "none"
      BY <2>1, <2>2
    <2> QED BY <1>6, <2>3, <2>4, <2>5 DEF Stalled
  <1> QED BY <1>1, <1>2, <1>3, <1>4, <1>5, <1>6

\* The steps of a POST request outside evaluateSubmission.
LEMMA PostStepTyped ==
  ASSUME Typed, NEW p \in Posts,
         Receive(p) \/ CheckDuplicate(p) \/ Create(p) \/ CreateConflicts(p) \/ EnqueueRetry(p)
  PROVE  Typed'
  <1> USE TasksDisjoint, SlotsAssumption, ContentAssumption DEF Tasks
  <1> USE DEF Typed, TypeOK, StoreTypeOK, EvaluationTypeOK, Placed, Exists, Q!QueueTypeOK,
              Q!Settled, Q!JobStates, Goto
  <1>1. CASE Receive(p)
    BY <1>1 DEF Receive
  <1>2. CASE CheckDuplicate(p)
    BY <1>2 DEF CheckDuplicate
  <1>3. CASE Create(p)
    <2>1. Log("INITIAL", "PENDING") \in LogRow
      BY DEF Log, LogRow, Actions, Statuses
    <2>2. logs' \in [Posts -> Seq(LogRow)]
      BY <1>3, <2>1 DEF Create, CreatePending
    <2> QED BY <1>3, <2>2 DEF Create, CreatePending, Statuses
  <1>4. CASE CreateConflicts(p)
    BY <1>4 DEF CreateConflicts
  <1>5. CASE EnqueueRetry(p)
    BY <1>5 DEF EnqueueRetry, Q!Enqueue
  <1> QED BY <1>1, <1>2, <1>3, <1>4, <1>5

\* The steps of a revision request outside evaluateSubmission.
LEMMA RevStepTyped ==
  ASSUME Typed, NEW r \in Revs,
         \/ RevisionCompare(r) \/ RevisionMark(r) \/ RevisionInsert(r)
         \/ RevisionSave(r) \/ RevisionFail(r)
         \/ \E s \in Posts : RevisionRead(r, s) \/ RevisionRefused(r, s)
  PROVE  Typed'
  <1> USE TasksDisjoint, ContentAssumption DEF Tasks
  <1> USE DEF Typed, TypeOK, StoreTypeOK, EvaluationTypeOK, Placed, Exists, Q!QueueTypeOK,
              Q!Settled, Goto
  <1>1. CASE RevisionMark(r)
    <2>1. sub[r] \in Posts
      BY <1>1 DEF RevisionMark
    <2>2. StoreTypeOK'
      BY <1>1, <2>1, SaveEvaluatingTyped DEF RevisionMark, MarkRevision, Actions
    <2> QED BY <1>1, <2>1, <2>2 DEF RevisionMark, MarkRevision, SaveEvaluating, Columns
  <1>7. CASE RevisionCompare(r)
    BY <1>7 DEF RevisionCompare, Compare, Changed, Columns
  <1>2. CASE RevisionInsert(r)
    BY <1>2 DEF RevisionInsert, InsertRevision
  <1>3. CASE RevisionSave(r)
    BY <1>3 DEF RevisionSave, SaveRevisionResult, Content
  <1>4. CASE RevisionFail(r)
    BY <1>4 DEF RevisionFail, FailRevision
  <1>5. ASSUME NEW s \in Posts, RevisionRead(r, s) PROVE Typed'
    BY <1>5 DEF RevisionRead
  <1>6. ASSUME NEW s \in Posts, RevisionRefused(r, s) PROVE Typed'
    BY <1>6 DEF RevisionRefused
  <1> QED BY <1>1, <1>2, <1>3, <1>4, <1>5, <1>6, <1>7

\* The consumer's steps after evaluateSubmission.
LEMMA WorkerStepTyped ==
  ASSUME Typed, Unlink \/ UnlinkFails \/ Acknowledge
  PROVE  Typed'
  <1> USE TasksDisjoint, ContentAssumption DEF Tasks
  <1> USE DEF Typed, TypeOK, StoreTypeOK, EvaluationTypeOK, Placed, Exists, Q!QueueTypeOK,
              Q!Settled, Q!JobStates, Goto
  <1>1. CASE Unlink \/ UnlinkFails
    BY <1>1, BoundsAssumption DEF Unlink, UnlinkFails
  <1>2. CASE Acknowledge
    <2>1. sub[Worker] \in Posts /\ pc' = [pc EXCEPT ![Worker] = "idle"]
      BY <1>2 DEF Acknowledge
    <2>2. PICK outcome \in {"completed", "failed"} : Q!Settle(sub[Worker], outcome)
      BY <1>2 DEF Acknowledge
    <2>3. Q!QueueTypeOK'
      BY <2>1, <2>2 DEF Q!Settle
    <2>4. StoreTypeOK' /\ EvaluationTypeOK'
      BY <1>2, <2>1, <2>3 DEF Acknowledge, Content
    <2> QED BY <1>2, <2>1, <2>2, <2>4 DEF Acknowledge, Q!Settle
  <1> QED BY <1>1, <1>2

LEMMA NextTyped == Typed /\ [Next]_vars => Typed'
  <1> SUFFICES ASSUME Typed, [Next]_vars PROVE Typed'
    OBVIOUS
  <1>1. CASE Next
    BY <1>1, EvaluationStepTyped, EnvironmentTyped, PostStepTyped, RevStepTyped, WorkerStepTyped
       DEF Next, PostStep, RevStep, WorkerStep, Tasks
  <1>2. CASE UNCHANGED vars
    BY <1>2 DEF vars, Typed, TypeOK, StoreTypeOK, EvaluationTypeOK, Placed, Exists, Q!QueueTypeOK,
                Q!Settled
  <1> QED BY <1>1, <1>2

\* Every variable keeps its type, and every task its place, through all
\* interleavings, failing calls and crashes.
THEOREM TypeCorrect == Spec => [](TypeOK /\ Placed)
  <1>1. Init => Typed
    BY TasksDisjoint, ContentAssumption, BoundsAssumption
       DEF Init, EvaluationInit, StoreInit, NoLocals, Q!QueueInit, Typed, TypeOK, StoreTypeOK,
           EvaluationTypeOK, Placed, Exists, Q!QueueTypeOK, Q!Settled, Q!JobStates, Tasks, Content
  <1> QED BY <1>1, NextTyped, PTL DEF Spec, Typed

-----------------------------------------------------------------------------
(* What a step does to one submission                                      *)

\* A step leaves the row and its logs alone, or writes a status together
\* with the log of it, or logs a mark and leaves the status alone; a RETRY is
\* logged by the consumer's last save only.
Logged(s) ==
  \/ status'[s] = status[s] /\ logs'[s] = logs[s]
  \/ \E e \in LogRow :
       /\ logs'[s] = Append(logs[s], e)
       /\ \/ status'[s] = e.status
          \/ status'[s] = status[s] /\ e.status = "EVALUATING"
       /\ e.action = "RETRY" => /\ sub[Worker] = s
                               /\ pc[Worker] \in {"save", "saveFailed"}
                               /\ pc'[Worker] \in {"unlinkOk", "unlinkErr"}

LEMMA EvaluationLogs ==
  ASSUME Typed, NEW t \in Tasks, EvaluationStep(t), NEW s \in Posts
  PROVE  Logged(s)
  <1> USE TasksDisjoint DEF Tasks
  <1>1. status \in [Posts -> Statuses \cup {"none"}] /\ logs \in [Posts -> Seq(LogRow)]
        /\ pc \in [Tasks -> Pcs]
    BY DEF Typed, TypeOK, StoreTypeOK, EvaluationTypeOK
  <1>2. CASE UNCHANGED storeVars
    BY <1>2 DEF Logged
  <1>3. CASE MarkSave(t)
    <2>1. Log("INITIAL", "EVALUATING") \in LogRow
      BY DEF Log, LogRow, Actions, Statuses
    <2> QED BY <1>1, <1>3, <2>1 DEF MarkSave, MarkEvaluating, SaveEvaluating, Logged, Log
  <1>4. CASE Save(t) \/ SaveFailed(t)
    <2>1. PICK st \in {"SUCCESS", "FAILED"} :
            SaveSubmissionResult(sub[t], ActionOf(t), st, Outcome(t), upload[t])
      BY <1>4 DEF Save, SaveFailed
    <2>2. Log(ActionOf(t), st) \in LogRow
      BY DEF Log, LogRow, ActionOf, Actions, Statuses
    <2>3. ActionOf(t) = "RETRY" => /\ pc[Worker] \in {"save", "saveFailed"}
                                  /\ pc'[Worker] \in {"unlinkOk", "unlinkErr"}
                                  /\ t = Worker
      BY <1>1, <1>4 DEF ActionOf, Save, SaveFailed, Goto, Returned, Thrown
    <2>4. CASE s = sub[t]
      BY <1>1, <2>1, <2>2, <2>3, <2>4 DEF SaveSubmissionResult, Logged, Log
    <2>5. CASE s # sub[t]
      BY <1>1, <2>1, <2>5 DEF SaveSubmissionResult, Logged
    <2> QED BY <2>4, <2>5
  <1> QED BY <1>2, <1>3, <1>4
          DEF EvaluationStep, Admit, Refuse, MarkRead, MarkCompare, Compare, Evaluate, RejectVerdict

LEMMA StepLogs ==
  ASSUME Typed, [Next]_vars, NEW s \in Posts
  PROVE  Logged(s)
  <1>1. status \in [Posts -> Statuses \cup {"none"}] /\ logs \in [Posts -> Seq(LogRow)]
    BY DEF Typed, TypeOK, StoreTypeOK
  <1>2. CASE UNCHANGED <<status, logs>>
    BY <1>2 DEF Logged
  <1>3. ASSUME NEW p \in Posts, Create(p) PROVE Logged(s)
    <2>1. Log("INITIAL", "PENDING") \in LogRow
      BY DEF Log, LogRow, Actions, Statuses
    <2> QED BY <1>1, <1>3, <2>1 DEF Create, CreatePending, Logged, Log
  <1>4. ASSUME NEW r \in Revs, RevisionMark(r) PROVE Logged(s)
    <2>1. Log("REVISION", "EVALUATING") \in LogRow
      BY DEF Log, LogRow, Actions, Statuses
    <2> QED BY <1>1, <1>4, <2>1 DEF RevisionMark, MarkRevision, SaveEvaluating, Logged, Log
  <1>5. ASSUME NEW t \in Tasks, EvaluationStep(t) PROVE Logged(s)
    BY <1>5, EvaluationLogs
  <1> QED
    BY <1>2, <1>3, <1>4, <1>5
    DEF Next, vars, Tasks, PostStep, RevStep, WorkerStep, Receive, CheckDuplicate, CreateConflicts,
        EnqueueRetry, RevisionRead, RevisionRefused, RevisionCompare, Compare, RevisionInsert,
        InsertRevision, RevisionSave, SaveRevisionResult, RevisionFail, FailRevision, TakeJob,
        DelayOver, Stalled, Unlink, UnlinkFails, Acknowledge, CallFails, Crash, Quiescent

-----------------------------------------------------------------------------
(* The log agrees with the row                                             *)

\* A mark that is logged after an outcome leaves the outcome the last one.
LEMMA MarkKeepsOutcome ==
  ASSUME NEW s \in Posts, logs[s] \in Seq(LogRow), NEW l, LastOutcome(s, l),
         NEW e \in LogRow, e.status = "EVALUATING", logs'[s] = Append(logs[s], e)
  PROVE  LastOutcome(s, l)'
  <1>1. PICK i \in DOMAIN logs[s] :
          /\ logs[s][i] = l /\ l.status # "EVALUATING"
          /\ \A j \in DOMAIN logs[s] : j > i => logs[s][j].status = "EVALUATING"
    BY DEF LastOutcome
  <1>2. i \in DOMAIN logs'[s] /\ logs'[s][i] = l
    BY <1>1
  <1>3. ASSUME NEW j \in DOMAIN logs'[s], j > i PROVE logs'[s][j].status = "EVALUATING"
    BY <1>1, <1>3
  <1> QED BY <1>1, <1>2, <1>3 DEF LastOutcome

\* Any other log that is appended is the last outcome.
LEMMA OutcomeIsLast ==
  ASSUME NEW s \in Posts, logs[s] \in Seq(LogRow),
         NEW e \in LogRow, e.status # "EVALUATING", logs'[s] = Append(logs[s], e)
  PROVE  LastOutcome(s, e)'
  <1>1. /\ Len(logs[s]) + 1 \in DOMAIN logs'[s]
        /\ logs'[s][Len(logs[s]) + 1] = e
        /\ \A j \in DOMAIN logs'[s] : ~(j > Len(logs[s]) + 1)
    OBVIOUS
  <1> QED BY <1>1 DEF LastOutcome

\* A submission that is not EVALUATING has the status of its newest log other
\* than a mark, whichever of the three callers wrote it and whatever a mark
\* that overlooked it logged afterwards (submissions.service.ts:215-287).
THEOREM StatusFollowsOutcomes == Spec => []StatusIsLastOutcome
  <1>1. Init => StatusIsLastOutcome
    BY DEF Init, EvaluationInit, StoreInit, StatusIsLastOutcome, Exists
  <1>2. Typed /\ StatusIsLastOutcome /\ [Next]_vars => StatusIsLastOutcome'
    <2> SUFFICES ASSUME Typed, StatusIsLastOutcome, [Next]_vars,
                        NEW s \in Posts, Exists(s)', status'[s] # "EVALUATING"
                 PROVE  \E action \in Actions : LastOutcome(s, Log(action, status[s]))'
      BY DEF StatusIsLastOutcome
    <2>1. logs[s] \in Seq(LogRow)
      BY DEF Typed, TypeOK, StoreTypeOK
    <2>2. ASSUME status'[s] = status[s]
          PROVE  \E action \in Actions : LastOutcome(s, Log(action, status[s]))
      BY <2>2 DEF StatusIsLastOutcome, Exists
    <2>3. CASE status'[s] = status[s] /\ logs'[s] = logs[s]
      <3>1. \A l : LastOutcome(s, l) => LastOutcome(s, l)'
        BY <2>3 DEF LastOutcome
      <3>2. PICK action \in Actions : LastOutcome(s, Log(action, status[s]))
        BY <2>2, <2>3
      <3>3. LastOutcome(s, Log(action, status[s]))'
        BY <2>3, <3>2 DEF LastOutcome, Log
      <3> QED BY <3>3
    <2>4. ASSUME NEW e \in LogRow, logs'[s] = Append(logs[s], e), e.status = "EVALUATING",
                 status'[s] = status[s]
          PROVE  \E action \in Actions : LastOutcome(s, Log(action, status[s]))'
      <3>1. PICK action \in Actions, st \in Statuses \cup {"none"} :
              st = status'[s] /\ LastOutcome(s, Log(action, st))
        BY <2>2, <2>4 DEF Typed, TypeOK, StoreTypeOK
      <3>2. LastOutcome(s, Log(action, st))'
        BY <2>1, <2>4, <3>1, MarkKeepsOutcome
      <3> QED BY <3>1, <3>2 DEF Log
    <2>5. ASSUME NEW e \in LogRow, logs'[s] = Append(logs[s], e), status'[s] = e.status
          PROVE  \E action \in Actions : LastOutcome(s, Log(action, status[s]))'
      <3>1. LastOutcome(s, e)'
        BY <2>1, <2>5, OutcomeIsLast
      <3>2. e = Log(e.action, status'[s]) /\ e.action \in Actions
        BY <2>5 DEF Log, LogRow
      <3> QED BY <3>1, <3>2
    <2> QED BY <2>3, <2>4, <2>5, StepLogs DEF Logged
  <1> QED BY <1>1, <1>2, TypeCorrect, PTL DEF Spec, Typed

-----------------------------------------------------------------------------
(* One submission per component                                            *)

\* Only the INSERT of a POST request brings a submission into existence.
LEMMA OnlyCreateInserts ==
  ASSUME Typed, [Next]_vars, NEW s \in Posts, Exists(s)', ~Exists(s)
  PROVE  Create(s)
  <1> USE TasksDisjoint DEF Tasks, Exists
  <1>1. status \in [Posts -> Statuses \cup {"none"}]
    BY DEF Typed, TypeOK, StoreTypeOK
  <1>2. status'[s] # status[s]
    OBVIOUS
  <1>3. ASSUME NEW t \in Tasks, EvaluationStep(t) PROVE FALSE
    <2>1. pc[t] \in EvalPcs => sub[t] \in Posts /\ status[sub[t]] # "none"
      BY DEF Typed, TypeOK, EvaluationTypeOK, Placed
    <2> QED BY <1>1, <1>2, <1>3, <2>1
            DEF EvaluationStep, Admit, Refuse, MarkRead, MarkCompare, Compare, MarkSave,
                MarkEvaluating, SaveEvaluating, Evaluate, Save, SaveFailed, SaveSubmissionResult,
                RejectVerdict, Goto
  <1>4. ASSUME NEW r \in Revs, RevisionMark(r) PROVE FALSE
    <2>1. sub[r] \in Posts /\ status[sub[r]] # "none"
      BY <1>4 DEF Typed, TypeOK, EvaluationTypeOK, Placed, RevisionMark, Goto
    <2> QED BY <1>1, <1>2, <1>4, <2>1 DEF RevisionMark, MarkRevision, SaveEvaluating
  <1>5. ASSUME NEW p \in Posts, Create(p) PROVE p = s
    BY <1>1, <1>2, <1>5 DEF Create, CreatePending
  <1> QED
    BY <1>2, <1>3, <1>4, <1>5
    DEF Next, vars, PostStep, RevStep, WorkerStep, Receive, CheckDuplicate, CreateConflicts,
        EnqueueRetry, RevisionRead, RevisionRefused, RevisionCompare, Compare, RevisionInsert,
        InsertRevision, RevisionSave, SaveRevisionResult, RevisionFail, FailRevision, TakeJob,
        DelayOver, Stalled, Unlink, UnlinkFails, Acknowledge, CallFails, Crash, Quiescent

\* Two POST requests for one component never both become submissions: the
\* unique index decides, whatever isDuplicateSubmission answered before.
THEOREM OnePerComponent == Spec => []OneSubmissionPerComponent
  <1>1. Init => OneSubmissionPerComponent
    BY DEF Init, EvaluationInit, StoreInit, OneSubmissionPerComponent, Exists
  <1>2. Typed /\ OneSubmissionPerComponent /\ [Next]_vars => OneSubmissionPerComponent'
    <2> SUFFICES ASSUME Typed, OneSubmissionPerComponent, [Next]_vars,
                        NEW s1 \in Posts, NEW s2 \in Posts,
                        Exists(s1)', Exists(s2)', SlotOf[s1] = SlotOf[s2]
                 PROVE  s1 = s2
      BY DEF OneSubmissionPerComponent, Exists
    <2>1. \A p \in Posts : Create(p) => \A s \in Posts : Exists(s) => SlotOf[s] # SlotOf[p]
      BY DEF Create, CreatePending, UniqueIndexAllows
    <2>2. \A p, s \in Posts : Create(p) /\ Exists(s)' => Exists(s) \/ s = p
      BY DEF Create, CreatePending, Exists, Typed, TypeOK, StoreTypeOK
    <2>3. CASE Exists(s1) /\ Exists(s2)
      BY <2>3 DEF OneSubmissionPerComponent
    <2>4. CASE ~Exists(s1)
      BY <2>1, <2>2, <2>4, OnlyCreateInserts
    <2>5. CASE ~Exists(s2)
      BY <2>1, <2>2, <2>5, OnlyCreateInserts
    <2> QED BY <2>3, <2>4, <2>5
  <1> QED BY <1>1, <1>2, TypeCorrect, PTL DEF Spec, Typed

-----------------------------------------------------------------------------
(* At most one retry                                                       *)

Evaluating == EvalPcs \ {"load"}

\* The consumer is past the early exits of evaluateSubmission only for a
\* submission that has no RETRY log: what makes RetriedAtMostOnce inductive.
RetryInv ==
  /\ RetriedAtMostOnce
  /\ pc[Worker] \in Evaluating => ~HasLog(sub[Worker], "RETRY")

\* The consumer gets there through the early exits alone.
LEMMA WorkerAdmitted ==
  ASSUME Typed, [Next]_vars, pc'[Worker] \in Evaluating
  PROVE  /\ sub'[Worker] = sub[Worker]
         /\ pc[Worker] \in Evaluating \/ Admit(Worker)
  <1> USE TasksDisjoint DEF Tasks, Evaluating
  <1>1. pc \in [Tasks -> Pcs] /\ sub \in [Tasks -> Posts \cup {NoSub}]
    BY DEF Typed, TypeOK, EvaluationTypeOK
  <1>2. ASSUME NEW t \in Tasks, EvaluationStep(t)
        PROVE  sub'[Worker] = sub[Worker] /\ (pc[Worker] \in Evaluating \/ Admit(Worker))
    BY <1>1, <1>2 DEF EvaluationStep, Admit, Refuse, MarkRead, MarkCompare, Compare, MarkSave,
                      Evaluate, Save, SaveFailed, DropOutcome, RejectVerdict, Goto, Thrown,
                      Returned, OnError
  <1>3. ASSUME NEW p \in Posts,
               Receive(p) \/ CheckDuplicate(p) \/ Create(p) \/ CreateConflicts(p) \/ EnqueueRetry(p)
        PROVE  pc[Worker] \in Evaluating /\ sub'[Worker] = sub[Worker]
    BY <1>1, <1>3 DEF Receive, CheckDuplicate, Create, CreateConflicts, EnqueueRetry, Goto
  <1>4. ASSUME NEW r \in Revs,
               \/ RevisionCompare(r) \/ RevisionMark(r) \/ RevisionInsert(r)
               \/ RevisionSave(r) \/ RevisionFail(r)
               \/ \E s \in Posts : RevisionRead(r, s) \/ RevisionRefused(r, s)
        PROVE  pc[Worker] \in Evaluating /\ sub'[Worker] = sub[Worker]
    BY <1>1, <1>4 DEF RevisionCompare, Compare, RevisionMark, RevisionInsert, RevisionSave,
                      RevisionFail, RevisionRead, RevisionRefused, Goto
  <1>5. ASSUME NEW t \in Tasks, CallFails(t)
        PROVE  pc[Worker] \in Evaluating /\ sub'[Worker] = sub[Worker]
    BY <1>1, <1>5 DEF CallFails, OnError, Thrown
  <1>6. ASSUME \/ \E s \in Posts : TakeJob(s) \/ DelayOver(s) \/ Stalled(s)
               \/ Unlink \/ UnlinkFails \/ Acknowledge \/ Crash \/ Quiescent \/ UNCHANGED vars
        PROVE  pc[Worker] \in Evaluating /\ sub'[Worker] = sub[Worker]
    BY <1>1, <1>6 DEF TakeJob, DelayOver, Stalled, Unlink, UnlinkFails, Acknowledge, Crash,
                      Quiescent, vars, Goto
  <1> QED BY <1>2, <1>3, <1>4, <1>5, <1>6 DEF Next, PostStep, RevStep, WorkerStep

LEMMA RetryAlways == Spec => []RetryInv
  <1>1. Init => RetryInv
    BY DEF Init, EvaluationInit, StoreInit, RetryInv, RetriedAtMostOnce, Evaluating, Tasks
  <1>2. Typed /\ RetryInv /\ [Next]_vars => RetryInv'
    <2> SUFFICES ASSUME Typed, RetryInv, [Next]_vars PROVE RetryInv'
      OBVIOUS
    <2>0. logs \in [Posts -> Seq(LogRow)]
      BY DEF Typed, TypeOK, StoreTypeOK
    <2>1. RetriedAtMostOnce'
      <3> SUFFICES ASSUME NEW s \in Posts, NEW i \in DOMAIN logs'[s], NEW j \in DOMAIN logs'[s],
                          logs'[s][i].action = "RETRY", logs'[s][j].action = "RETRY"
                   PROVE  i = j
        BY DEF RetriedAtMostOnce
      <3>1. CASE logs'[s] = logs[s]
        BY <3>1 DEF RetryInv, RetriedAtMostOnce
      <3>2. ASSUME NEW e \in LogRow, logs'[s] = Append(logs[s], e), e.action # "RETRY"
            PROVE  i = j
        BY <2>0, <3>2 DEF RetryInv, RetriedAtMostOnce
      <3>3. ASSUME NEW e \in LogRow, logs'[s] = Append(logs[s], e),
                   sub[Worker] = s, pc[Worker] \in {"save", "saveFailed"}
            PROVE  i = j
        BY <2>0, <3>3 DEF RetryInv, HasLog, Evaluating
      <3> QED BY <3>1, <3>2, <3>3, StepLogs DEF Logged
    <2>2. ASSUME pc'[Worker] \in Evaluating PROVE ~HasLog(sub[Worker], "RETRY")'
      <3>1. sub'[Worker] = sub[Worker] /\ (pc[Worker] \in Evaluating \/ Admit(Worker))
        BY <2>2, WorkerAdmitted
      <3>2. sub[Worker] \in Posts
        BY <3>1 DEF Typed, TypeOK, EvaluationTypeOK, Placed, Tasks, Admit, Goto, Evaluating
      <3>3. ~HasLog(sub[Worker], "RETRY")
        BY <3>1, TasksDisjoint DEF RetryInv, Admit, Admissible
      <3>4. CASE logs'[sub[Worker]] = logs[sub[Worker]]
        BY <3>1, <3>3, <3>4 DEF HasLog
      <3>5. ASSUME NEW e \in LogRow, logs'[sub[Worker]] = Append(logs[sub[Worker]], e),
                   e.action # "RETRY"
            PROVE  ~HasLog(sub[Worker], "RETRY")'
        BY <2>0, <3>1, <3>2, <3>3, <3>5 DEF HasLog
      <3> QED BY <2>2, <3>2, <3>4, <3>5, StepLogs DEF Logged, Evaluating
    <2> QED BY <2>1, <2>2 DEF RetryInv
  <1> QED BY <1>1, <1>2, TypeCorrect, PTL DEF Spec, Typed

\* The automatic retry of a submission reaches an outcome at most once, also
\* when BullMQ delivers its job again after a crash.
THEOREM OneRetry == Spec => []RetriedAtMostOnce
  <1>1. RetryInv => RetriedAtMostOnce
    BY DEF RetryInv
  <1> QED BY <1>1, RetryAlways, PTL

-----------------------------------------------------------------------------
(* Database before queue                                                   *)

FailureLogged(p) == \E i \in DOMAIN logs[p] : logs[p][i] = Log("INITIAL", "FAILED")

\* Logs are only appended to: a logged failure stays logged.
LEMMA FailureStaysLogged ==
  ASSUME Typed, [Next]_vars, NEW p \in Posts, FailureLogged(p)
  PROVE  FailureLogged(p)'
  <1>1. logs[p] \in Seq(LogRow)
    BY DEF Typed, TypeOK, StoreTypeOK
  <1>2. CASE logs'[p] = logs[p]
    BY <1>2 DEF FailureLogged
  <1>3. ASSUME NEW e \in LogRow, logs'[p] = Append(logs[p], e) PROVE FailureLogged(p)'
    <2>1. PICK i \in DOMAIN logs[p] : logs[p][i] = Log("INITIAL", "FAILED")
      BY DEF FailureLogged
    <2>2. i \in DOMAIN logs'[p] /\ logs'[p][i] = logs[p][i]
      BY <1>1, <1>3
    <2> QED BY <2>1, <2>2 DEF FailureLogged, Log
  <1> QED BY <1>2, <1>3, StepLogs DEF Logged

\* The POST handler goes from the FAILED outcome to the queue to the client,
\* and the consumer works on queued submissions only: what makes
\* QueuedOnlyAfterFailure and NoAutomaticOverlap inductive.
QueueInv ==
  /\ \A p \in Posts : pc[p] = "enqueue" => FailureLogged(p)
  /\ \A p \in Posts : job[p] # "none" => FailureLogged(p) /\ pc[p] \in {"threw", "crashed"}
  /\ sub[Worker] # NoSub => job[sub[Worker]] # "none"

\* The POST handler queues a submission once it has saved FAILED.
LEMMA EnqueueComesAfterSave ==
  ASSUME Typed, [Next]_vars, NEW p \in Posts, pc'[p] = "enqueue"
  PROVE  pc[p] = "enqueue" \/ FailureLogged(p)'
  <1> USE TasksDisjoint DEF Tasks
  <1>1. /\ pc \in [Tasks -> Pcs] /\ logs \in [Posts -> Seq(LogRow)]
        /\ pc[p] \in EvalPcs => sub[p] = p
    BY DEF Typed, TypeOK, StoreTypeOK, EvaluationTypeOK, Placed
  <1>2. ASSUME NEW t \in Tasks, EvaluationStep(t) PROVE pc[p] = "enqueue" \/ FailureLogged(p)'
    <2>1. CASE SaveFailed(t) /\ t = p
      <3>1. logs'[p] = Append(logs[p], Log("INITIAL", "FAILED"))
        BY <1>1, <2>1 DEF SaveFailed, SaveSubmissionResult, ActionOf, Goto
      <3>2. Log("INITIAL", "FAILED") \in LogRow
        BY DEF Log, LogRow, Actions, Statuses
      <3>3. /\ Len(logs[p]) + 1 \in DOMAIN logs'[p]
            /\ logs'[p][Len(logs[p]) + 1] = Log("INITIAL", "FAILED")
        BY <1>1, <3>1, <3>2
      <3> QED BY <3>3 DEF FailureLogged, Log
    <2>2. CASE ~(SaveFailed(t) /\ t = p)
      BY <1>1, <1>2, <2>2 DEF EvaluationStep, Admit, Refuse, MarkRead, MarkCompare, Compare,
                              MarkSave, Evaluate, Save, SaveFailed, RejectVerdict, Goto, Thrown,
                              Returned, OnError
    <2> QED BY <2>1, <2>2
  <1>3. ASSUME NEW t \in Tasks, CallFails(t) PROVE pc[p] = "enqueue"
    BY <1>1, <1>3 DEF CallFails, OnError, Thrown
  <1> QED
    BY <1>1, <1>2, <1>3
    DEF Next, vars, PostStep, RevStep, WorkerStep, Receive, CheckDuplicate, Create, CreateConflicts,
        EnqueueRetry, RevisionRead, RevisionRefused, RevisionCompare, Compare, RevisionMark,
        RevisionInsert, RevisionSave, RevisionFail, TakeJob, DelayOver, Stalled, Unlink,
        UnlinkFails, Acknowledge, Crash, Quiescent, Goto

\* A POST request that is over stays over, and a job appears when its POST
\* request goes from "enqueue" to its end.
LEMMA PostEnds ==
  ASSUME Typed, [Next]_vars, NEW p \in Posts
  PROVE  /\ pc[p] \in {"threw", "crashed"} => pc'[p] = pc[p]
         /\ job[p] = "none" /\ job'[p] # "none" => pc[p] = "enqueue" /\ pc'[p] = "threw"
         /\ job[p] # "none" => job'[p] # "none"
  <1> USE TasksDisjoint DEF Tasks
  <1>1. /\ pc \in [Tasks -> Pcs] /\ sub \in [Tasks -> Posts \cup {NoSub}]
        /\ job \in [Posts -> Q!JobStates]
    BY DEF Typed, TypeOK, EvaluationTypeOK, Q!QueueTypeOK
  <1>2. ASSUME NEW t \in Tasks, EvaluationStep(t)
        PROVE  job' = job /\ (pc[p] \in {"threw", "crashed"} => pc'[p] = pc[p])
    BY <1>1, <1>2 DEF EvaluationStep, Admit, Refuse, MarkRead, MarkCompare, Compare, MarkSave,
                      Evaluate, Save, SaveFailed, RejectVerdict, Goto
  <1>3. ASSUME NEW t \in Tasks, CallFails(t)
        PROVE  job' = job /\ (pc[p] \in {"threw", "crashed"} => pc'[p] = pc[p])
    BY <1>1, <1>3 DEF CallFails
  <1>4. ASSUME NEW q \in Posts, EnqueueRetry(q)
        PROVE  /\ pc[p] \in {"threw", "crashed"} => pc'[p] = pc[p]
               /\ job[p] = "none" /\ job'[p] # "none" => pc[p] = "enqueue" /\ pc'[p] = "threw"
               /\ job[p] # "none" => job'[p] # "none"
    BY <1>1, <1>4 DEF EnqueueRetry, Q!Enqueue, Goto
  <1>5. ASSUME NEW s \in Posts, TakeJob(s) \/ DelayOver(s) \/ Stalled(s)
        PROVE  /\ pc[p] \in {"threw", "crashed"} => pc'[p] = pc[p]
               /\ job[p] # "none" <=> job'[p] # "none"
    BY <1>1, <1>5 DEF TakeJob, DelayOver, Stalled, Q!Take, Q!Promote, Q!RecoverStalled, Goto
  <1>6. ASSUME Acknowledge
        PROVE  /\ pc[p] \in {"threw", "crashed"} => pc'[p] = pc[p]
               /\ job[p] # "none" <=> job'[p] # "none"
    <2>1. PICK outcome \in {"completed", "failed"} : Q!Settle(sub[Worker], outcome)
      BY <1>6 DEF Acknowledge
    <2> QED BY <1>1, <1>6, <2>1 DEF Acknowledge, Q!Settle, Goto
  <1> QED
    BY <1>1, <1>2, <1>3, <1>4, <1>5, <1>6
    DEF Next, vars, PostStep, RevStep, WorkerStep, Receive, CheckDuplicate, Create, CreateConflicts,
        RevisionRead, RevisionRefused, RevisionCompare, Compare, RevisionMark, RevisionInsert,
        RevisionSave, RevisionFail, Unlink, UnlinkFails, Crash, Quiescent, Goto

\* The consumer takes queued jobs.
LEMMA WorkerTakesQueued ==
  ASSUME Typed, [Next]_vars, sub'[Worker] # NoSub
  PROVE  sub'[Worker] = sub[Worker] \/ job[sub'[Worker]] # "none"
  <1> USE TasksDisjoint DEF Tasks
  <1>1. sub \in [Tasks -> Posts \cup {NoSub}]
    BY DEF Typed, TypeOK, EvaluationTypeOK
  <1>2. ASSUME NEW t \in Tasks, EvaluationStep(t) PROVE sub'[Worker] = sub[Worker]
    BY <1>2 DEF EvaluationStep, Admit, Refuse, MarkRead, MarkCompare, Compare, MarkSave, Evaluate,
                Save, SaveFailed, DropOutcome, RejectVerdict
  <1> QED
    BY <1>1, <1>2
    DEF Next, vars, PostStep, RevStep, WorkerStep, Receive, CheckDuplicate, Create, CreateConflicts,
        EnqueueRetry, RevisionRead, RevisionRefused, RevisionCompare, Compare, RevisionMark,
        RevisionInsert, RevisionSave, RevisionFail, TakeJob, Q!Take, DelayOver, Stalled, Unlink,
        UnlinkFails, Acknowledge, CallFails, Crash, Quiescent

LEMMA QueueInvariant == Spec => []QueueInv
  <1>1. Init => QueueInv
    BY DEF Init, EvaluationInit, StoreInit, NoLocals, Q!QueueInit, QueueInv, Tasks
  <1>2. Typed /\ QueueInv /\ [Next]_vars => QueueInv'
    <2> SUFFICES ASSUME Typed, QueueInv, [Next]_vars PROVE QueueInv'
      OBVIOUS
    <2>1. ASSUME NEW p \in Posts, pc'[p] = "enqueue" PROVE FailureLogged(p)'
      BY <2>1, EnqueueComesAfterSave, FailureStaysLogged DEF QueueInv
    <2>2. ASSUME NEW p \in Posts, job'[p] # "none"
          PROVE  FailureLogged(p)' /\ pc'[p] \in {"threw", "crashed"}
      BY <2>2, PostEnds, FailureStaysLogged DEF QueueInv
    <2>3. ASSUME sub'[Worker] # NoSub PROVE job'[sub'[Worker]] # "none"
      <3>1. sub'[Worker] \in Posts
        BY <2>3, NextTyped DEF Typed, TypeOK, EvaluationTypeOK, Tasks
      <3>2. job[sub'[Worker]] # "none"
        BY <2>3, WorkerTakesQueued DEF QueueInv
      <3> QED BY <3>1, <3>2, PostEnds
    <2> QED BY <2>1, <2>2, <2>3 DEF QueueInv
  <1> QED BY <1>1, <1>2, TypeCorrect, PTL DEF Spec, Typed

\* The queue never runs ahead of the database: a queued submission has the
\* FAILED outcome of its POST request in its log.
THEOREM FailureBeforeQueue == Spec => []QueuedOnlyAfterFailure
  <1>1. QueueInv => QueuedOnlyAfterFailure
    BY DEF QueueInv, QueuedOnlyAfterFailure, FailureLogged
  <1> QED BY <1>1, QueueInvariant, PTL

\* A submission's retry runs after its POST request has ended.
THEOREM RetryAfterPost == Spec => []NoAutomaticOverlap
  <1>1. Typed /\ QueueInv => NoAutomaticOverlap
    BY TasksDisjoint DEF QueueInv, NoAutomaticOverlap
  <1> QED BY <1>1, QueueInvariant, TypeCorrect, PTL DEF Typed

-----------------------------------------------------------------------------
(* What fails is counted                                                   *)

\* Failing calls and crashes are only counted up.
LEMMA FaultsGrow ==
  ASSUME Typed, [Next]_vars
  PROVE  /\ faults \in Nat /\ crashes \in Nat /\ faults' \in Nat /\ crashes' \in Nat
         /\ faults' >= faults /\ crashes' >= crashes
         /\ \A t \in Tasks : CallFails(t) => faults' > 0
         /\ UnlinkFails => faults' > 0
         /\ Crash => crashes' > 0
  <1> USE BoundsAssumption
  <1>1. faults \in Nat /\ crashes \in Nat
    BY DEF Typed, TypeOK, EvaluationTypeOK
  <1>2. ASSUME NEW t \in Tasks, CallFails(t) PROVE faults' = faults + 1 /\ crashes' = crashes
    BY <1>2 DEF CallFails
  <1>3. Crash => crashes' = crashes + 1 /\ faults' = faults
    BY DEF Crash
  <1>4. UnlinkFails => faults' = faults + 1 /\ crashes' = crashes
    BY DEF UnlinkFails
  <1>5. \/ UnlinkFails
        \/ \E t \in Tasks : CallFails(t)
        \/ Crash \/ UNCHANGED faultVars
    BY DEF Next, vars, PostStep, RevStep, WorkerStep, EvaluationStep, Admit, Refuse, MarkRead,
           MarkCompare, Compare, MarkSave, Evaluate, Save, SaveFailed, RejectVerdict, Receive,
           CheckDuplicate, Create, CreateConflicts, EnqueueRetry, RevisionRead, RevisionRefused,
           RevisionCompare, RevisionMark, RevisionInsert, RevisionSave, RevisionFail, TakeJob,
           DelayOver, Stalled, Unlink, Acknowledge, Quiescent
  <1>6. /\ \A t \in Tasks : CallFails(t) => faults' > 0
        /\ UnlinkFails => faults' > 0
        /\ Crash => crashes' > 0
    BY <1>1, <1>2, <1>3, <1>4
  <1>7. /\ faults' \in Nat /\ crashes' \in Nat
        /\ faults' >= faults /\ crashes' >= crashes
    BY <1>1, <1>2, <1>3, <1>4, <1>5
  <1> QED BY <1>1, <1>6, <1>7

-----------------------------------------------------------------------------
(* What a step does to the job and the video of one submission             *)

SameJob(s) == job'[s] = job[s] /\ stalls'[s] = stalls[s]

\* The life of one job: the options of submission-queue.config.ts.
JobMoves(s) ==
  \/ SameJob(s)
  \/ EnqueueRetry(s) /\ job[s] = "none" /\ job'[s] = "delayed" /\ stalls'[s] = stalls[s]
  \/ job[s] = "delayed" /\ job'[s] = "waiting" /\ stalls'[s] = stalls[s]
  \/ TakeJob(s) /\ job[s] = "waiting" /\ job'[s] = "active" /\ stalls'[s] = stalls[s]
  \/ /\ Acknowledge /\ sub[Worker] = s /\ pc[Worker] \in {"ackOk", "ackErr"}
     /\ job[s] = "active" /\ job'[s] \in Q!Settled /\ stalls'[s] = stalls[s]
  \/ /\ Stalled(s) /\ job[s] = "active" /\ stalls'[s] = stalls[s] + 1
     /\ job'[s] = IF stalls[s] < MaxStalls THEN "waiting" ELSE "failed"

LEMMA JobStep ==
  ASSUME Typed, [Next]_vars, NEW s \in Posts
  PROVE  JobMoves(s)
  <1> USE TasksDisjoint DEF Tasks
  <1>1. /\ job \in [Posts -> Q!JobStates] /\ stalls \in [Posts -> 0 .. MaxStalls + 1]
        /\ pc \in [Tasks -> Pcs]
    BY DEF Typed, TypeOK, EvaluationTypeOK, Q!QueueTypeOK
  <1>2. CASE UNCHANGED <<job, stalls>>
    BY <1>2 DEF JobMoves, SameJob
  <1>3. ASSUME NEW p \in Posts, EnqueueRetry(p) PROVE JobMoves(s)
    <2>1. CASE p = s
      BY <1>1, <1>3, <2>1 DEF EnqueueRetry, Q!Enqueue, JobMoves, SameJob
    <2>2. CASE p # s
      BY <1>1, <1>3, <2>2 DEF EnqueueRetry, Q!Enqueue, JobMoves, SameJob
    <2> QED BY <2>1, <2>2
  <1>4. ASSUME NEW q \in Posts, TakeJob(q) \/ DelayOver(q) \/ Stalled(q) PROVE JobMoves(s)
    <2>1. CASE q = s
      BY <1>1, <1>4, <2>1 DEF TakeJob, DelayOver, Stalled, Q!Take, Q!Promote, Q!RecoverStalled,
                              JobMoves
    <2>2. CASE q # s
      BY <1>1, <1>4, <2>2 DEF TakeJob, DelayOver, Stalled, Q!Take, Q!Promote, Q!RecoverStalled,
                              JobMoves, SameJob
    <2> QED BY <2>1, <2>2
  <1>5. CASE Acknowledge
    <2>1. PICK outcome \in Q!Settled : Q!Settle(sub[Worker], outcome)
      BY <1>5 DEF Acknowledge, Q!Settled
    <2>2. pc[Worker] \in {"ackOk", "ackErr"}
      BY <1>5 DEF Acknowledge, Goto
    <2>3. CASE sub[Worker] = s
      BY <1>1, <1>5, <2>1, <2>2, <2>3 DEF Q!Settle, JobMoves
    <2>4. CASE sub[Worker] # s
      BY <1>1, <2>1, <2>4 DEF Q!Settle, JobMoves, SameJob
    <2> QED BY <2>3, <2>4
  <1> QED
    BY <1>2, <1>3, <1>4, <1>5
    DEF Next, vars, PostStep, RevStep, WorkerStep, EvaluationStep, Admit, Refuse, MarkRead,
        MarkCompare, Compare, MarkSave, Evaluate, Save, SaveFailed, RejectVerdict, Receive,
        CheckDuplicate, Create, CreateConflicts, RevisionRead, RevisionRefused, RevisionCompare,
        RevisionMark, RevisionInsert, RevisionSave, RevisionFail, Unlink, UnlinkFails, CallFails,
        Crash, Quiescent

\* A video appears when its request is received, and goes when the consumer
\* unlinks it.
LEMMA FileStep ==
  ASSUME Typed, [Next]_vars, NEW s \in Posts
  PROVE  \/ s \in files' <=> s \in files
         \/ pc[s] = "idle" /\ s \in files'
         \/ Unlink /\ sub[Worker] = s /\ s \notin files'
  <1>1. CASE files' = files
    BY <1>1
  <1>2. ASSUME NEW p \in Posts, Receive(p)
        PROVE  (s \in files' <=> s \in files) \/ (pc[s] = "idle" /\ s \in files')
    BY <1>2 DEF Receive, Goto
  <1>3. CASE Unlink
    BY <1>3 DEF Unlink, Goto
  <1> QED
    BY <1>1, <1>2, <1>3
    DEF Next, vars, PostStep, RevStep, WorkerStep, EvaluationStep, Admit, Refuse, MarkRead,
        MarkCompare, Compare, MarkSave, Evaluate, Save, SaveFailed, RejectVerdict, CheckDuplicate,
        Create, CreateConflicts, EnqueueRetry, RevisionRead, RevisionRefused, RevisionCompare,
        RevisionMark, RevisionInsert, RevisionSave, RevisionFail, TakeJob, DelayOver, Stalled,
        UnlinkFails, Acknowledge, CallFails, Crash, Quiescent

\* A request with a video leaves "idle" with the video on disk.
LEMMA VideoReceived ==
  ASSUME Typed, [Next]_vars, NEW s \in VideoPosts, pc[s] = "idle", pc'[s] # "idle"
  PROVE  s \in files'
  <1> USE TasksDisjoint, SlotsAssumption DEF Tasks
  <1>1. pc \in [Tasks -> Pcs] /\ s \in Posts
    BY DEF Typed, TypeOK, EvaluationTypeOK
  <1>2. ASSUME NEW t \in Tasks, EvaluationStep(t) PROVE FALSE
    BY <1>1, <1>2 DEF EvaluationStep, Admit, Refuse, MarkRead, MarkCompare, Compare, MarkSave,
                      Evaluate, Save, SaveFailed, RejectVerdict, Goto
  <1>3. ASSUME NEW t \in Tasks, CallFails(t) PROVE FALSE
    BY <1>1, <1>3 DEF CallFails
  <1>4. ASSUME NEW p \in Posts, Receive(p) PROVE s \in files'
    BY <1>1, <1>4 DEF Receive, Goto
  <1> QED
    BY <1>1, <1>2, <1>3, <1>4
    DEF Next, vars, PostStep, RevStep, WorkerStep, CheckDuplicate, Create, CreateConflicts,
        EnqueueRetry, RevisionRead, RevisionRefused, RevisionCompare, Compare, RevisionMark,
        RevisionInsert, RevisionSave, RevisionFail, TakeJob, DelayOver, Stalled, Unlink,
        UnlinkFails, Acknowledge, Crash, Quiescent, Goto

\* What the consumer works on and where it is.
LEMMA ConsumerStep ==
  ASSUME Typed, [Next]_vars
  PROVE  /\ sub'[Worker] \in {sub[Worker], NoSub} \/ \E s \in Posts : TakeJob(s) /\ sub'[Worker] = s
         /\ Acknowledge => sub'[Worker] = NoSub
         /\ pc'[Worker] \in {"ackOk", "ackErr"} =>
              /\ sub'[Worker] = sub[Worker]
              /\ \/ pc[Worker] \in {"ackOk", "ackErr"}
                 \/ Unlink /\ sub[Worker] \notin files'
                 \/ UnlinkFails
  <1> USE TasksDisjoint DEF Tasks
  <1>1. pc \in [Tasks -> Pcs] /\ sub \in [Tasks -> Posts \cup {NoSub}]
    BY DEF Typed, TypeOK, EvaluationTypeOK
  <1> DEFINE Stays == /\ sub'[Worker] = sub[Worker]
                      /\ pc'[Worker] \in {"ackOk", "ackErr"} => pc[Worker] \in {"ackOk", "ackErr"}
                      /\ ~Acknowledge
  <1>2. ASSUME NEW t \in Tasks, EvaluationStep(t) PROVE Stays
    BY <1>1, <1>2 DEF EvaluationStep, Admit, Refuse, MarkRead, MarkCompare, Compare, MarkSave,
                      Evaluate, Save, SaveFailed, DropOutcome, RejectVerdict, Goto, Thrown,
                      Returned, OnError, Acknowledge
  <1>3. ASSUME NEW t \in Tasks, CallFails(t) PROVE Stays
    BY <1>1, <1>3 DEF CallFails, OnError, Thrown, Acknowledge, Goto
  <1>4. ASSUME NEW p \in Posts,
               Receive(p) \/ CheckDuplicate(p) \/ Create(p) \/ CreateConflicts(p) \/ EnqueueRetry(p)
        PROVE  Stays
    BY <1>1, <1>4 DEF Receive, CheckDuplicate, Create, CreateConflicts, EnqueueRetry, Goto,
                      Acknowledge
  <1>5. ASSUME NEW r \in Revs,
               \/ RevisionCompare(r) \/ RevisionMark(r) \/ RevisionInsert(r)
               \/ RevisionSave(r) \/ RevisionFail(r)
               \/ \E s \in Posts : RevisionRead(r, s) \/ RevisionRefused(r, s)
        PROVE  Stays
    BY <1>1, <1>5 DEF RevisionCompare, Compare, RevisionMark, RevisionInsert, RevisionSave,
                      RevisionFail, RevisionRead, RevisionRefused, Goto, Acknowledge
  <1>6. CASE Acknowledge \/ Crash
    BY <1>1, <1>6 DEF Acknowledge, Crash, Goto
  <1>7. CASE Unlink \/ UnlinkFails
    BY <1>1, <1>7 DEF Unlink, UnlinkFails, Acknowledge, Goto
  <1>8. ASSUME NEW s \in Posts, TakeJob(s)
        PROVE  sub'[Worker] = s /\ pc'[Worker] = "load" /\ ~Acknowledge
    BY <1>1, <1>8 DEF TakeJob, Goto, Acknowledge
  <1>9. ASSUME (\E s \in Posts : DelayOver(s) \/ Stalled(s)) \/ Quiescent \/ UNCHANGED vars
        PROVE  sub' = sub /\ pc' = pc
    BY <1>9 DEF DelayOver, Stalled, Quiescent, vars
  <1>10. sub' = sub /\ pc' = pc => Stays
    BY <1>1 DEF Acknowledge, Goto
  <1> QED BY <1>2, <1>3, <1>4, <1>5, <1>6, <1>7, <1>8, <1>9, <1>10
          DEF Next, PostStep, RevStep, WorkerStep

-----------------------------------------------------------------------------
(* The invariant of the videos                                             *)

\* The consumer holds the job it works on; a video that is gone belongs to a
\* job that was started; one whose job is over is gone, unless a call failed.
VideoInv ==
  /\ sub[Worker] # NoSub => job[sub[Worker]] = "active"
  /\ faults = 0 /\ pc[Worker] \in {"ackOk", "ackErr"} => sub[Worker] \notin files
  /\ \A s \in Posts : job[s] = "none" => stalls[s] = 0
  /\ \A s \in VideoPosts :
       pc[s] # "idle" /\ s \notin files => job[s] \in {"active"} \cup Q!Settled \/ stalls[s] > 0
  /\ faults = 0 =>
       \A s \in Posts : job[s] \in Q!Settled /\ stalls[s] <= MaxStalls => s \notin files

LEMMA VideoStep ==
  ASSUME Typed, QueueInv, VideoInv, [Next]_vars
  PROVE  VideoInv'
  <1> USE TasksDisjoint, SlotsAssumption, BoundsAssumption DEF Tasks, Q!Settled
  <1>1. /\ job \in [Posts -> Q!JobStates] /\ stalls \in [Posts -> 0 .. MaxStalls + 1]
        /\ sub \in [Tasks -> Posts \cup {NoSub}] /\ pc \in [Tasks -> Pcs]
    BY DEF Typed, TypeOK, EvaluationTypeOK, Q!QueueTypeOK
  <1>2. ASSUME sub'[Worker] # NoSub PROVE job'[sub'[Worker]] = "active"
    <2>1. ASSUME NEW s \in Posts, TakeJob(s), sub'[Worker] = s PROVE job'[s] = "active"
      BY <1>1, <2>1 DEF TakeJob, Q!Take
    <2>2. CASE sub'[Worker] = sub[Worker]
      <3> DEFINE s == sub[Worker]
      <3>1. s \in Posts /\ job[s] = "active" /\ ~Acknowledge /\ ~Stalled(s)
        BY <1>1, <1>2, <2>2, ConsumerStep DEF VideoInv, Stalled
      <3> HIDE DEF s
      <3>2. job'[s] = "active"
        BY <3>1, JobStep DEF JobMoves, SameJob
      <3> QED BY <2>2, <3>2 DEF s
    <2> QED BY <1>2, <2>1, <2>2, ConsumerStep
  <1>3. ASSUME faults' = 0, pc'[Worker] \in {"ackOk", "ackErr"} PROVE sub'[Worker] \notin files'
    <2>1. /\ sub'[Worker] = sub[Worker] /\ faults = 0
          /\ pc[Worker] \in {"ackOk", "ackErr"} \/ sub[Worker] \notin files'
      BY <1>3, ConsumerStep, FaultsGrow
    <2>2. CASE pc[Worker] \in {"ackOk", "ackErr"}
      <3> DEFINE s == sub[Worker]
      <3>1. s \in Posts /\ s \notin files /\ pc[s] # "idle"
        BY <1>1, <2>1, <2>2 DEF Typed, Placed, VideoInv, QueueInv
      <3> HIDE DEF s
      <3>2. s \notin files'
        BY <2>2, <3>1, FileStep
      <3> QED BY <2>1, <3>2 DEF s
    <2> QED BY <2>1, <2>2
  <1>4. ASSUME NEW s \in Posts, job'[s] = "none" PROVE stalls'[s] = 0
    BY <1>1, <1>4, JobStep DEF JobMoves, SameJob, VideoInv
  <1>5. ASSUME NEW s \in VideoPosts, pc'[s] # "idle", s \notin files'
        PROVE  job'[s] \in {"active"} \cup Q!Settled \/ stalls'[s] > 0
    <2>1. pc[s] # "idle" /\ s \in Posts /\ stalls[s] \in Nat
      BY <1>1, <1>5, VideoReceived
    <2>2. CASE s \notin files
      <3>1. job[s] \in {"active"} \cup Q!Settled \/ stalls[s] > 0
        BY <2>1, <2>2 DEF VideoInv
      <3>2. job[s] = "none" => stalls[s] = 0
        BY <2>1 DEF VideoInv
      <3> QED BY <2>1, <3>1, <3>2, JobStep DEF JobMoves, SameJob
    <2>3. CASE s \in files
      <3>1. Unlink /\ sub[Worker] = s
        BY <1>5, <2>1, <2>3, FileStep
      <3>2. job[s] = "active" /\ job' = job
        BY <2>1, <3>1 DEF VideoInv, Unlink
      <3> QED BY <3>2
    <2> QED BY <2>2, <2>3
  <1>6. ASSUME faults' = 0, NEW s \in Posts, job'[s] \in Q!Settled, stalls'[s] <= MaxStalls
        PROVE  s \notin files'
    <2>1. stalls[s] \in Nat /\ MaxStalls \in Nat
      BY <1>1
    <2>2. /\ job[s] # "none"
          /\ \/ job[s] \in Q!Settled /\ stalls[s] <= MaxStalls
             \/ Acknowledge /\ sub[Worker] = s /\ pc[Worker] \in {"ackOk", "ackErr"}
      BY <1>6, <2>1, JobStep DEF JobMoves, SameJob
    <2>3. s \notin files /\ pc[s] # "idle"
      BY <1>6, <2>2, FaultsGrow DEF VideoInv, QueueInv
    <2> QED BY <2>3, FileStep
  <1> QED BY <1>2, <1>3, <1>4, <1>5, <1>6 DEF VideoInv

LEMMA VideoInvariant == Spec => []VideoInv
  <1>1. Init => VideoInv
    BY TasksDisjoint, SlotsAssumption, BoundsAssumption
       DEF Init, EvaluationInit, StoreInit, NoLocals, Q!QueueInit, Q!Settled, VideoInv, Tasks
  <1> QED BY <1>1, VideoStep, QueueInvariant, TypeCorrect, PTL DEF Spec, Typed

\* The retry finds the video of its submission: it is on disk until the
\* consumer has started the job for the first time.
THEOREM VideoKept == Spec => []VideoKeptForRetry
  <1>1. QueueInv /\ VideoInv => VideoKeptForRetry
    BY SlotsAssumption DEF QueueInv, VideoInv, VideoKeptForRetry, Q!Settled
  <1> QED BY <1>1, QueueInvariant, VideoInvariant, PTL

\* Once the consumer has run to its end the video is deleted, also when its
\* job was delivered twice (submission.consumer.ts, the finally block), unless
\* some call failed: the unlink may, and is only logged (line 44).
THEOREM VideoDeleted == Spec => []VideoDeletedAfterRetry
  <1>1. VideoInv => VideoDeletedAfterRetry
    BY SlotsAssumption DEF VideoInv, VideoDeletedAfterRetry
  <1> QED BY <1>1, VideoInvariant, PTL
=============================================================================
