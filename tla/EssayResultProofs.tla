--------------------------- MODULE EssayResultProofs ---------------------------
(***************************************************************************)
(* What the rows of the essay service show, that the service implements    *)
(* EvaluationLedger, and who still works on a submission: theorems about   *)
(* EssayService for every set of requests and every number of faults,      *)
(* crashes and stalls.                                                     *)
(*                                                                         *)
(* Every step of the service registers a submission, begins (seen, or not, *)
(* when its mark updates nothing), concludes or abandons an evaluation, or *)
(* changes nothing the ledger knows of.  While nothing fails, an           *)
(* EVALUATING submission has a task that will settle it, and a SUCCESS     *)
(* shows the last verdict once nobody evaluates it any more.               *)
(***************************************************************************)
EXTENDS EssayProofs

USE DEF storeVars, localVars, queueVars, faultVars
USE DEF Pcs, InFlight, PostPcs, RevPcs, EvalPcs, WorkerPcs, Over

-----------------------------------------------------------------------------
(* Who writes a row                                                        *)

\* The transactions of task t that write the row of submission s.
Writes(t, s) ==
  /\ sub[t] = s
  /\ \/ MarkSave(t) \/ Save(t) \/ SaveFailed(t)
     \/ t \in Revs /\ RevisionMark(t)

Unmoved(s) ==
  status'[s] = status[s] /\ result'[s] = result[s] /\ logs'[s] = logs[s]

\* A row is written by its own request, by a task that works on it, or not.
LEMMA RowStep ==
  ASSUME Typed, [Next]_vars, NEW s \in Posts
  PROVE  Unmoved(s) \/ Create(s) \/ \E t \in Tasks : Writes(t, s)
  <1>1. /\ status \in [Posts -> Statuses \cup {"none"}] /\ logs \in [Posts -> Seq(LogRow)]
        /\ result \in [Posts -> Content]
    BY DEF Typed, TypeOK, StoreTypeOK
  <1>2. CASE UNCHANGED <<status, result, logs>>
    BY <1>2 DEF Unmoved
  <1>3. ASSUME NEW p \in Posts, Create(p) PROVE Unmoved(s) \/ Create(s)
    BY <1>1, <1>3 DEF Create, CreatePending, Unmoved
  <1>4. ASSUME NEW r \in Revs, RevisionMark(r) PROVE Unmoved(s) \/ Writes(r, s)
    BY <1>1, <1>4 DEF RevisionMark, MarkRevision, SaveEvaluating, Unmoved, Writes
  <1>5. ASSUME NEW t \in Tasks, EvaluationStep(t) PROVE Unmoved(s) \/ Writes(t, s)
    <2>1. CASE MarkSave(t)
      BY <1>1, <2>1 DEF MarkSave, MarkEvaluating, SaveEvaluating, Unmoved, Writes
    <2>2. CASE Save(t) \/ SaveFailed(t)
      <3>1. PICK st \in {"SUCCESS", "FAILED"} :
              SaveSubmissionResult(sub[t], ActionOf(t), st, Outcome(t), upload[t])
        BY <2>2 DEF Save, SaveFailed
      <3> QED BY <1>1, <2>2, <3>1 DEF SaveSubmissionResult, Unmoved, Writes
    <2> QED BY <1>5, <2>1, <2>2
            DEF EvaluationStep, Admit, Refuse, MarkRead, MarkCompare, Compare, Evaluate,
                RejectVerdict, Unmoved
  <1> QED
    BY <1>2, <1>3, <1>4, <1>5
    DEF Next, vars, Tasks, PostStep, RevStep, WorkerStep, Receive, CheckDuplicate, CreateConflicts,
        EnqueueRetry, RevisionRead, RevisionRefused, RevisionCompare, Compare, RevisionInsert,
        InsertRevision, RevisionSave, SaveRevisionResult, RevisionFail, FailRevision, TakeJob,
        DelayOver, Stalled, Unlink, UnlinkFails, Acknowledge, CallFails, Crash, Quiescent

\* What each of the writes leaves in the row: a mark writes the columns that
\* save() found to differ.
LEMMA WrittenRow ==
  ASSUME Typed, NEW t \in Tasks, NEW s \in Posts, Writes(t, s)
  PROVE  \/ /\ MarkSave(t) \/ (t \in Revs /\ RevisionMark(t))
            /\ status'[s] = IF "status" \in columns[t] THEN "EVALUATING" ELSE status[s]
            /\ result'[s] \in {result[s], snap[t]}
            /\ \E a \in Actions : logs'[s] = Append(logs[s], Log(a, "EVALUATING"))
         \/ SaveFailed(t) /\ status'[s] = "FAILED" /\ result'[s] = Outcome(t)
            /\ logs'[s] = Append(logs[s], Log(ActionOf(t), "FAILED"))
         \/ Save(t) /\ status'[s] = "SUCCESS" /\ result'[s] = t
            /\ logs'[s] = Append(logs[s], Log(ActionOf(t), "SUCCESS"))
  <1>1. /\ status \in [Posts -> Statuses \cup {"none"}] /\ logs \in [Posts -> Seq(LogRow)]
        /\ result \in [Posts -> Content]
    BY DEF Typed, TypeOK, StoreTypeOK
  <1>2. CASE MarkSave(t)
    BY <1>1, <1>2 DEF MarkSave, MarkEvaluating, SaveEvaluating, Writes, Actions
  <1>3. CASE t \in Revs /\ RevisionMark(t)
    BY <1>1, <1>3 DEF RevisionMark, MarkRevision, SaveEvaluating, Writes, Actions
  <1>4. CASE SaveFailed(t)
    BY <1>1, <1>4 DEF SaveFailed, SaveSubmissionResult, Writes
  <1>5. CASE Save(t)
    BY <1>1, <1>5 DEF Save, SaveSubmissionResult, Writes, Outcome
  <1> QED BY <1>2, <1>3, <1>4, <1>5 DEF Writes

\* A revision request works on one submission from its first step on.
LEMMA RevisionStays ==
  ASSUME Typed, [Next]_vars, NEW r \in Revs, pc[r] # "idle"
  PROVE  pc'[r] # "idle" /\ sub'[r] = sub[r]
  <1> USE TasksDisjoint DEF Tasks
  <1>1. pc \in [Tasks -> Pcs] /\ sub \in [Tasks -> Posts \cup {NoSub}]
    BY DEF Typed, TypeOK, EvaluationTypeOK
  <1>2. ASSUME NEW t \in Tasks, EvaluationStep(t) PROVE pc'[r] # "idle" /\ sub'[r] = sub[r]
    BY <1>1, <1>2 DEF EvaluationStep, Admit, Refuse, MarkRead, MarkCompare, Compare, MarkSave,
                      Evaluate, Save, SaveFailed, DropOutcome, RejectVerdict, Goto, Thrown,
                      Returned, OnError
  <1>3. ASSUME NEW p \in Posts,
               Receive(p) \/ CheckDuplicate(p) \/ Create(p) \/ CreateConflicts(p) \/ EnqueueRetry(p)
        PROVE  pc'[r] # "idle" /\ sub'[r] = sub[r]
    BY <1>1, <1>3 DEF Receive, CheckDuplicate, Create, CreateConflicts, EnqueueRetry, Goto
  <1>4. ASSUME NEW q \in Revs,
               \/ RevisionCompare(q) \/ RevisionMark(q) \/ RevisionInsert(q)
               \/ RevisionSave(q) \/ RevisionFail(q)
               \/ \E s \in Posts : RevisionRead(q, s) \/ RevisionRefused(q, s)
        PROVE  pc'[r] # "idle" /\ sub'[r] = sub[r]
    BY <1>1, <1>4 DEF RevisionCompare, Compare, RevisionMark, RevisionInsert, RevisionSave,
                      RevisionFail, RevisionRead, RevisionRefused, Goto
  <1>5. ASSUME NEW t \in Tasks, CallFails(t) PROVE pc'[r] # "idle" /\ sub'[r] = sub[r]
    BY <1>1, <1>5 DEF CallFails, OnError, Thrown
  <1>6. ASSUME \/ \E s \in Posts : TakeJob(s) \/ DelayOver(s) \/ Stalled(s)
               \/ Unlink \/ UnlinkFails \/ Acknowledge \/ Crash \/ Quiescent \/ UNCHANGED vars
        PROVE  pc'[r] # "idle" /\ sub'[r] = sub[r]
    BY <1>1, <1>6 DEF TakeJob, DelayOver, Stalled, Unlink, UnlinkFails, Acknowledge, Crash,
                      Quiescent, vars, Goto
  <1> QED BY <1>2, <1>3, <1>4, <1>5, <1>6 DEF Next, PostStep, RevStep, WorkerStep

-----------------------------------------------------------------------------
(* The retry of a failed POST is queued                                    *)

\* A POST that has logged its failure is on its way to the queue, has queued
\* its retry, or was stopped by a failing call or a crash.
FailureInv ==
  \A p \in Posts : FailureLogged(p) =>
    \/ pc[p] \in {"enqueue", "crashed"}
    \/ pc[p] = "threw" /\ (job[p] # "none" \/ faults > 0)

\* Only the last save of the POST request itself logs its failure.
LEMMA FailureIsSaved ==
  ASSUME Typed, [Next]_vars, NEW p \in Posts, ~FailureLogged(p), FailureLogged(p)'
  PROVE  pc'[p] = "enqueue"
  <1> USE TasksDisjoint DEF Tasks
  <1>1. /\ logs \in [Posts -> Seq(LogRow)] /\ pc \in [Tasks -> Pcs]
        /\ sub \in [Tasks -> Posts \cup {NoSub}]
    BY DEF Typed, TypeOK, StoreTypeOK, EvaluationTypeOK
  <1>2. ASSUME NEW e, logs'[p] = Append(logs[p], e), e # Log("INITIAL", "FAILED") PROVE FALSE
    BY <1>1, <1>2 DEF FailureLogged, Log
  <1>3. CASE Unmoved(p)
    BY <1>3 DEF Unmoved, FailureLogged, Log
  <1>4. CASE Create(p)
    <2>1. logs'[p] = Append(logs[p], Log("INITIAL", "PENDING"))
      BY <1>1, <1>4 DEF Create, CreatePending
    <2> QED BY <1>2, <2>1 DEF Log
  <1>5. ASSUME NEW t \in Tasks, Writes(t, p) PROVE pc'[p] = "enqueue"
    <2>1. CASE MarkSave(t) \/ (t \in Revs /\ RevisionMark(t))
      <3>1. PICK a \in Actions : logs'[p] = Append(logs[p], Log(a, "EVALUATING"))
        BY <1>1, <1>5, <2>1 DEF MarkSave, MarkEvaluating, RevisionMark, MarkRevision,
                                SaveEvaluating, Writes, Actions
      <3> QED BY <1>2, <3>1 DEF Log
    <2>2. CASE Save(t)
      <3>1. logs'[p] = Append(logs[p], Log(ActionOf(t), "SUCCESS"))
        BY <1>1, <1>5, <2>2 DEF Save, SaveSubmissionResult, Writes
      <3> QED BY <1>2, <3>1 DEF Log
    <2>3. CASE SaveFailed(t)
      <3>1. logs'[p] = Append(logs[p], Log(ActionOf(t), "FAILED"))
        BY <1>1, <1>5, <2>3 DEF SaveFailed, SaveSubmissionResult, Writes
      <3>2. ActionOf(t) = "INITIAL"
        BY <1>2, <3>1 DEF Log
      <3>3. t \in Posts /\ pc[t] = "saveFailed"
        BY <2>3, <3>2 DEF ActionOf, SaveFailed, Goto
      <3>4. t = p
        BY <1>5, <3>3 DEF Typed, Placed, Writes
      <3> QED BY <1>1, <2>3, <3>3, <3>4 DEF SaveFailed, Goto
    <2> QED BY <1>5, <2>1, <2>2, <2>3 DEF Writes
  <1> QED BY <1>3, <1>4, <1>5, RowStep

\* From "enqueue" a POST goes to its end with its job in the queue, unless
\* the call fails or the process crashes.
LEMMA EnqueueEnds ==
  ASSUME Typed, [Next]_vars, NEW p \in Posts, pc[p] = "enqueue"
  PROVE  \/ pc'[p] \in {"enqueue", "crashed"}
         \/ pc'[p] = "threw" /\ (job'[p] # "none" \/ faults' > 0)
  <1> USE TasksDisjoint, BoundsAssumption DEF Tasks
  <1>1. /\ pc \in [Tasks -> Pcs] /\ job \in [Posts -> Q!JobStates] /\ faults \in 0 .. MaxFaults
    BY DEF Typed, TypeOK, EvaluationTypeOK, Q!QueueTypeOK
  <1>2. ASSUME NEW t \in Tasks, EvaluationStep(t) PROVE pc'[p] = "enqueue"
    BY <1>1, <1>2 DEF EvaluationStep, Admit, Refuse, MarkRead, MarkCompare, Compare, MarkSave,
                      Evaluate, Save, SaveFailed, RejectVerdict, Goto
  <1>3. ASSUME NEW q \in Posts,
               Receive(q) \/ CheckDuplicate(q) \/ Create(q) \/ CreateConflicts(q)
        PROVE  pc'[p] = "enqueue"
    BY <1>1, <1>3 DEF Receive, CheckDuplicate, Create, CreateConflicts, Goto
  <1>4. ASSUME NEW q \in Posts, EnqueueRetry(q)
        PROVE  pc'[p] = "enqueue" \/ (pc'[p] = "threw" /\ job'[p] # "none")
    BY <1>1, <1>4 DEF EnqueueRetry, Q!Enqueue, Goto
  <1>5. ASSUME NEW r \in Revs,
               \/ RevisionCompare(r) \/ RevisionMark(r) \/ RevisionInsert(r)
               \/ RevisionSave(r) \/ RevisionFail(r)
               \/ \E s \in Posts : RevisionRead(r, s) \/ RevisionRefused(r, s)
        PROVE  pc'[p] = "enqueue"
    BY <1>1, <1>5 DEF RevisionCompare, Compare, RevisionMark, RevisionInsert, RevisionSave,
                      RevisionFail, RevisionRead, RevisionRefused, Goto
  <1>6. ASSUME NEW t \in Tasks, CallFails(t)
        PROVE  pc'[p] = "enqueue" \/ (pc'[p] = "threw" /\ faults' > 0)
    BY <1>1, <1>6 DEF CallFails, OnError
  <1>7. CASE Crash
    BY <1>1, <1>7 DEF Crash
  <1>8. ASSUME \/ \E s \in Posts : TakeJob(s) \/ DelayOver(s) \/ Stalled(s)
               \/ Unlink \/ UnlinkFails \/ Acknowledge \/ Quiescent \/ UNCHANGED vars
        PROVE  pc'[p] = "enqueue"
    BY <1>1, <1>8 DEF TakeJob, DelayOver, Stalled, Unlink, UnlinkFails, Acknowledge, Quiescent,
                      vars, Goto
  <1> QED BY <1>2, <1>3, <1>4, <1>5, <1>6, <1>7, <1>8 DEF Next, PostStep, RevStep, WorkerStep

\* A POST whose failure is logged has its retry in the queue when it throws,
\* unless a call failed (submissions.service.ts:165-175).
THEOREM FailureIsQueued == Spec => []FailedPostIsQueued
  <1>1. Init => FailureInv
    BY DEF Init, EvaluationInit, StoreInit, FailureInv, FailureLogged
  <1>2. Typed /\ FailureInv /\ [Next]_vars => FailureInv'
    <2> SUFFICES ASSUME Typed, FailureInv, [Next]_vars, NEW p \in Posts, FailureLogged(p)'
                 PROVE  \/ pc'[p] \in {"enqueue", "crashed"}
                        \/ pc'[p] = "threw" /\ (job'[p] # "none" \/ faults' > 0)
      BY DEF FailureInv
    <2>1. CASE ~FailureLogged(p)
      BY <2>1, FailureIsSaved
    <2>2. CASE pc[p] = "enqueue"
      BY <2>2, EnqueueEnds
    <2>3. CASE pc[p] = "crashed" \/ (pc[p] = "threw" /\ (job[p] # "none" \/ faults > 0))
      <3>1. faults > 0 => faults' > 0
        BY FaultsGrow
      <3> QED BY <2>3, <3>1, PostEnds
    <2> QED BY <2>1, <2>2, <2>3 DEF FailureInv
  <1>3. Typed /\ FailureInv => FailedPostIsQueued
    BY DEF FailureInv, FailedPostIsQueued, FailureLogged
  <1> QED BY <1>1, <1>2, <1>3, TypeCorrect, PTL DEF Spec, Typed

-----------------------------------------------------------------------------
(* A revision row matches the logs                                         *)

Carries(s, e) == \E i \in DOMAIN logs[s] : logs[s][i] = e

\* Logs are only appended to.
LEMMA LogStays ==
  ASSUME Typed, [Next]_vars, NEW s \in Posts, NEW e, Carries(s, e)
  PROVE  Carries(s, e)'
  <1>1. logs[s] \in Seq(LogRow)
    BY DEF Typed, TypeOK, StoreTypeOK
  <1>2. CASE logs'[s] = logs[s]
    BY <1>2 DEF Carries
  <1>3. ASSUME NEW f \in LogRow, logs'[s] = Append(logs[s], f) PROVE Carries(s, e)'
    <2>1. PICK i \in DOMAIN logs[s] : logs[s][i] = e
      BY DEF Carries
    <2>2. i \in DOMAIN logs'[s] /\ logs'[s][i] = logs[s][i]
      BY <1>1, <1>3
    <2> QED BY <2>1, <2>2 DEF Carries
  <1> QED BY <1>2, <1>3, StepLogs DEF Logged

\* The way of a revision request through its handler.
LEMMA RevFlow ==
  ASSUME Typed, [Next]_vars, NEW r \in Revs
  PROVE  /\ pc'[r] = "revSave" => pc[r] = "revSave" \/ Save(r)
         /\ pc'[r] = "returned" => pc[r] = "returned" \/ RevisionSave(r)
         /\ pc[r] = "returned" => pc'[r] = "returned"
         /\ pc'[r] \in {"revInsert"} \cup EvalPcs =>
              pc[r] \in {"revInsert"} \cup EvalPcs \/ RevisionMark(r)
         /\ pc[r] \in {"revSave", "crashed"} =>
              pc'[r] \in {"revSave", "returned", "crashed"} \/ faults' > 0
  <1> USE TasksDisjoint DEF Tasks
  <1>1. pc \in [Tasks -> Pcs]
    BY DEF Typed, TypeOK, EvaluationTypeOK
  <1> DEFINE Flow == /\ pc'[r] = "revSave" => pc[r] = "revSave" \/ Save(r)
                     /\ pc'[r] = "returned" => pc[r] = "returned" \/ RevisionSave(r)
                     /\ pc[r] = "returned" => pc'[r] = "returned"
                     /\ pc'[r] \in {"revInsert"} \cup EvalPcs =>
                          pc[r] \in {"revInsert"} \cup EvalPcs \/ RevisionMark(r)
                     /\ pc[r] \in {"revSave", "crashed"} =>
                          pc'[r] \in {"revSave", "returned", "crashed"}
  <1>2. ASSUME NEW t \in Tasks, EvaluationStep(t) PROVE Flow
    <2>1. CASE t = r
      BY <1>1, <1>2, <2>1 DEF EvaluationStep, Admit, Refuse, MarkRead, MarkCompare, Compare,
                              MarkSave, Evaluate, Save, SaveFailed, RejectVerdict, Goto, Thrown,
                              Returned, OnError
    <2>2. CASE t # r
      <3>1. pc'[r] = pc[r]
        BY <1>1, <1>2, <2>2 DEF EvaluationStep, Admit, Refuse, MarkRead, MarkCompare, Compare,
                                MarkSave, Evaluate, Save, SaveFailed, RejectVerdict, Goto
      <3> QED BY <3>1
    <2> QED BY <2>1, <2>2
  <1>3. ASSUME NEW q \in Revs,
               \/ RevisionCompare(q) \/ RevisionMark(q) \/ RevisionInsert(q)
               \/ RevisionSave(q) \/ RevisionFail(q)
               \/ \E s \in Posts : RevisionRead(q, s) \/ RevisionRefused(q, s)
        PROVE  Flow
    BY <1>1, <1>3 DEF RevisionCompare, Compare, RevisionMark, RevisionInsert, RevisionSave,
                      RevisionFail, RevisionRead, RevisionRefused, Goto
  <1>4. ASSUME NEW t \in Tasks, CallFails(t)
        PROVE  \/ pc'[r] = pc[r]
               \/ /\ faults' > 0
                  /\ pc'[r] \notin {"revSave", "returned", "revInsert"}
                  /\ pc[r] = "returned" => pc'[r] = "returned"
                  /\ pc'[r] \in EvalPcs => pc[r] \in EvalPcs
    <2>1. faults' > 0
      BY <1>4, FaultsGrow
    <2> QED BY <1>1, <1>4, <2>1 DEF CallFails, OnError, Thrown
  <1>5. CASE Crash
    BY <1>1, <1>5 DEF Crash
  <1>6. ASSUME \/ \E p \in Posts : Receive(p) \/ CheckDuplicate(p) \/ Create(p)
                                     \/ CreateConflicts(p) \/ EnqueueRetry(p)
               \/ \E s \in Posts : TakeJob(s) \/ DelayOver(s) \/ Stalled(s)
               \/ Unlink \/ UnlinkFails \/ Acknowledge \/ Quiescent \/ UNCHANGED vars
        PROVE  pc'[r] = pc[r]
    BY <1>1, <1>6, SMTT(60)
    DEF Receive, CheckDuplicate, Create, CreateConflicts, EnqueueRetry, TakeJob, DelayOver, Stalled,
        Unlink, UnlinkFails, Acknowledge, Quiescent, vars, Goto
  <1> QED BY <1>2, <1>3, <1>4, <1>5, <1>6 DEF Next, PostStep, RevStep, WorkerStep

\* A revision row is written by its own request.
LEMMA RevisionRowStep ==
  ASSUME Typed, [Next]_vars, NEW r \in Revs
  PROVE  \/ revStatus'[r] = revStatus[r] /\ revResult'[r] = revResult[r]
         \/ RevisionInsert(r) /\ revStatus'[r] = "EVALUATING"
         \/ RevisionSave(r) /\ revStatus'[r] = "SUCCESS" /\ revResult'[r] = r
         \/ RevisionFail(r) /\ revStatus'[r] = "FAILED"
  <1> USE DEF StoreTypeOK
  <1>1. StoreTypeOK
    BY DEF Typed, TypeOK
  <1>2. CASE UNCHANGED <<revStatus, revResult>>
    BY <1>2
  <1>3. ASSUME NEW q \in Revs, RevisionInsert(q) \/ RevisionSave(q) \/ RevisionFail(q)
        PROVE  \/ revStatus'[r] = revStatus[r] /\ revResult'[r] = revResult[r]
               \/ RevisionInsert(r) /\ revStatus'[r] = "EVALUATING"
               \/ RevisionSave(r) /\ revStatus'[r] = "SUCCESS" /\ revResult'[r] = r
               \/ RevisionFail(r) /\ revStatus'[r] = "FAILED"
    BY <1>1, <1>3 DEF RevisionInsert, InsertRevision, RevisionSave, SaveRevisionResult,
                      RevisionFail, FailRevision
  <1>4. ASSUME NEW t \in Tasks, EvaluationStep(t) PROVE UNCHANGED <<revStatus, revResult>>
    BY <1>4 DEF EvaluationStep, Admit, Refuse, MarkRead, MarkCompare, Compare, MarkSave,
                MarkEvaluating, SaveEvaluating, Evaluate, Save, SaveFailed, SaveSubmissionResult,
                RejectVerdict
  <1> QED
    BY <1>2, <1>3, <1>4
    DEF Next, vars, Tasks, PostStep, RevStep, WorkerStep, Receive, CheckDuplicate, Create,
        CreatePending, CreateConflicts, EnqueueRetry, RevisionRead, RevisionRefused,
        RevisionCompare, Compare, RevisionMark, MarkRevision, SaveEvaluating, TakeJob, DelayOver,
        Stalled, Unlink, UnlinkFails, Acknowledge, CallFails, Crash, Quiescent

RevisionLogged(r) == Carries(sub[r], Log("REVISION", "SUCCESS"))

\* A request writes SUCCESS into its row after its evaluation was logged.
RevisionInv ==
  \A r \in Revs :
    /\ revStatus[r] = "SUCCESS" => revResult[r] = r
    /\ pc[r] = "revSave" \/ revStatus[r] = "SUCCESS" =>
         pc[r] # "idle" /\ sub[r] \in Posts /\ RevisionLogged(r)

LEMMA RevisionStep ==
  ASSUME Typed, RevisionInv, [Next]_vars
  PROVE  RevisionInv'
  <1> USE TasksDisjoint DEF Tasks
  <1> SUFFICES ASSUME NEW r \in Revs
               PROVE  /\ revStatus'[r] = "SUCCESS" => revResult'[r] = r
                      /\ pc'[r] = "revSave" \/ revStatus'[r] = "SUCCESS" =>
                           pc'[r] # "idle" /\ sub'[r] \in Posts /\ RevisionLogged(r)'
    BY DEF RevisionInv
  <1>1. revStatus'[r] = "SUCCESS" => revResult'[r] = r
    BY RevisionRowStep DEF RevisionInv
  <1>2. ASSUME pc'[r] = "revSave" \/ revStatus'[r] = "SUCCESS"
        PROVE  pc'[r] # "idle" /\ sub'[r] \in Posts /\ RevisionLogged(r)'
    <2>1. CASE pc[r] = "revSave" \/ revStatus[r] = "SUCCESS"
      <3>1. pc[r] # "idle" /\ sub[r] \in Posts /\ RevisionLogged(r)
        BY <2>1 DEF RevisionInv
      <3>2. pc'[r] # "idle" /\ sub'[r] = sub[r]
        BY <3>1, RevisionStays
      <3>3. Carries(sub[r], Log("REVISION", "SUCCESS"))'
        BY <3>1, <3>2, LogStays DEF RevisionLogged, Carries, Log
      <3> QED BY <3>1, <3>2, <3>3 DEF RevisionLogged
    <2>2. CASE Save(r)
      <3> DEFINE s == sub[r]
      <3>1. s \in Posts /\ logs \in [Posts -> Seq(LogRow)] /\ pc[r] = "save"
        BY <2>2 DEF Save, Goto, Typed, TypeOK, StoreTypeOK, EvaluationTypeOK, Placed
      <3>2. pc'[r] # "idle" /\ sub'[r] = s
        BY <3>1, RevisionStays
      <3>3. ActionOf(r) = "REVISION" /\ Log("REVISION", "SUCCESS") \in LogRow
        BY DEF ActionOf, Log, LogRow, Actions, Statuses
      <3>4. logs'[s] = Append(logs[s], Log("REVISION", "SUCCESS"))
        BY <2>2, <3>1, <3>3 DEF Save, SaveSubmissionResult
      <3> HIDE DEF s
      <3>5. /\ Len(logs[s]) + 1 \in DOMAIN logs'[s]
            /\ logs'[s][Len(logs[s]) + 1] = Log("REVISION", "SUCCESS")
        BY <3>1, <3>3, <3>4
      <3> QED BY <3>1, <3>2, <3>5 DEF RevisionLogged, Carries, Log
    <2>3. RevisionSave(r) => pc[r] = "revSave"
      BY DEF RevisionSave, Goto
    <2> QED BY <1>2, <2>1, <2>2, <2>3, RevFlow, RevisionRowStep
  <1> QED BY <1>1, <1>2

LEMMA RevisionAlways == Spec => []RevisionInv
  <1>1. Init => RevisionInv
    BY TasksDisjoint DEF Init, EvaluationInit, StoreInit, RevisionInv, Tasks
  <1> QED BY <1>1, RevisionStep, TypeCorrect, PTL DEF Spec, Typed

\* A revision row says SUCCESS only with its own verdict, after the matching
\* log, although the two are written in two transactions
\* (revisions.service.ts:94-101, submissions.service.ts:240).
THEOREM RowMatchesLog == Spec => []RevisionRowMatchesLog
  <1>1. RevisionInv => RevisionRowMatchesLog
    BY DEF RevisionInv, RevisionLogged, Carries, RevisionRowMatchesLog
  <1> QED BY <1>1, RevisionAlways, PTL

-----------------------------------------------------------------------------
(* What a mark that does not write the status has overlooked               *)

\* Once its evaluation has begun, a submission is never PENDING again.
Begun(s) == status[s] \notin {"none", "PENDING"}

LEMMA BegunStays ==
  ASSUME Typed, [Next]_vars, NEW s \in Posts, Begun(s)
  PROVE  Begun(s)'
  <1>1. CASE Unmoved(s)
    BY <1>1 DEF Unmoved, Begun
  <1>2. CASE Create(s)
    BY <1>2 DEF Create, CreatePending, UniqueIndexAllows, Exists, Begun
  <1>3. ASSUME NEW t \in Tasks, Writes(t, s) PROVE Begun(s)'
    BY <1>3, WrittenRow DEF Begun
  <1> QED BY <1>1, <1>2, <1>3, RowStep

\* save() leaves the status out of its UPDATE when it finds EVALUATING: by the
\* time of the UPDATE another evaluation may have concluded.
MarkInv ==
  \A t \in Tasks :
    pc[t] \in {"markSave", "revMark"} /\ "status" \notin columns[t] => Begun(sub[t])

\* The comparison is made once, right before the UPDATE.
LEMMA ComparedStep ==
  ASSUME Typed, [Next]_vars, NEW t \in Tasks, pc'[t] \in {"markSave", "revMark"}
  PROVE  /\ sub'[t] = sub[t] /\ sub[t] \in Posts
         /\ \/ pc[t] \in {"markSave", "revMark"} /\ columns'[t] = columns[t]
            \/ columns'[t] = Changed(sub[t], snap[t]) /\ UNCHANGED status
  <1> USE TasksDisjoint DEF Tasks
  <1>1. /\ pc \in [Tasks -> Pcs] /\ sub \in [Tasks -> Posts \cup {NoSub}]
        /\ columns \in [Tasks -> SUBSET Columns]
    BY DEF Typed, TypeOK, EvaluationTypeOK
  <1> DEFINE Kept == /\ sub'[t] = sub[t]
                     /\ \/ pc[t] \in {"markSave", "revMark"} /\ columns'[t] = columns[t]
                        \/ columns'[t] = Changed(sub[t], snap[t]) /\ UNCHANGED status
  <1>2. ASSUME NEW u \in Tasks, EvaluationStep(u) PROVE Kept
    <2>1. CASE u = t
      BY <1>1, <1>2, <2>1
      DEF EvaluationStep, Admit, Refuse, MarkRead, MarkCompare, Compare, MarkSave, Evaluate, Save,
          SaveFailed, DropOutcome, RejectVerdict, Goto, Thrown, Returned, OnError
    <2>2. CASE u # t
      BY <1>1, <1>2, <2>2
      DEF EvaluationStep, Admit, Refuse, MarkRead, MarkCompare, Compare, MarkSave, Evaluate, Save,
          SaveFailed, DropOutcome, RejectVerdict, Goto
    <2> QED BY <2>1, <2>2
  <1>3. ASSUME NEW p \in Posts,
               Receive(p) \/ CheckDuplicate(p) \/ Create(p) \/ CreateConflicts(p) \/ EnqueueRetry(p)
        PROVE  Kept
    BY <1>1, <1>3 DEF Receive, CheckDuplicate, Create, CreateConflicts, EnqueueRetry, Goto
  <1>4. ASSUME NEW r \in Revs,
               \/ RevisionCompare(r) \/ RevisionMark(r) \/ RevisionInsert(r)
               \/ RevisionSave(r) \/ RevisionFail(r)
               \/ \E s \in Posts : RevisionRead(r, s) \/ RevisionRefused(r, s)
        PROVE  Kept
    BY <1>1, <1>4 DEF RevisionCompare, Compare, RevisionMark, RevisionInsert, RevisionSave,
                      RevisionFail, RevisionRead, RevisionRefused, Goto
  <1>5. ASSUME NEW u \in Tasks, CallFails(u) PROVE Kept
    BY <1>1, <1>5 DEF CallFails, OnError, Thrown
  <1>6. ASSUME \/ \E s \in Posts : TakeJob(s) \/ DelayOver(s) \/ Stalled(s)
               \/ Unlink \/ UnlinkFails \/ Acknowledge \/ Crash \/ Quiescent \/ UNCHANGED vars
        PROVE  Kept
    BY <1>1, <1>6 DEF TakeJob, DelayOver, Stalled, Unlink, UnlinkFails, Acknowledge, Crash,
                      Quiescent, vars, Goto
  <1>7. sub'[t] \in Posts
    BY NextTyped DEF Typed, TypeOK, EvaluationTypeOK, Placed
  <1> QED BY <1>2, <1>3, <1>4, <1>5, <1>6, <1>7 DEF Next, PostStep, RevStep, WorkerStep

LEMMA MarkStep ==
  ASSUME Typed, MarkInv, [Next]_vars
  PROVE  MarkInv'
  <1> SUFFICES ASSUME NEW t \in Tasks, pc'[t] \in {"markSave", "revMark"},
                      "status" \notin columns'[t]
               PROVE  Begun(sub[t])'
    BY DEF MarkInv
  <1>1. /\ sub'[t] = sub[t] /\ sub[t] \in Posts
        /\ \/ pc[t] \in {"markSave", "revMark"} /\ columns'[t] = columns[t]
           \/ columns'[t] = Changed(sub[t], snap[t]) /\ UNCHANGED status
    BY ComparedStep
  <1>2. ASSUME Begun(sub[t]) PROVE Begun(sub[t])'
    <2>1. PICK s \in Posts : s = sub[t]
      BY <1>1
    <2>2. Begun(s)'
      BY <1>2, <2>1, BegunStays
    <2> QED BY <1>1, <2>1, <2>2 DEF Begun
  <1>3. CASE pc[t] \in {"markSave", "revMark"} /\ columns'[t] = columns[t]
    BY <1>2, <1>3 DEF MarkInv
  <1>4. CASE columns'[t] = Changed(sub[t], snap[t])
    <2>1. status[sub[t]] = "EVALUATING"
      BY <1>4 DEF Changed, Columns
    <2> QED BY <1>2, <2>1 DEF Begun
  <1> QED BY <1>1, <1>3, <1>4

LEMMA MarkAlways == Spec => []MarkInv
  <1>1. Init => MarkInv
    BY DEF Init, EvaluationInit, MarkInv
  <1> QED BY <1>1, MarkStep, TypeCorrect, PTL DEF Spec, Typed

-----------------------------------------------------------------------------
(* Whose results the rows, and the entities read from them, can hold       *)

PastEvaluation == {"enqueue", "revSave", "revFail"} \cup Over

\* The evaluation of s by t is over for good.
Concluded(t, s) ==
  /\ t \in Posts => t = s
  /\ t \in Revs => sub[t] = s
  /\ t \in Posts \cup Revs => pc[t] \in PastEvaluation
  /\ t = Worker => HasLog(s, "RETRY")

\* A row, and an entity that a task has read, holds results of concluded
\* evaluations only.
ContentInv ==
  /\ \A s \in Posts, t \in Tasks : result[s] = t => Concluded(t, s)
  /\ \A u \in Tasks, t \in Tasks : sub[u] \in Posts /\ snap[u] = t => Concluded(t, sub[u])
  /\ \A u \in Tasks : pc[u] \in {"idle", "checkDup", "create"} => snap[u] = NoContent

LEMMA PastStays ==
  ASSUME Typed, [Next]_vars, NEW t \in Posts \cup Revs, pc[t] \in PastEvaluation
  PROVE  pc'[t] \in PastEvaluation
  <1> USE TasksDisjoint DEF Tasks, PastEvaluation
  <1>1. pc \in [Tasks -> Pcs]
    BY DEF Typed, TypeOK, EvaluationTypeOK
  <1>2. ASSUME NEW u \in Tasks, EvaluationStep(u) PROVE pc'[t] = pc[t]
    BY <1>1, <1>2
    DEF EvaluationStep, Admit, Refuse, MarkRead, MarkCompare, Compare, MarkSave, Evaluate, Save,
        SaveFailed, RejectVerdict, Goto
  <1>3. ASSUME NEW p \in Posts,
               Receive(p) \/ CheckDuplicate(p) \/ Create(p) \/ CreateConflicts(p) \/ EnqueueRetry(p)
        PROVE  pc'[t] \in PastEvaluation
    BY <1>1, <1>3 DEF Receive, CheckDuplicate, Create, CreateConflicts, EnqueueRetry, Goto
  <1>4. ASSUME NEW r \in Revs,
               \/ RevisionCompare(r) \/ RevisionMark(r) \/ RevisionInsert(r)
               \/ RevisionSave(r) \/ RevisionFail(r)
               \/ \E s \in Posts : RevisionRead(r, s) \/ RevisionRefused(r, s)
        PROVE  pc'[t] \in PastEvaluation
    BY <1>1, <1>4 DEF RevisionCompare, Compare, RevisionMark, RevisionInsert, RevisionSave,
                      RevisionFail, RevisionRead, RevisionRefused, Goto
  <1>5. ASSUME NEW u \in Tasks, CallFails(u) PROVE pc'[t] \in PastEvaluation
    BY <1>1, <1>5 DEF CallFails, OnError, Thrown
  <1>6. ASSUME \/ \E s \in Posts : TakeJob(s) \/ DelayOver(s) \/ Stalled(s)
               \/ Unlink \/ UnlinkFails \/ Acknowledge \/ Crash \/ Quiescent \/ UNCHANGED vars
        PROVE  pc'[t] \in PastEvaluation
    BY <1>1, <1>6 DEF TakeJob, DelayOver, Stalled, Unlink, UnlinkFails, Acknowledge, Crash,
                      Quiescent, vars, Goto
  <1> QED BY <1>2, <1>3, <1>4, <1>5, <1>6 DEF Next, PostStep, RevStep, WorkerStep

LEMMA ConcludedStays ==
  ASSUME Typed, [Next]_vars, NEW t \in Tasks, NEW s \in Posts, Concluded(t, s)
  PROVE  Concluded(t, s)'
  <1> USE TasksDisjoint DEF Tasks
  <1>1. t \in Posts \cup Revs => pc'[t] \in PastEvaluation
    BY PastStays DEF Concluded
  <1>2. t \in Revs => sub'[t] = s
    <2>1. t \in Revs => pc[t] # "idle"
      BY DEF Concluded, PastEvaluation
    <2> QED BY <2>1, RevisionStays DEF Concluded
  <1>3. HasLog(s, "RETRY") => HasLog(s, "RETRY")'
    <2>1. logs[s] \in Seq(LogRow)
      BY DEF Typed, TypeOK, StoreTypeOK
    <2>2. CASE logs'[s] = logs[s]
      BY <2>2 DEF HasLog
    <2>3. ASSUME NEW e \in LogRow, logs'[s] = Append(logs[s], e), HasLog(s, "RETRY")
          PROVE  HasLog(s, "RETRY")'
      <3>1. PICK i \in DOMAIN logs[s] : logs[s][i].action = "RETRY"
        BY <2>3 DEF HasLog
      <3>2. i \in DOMAIN logs'[s] /\ logs'[s][i] = logs[s][i]
        BY <2>1, <2>3
      <3> QED BY <3>1, <3>2 DEF HasLog
    <2> QED BY <2>2, <2>3, StepLogs DEF Logged
  <1> QED BY <1>1, <1>2, <1>3 DEF Concluded

\* An entity is read from the row of the task's submission, and dropped with
\* the call that read it.
LEMMA SnapStep ==
  ASSUME Typed, [Next]_vars, NEW u \in Tasks
  PROVE  \/ snap'[u] = NoContent
         \/ snap'[u] = snap[u] /\ sub'[u] = sub[u]
         \/ snap'[u] = snap[u] /\ pc[u] \in {"idle", "create"}
         \/ sub'[u] \in Posts /\ snap'[u] = result[sub'[u]]
  <1> USE TasksDisjoint DEF Tasks
  <1>1. /\ pc \in [Tasks -> Pcs] /\ sub \in [Tasks -> Posts \cup {NoSub}]
        /\ snap \in [Tasks -> Content]
    BY DEF Typed, TypeOK, EvaluationTypeOK
  <1> DEFINE Held == \/ snap'[u] = NoContent
                     \/ snap'[u] = snap[u] /\ sub'[u] = sub[u]
                     \/ snap'[u] = snap[u] /\ pc[u] \in {"idle", "create"}
                     \/ sub'[u] \in Posts /\ snap'[u] = result[sub'[u]]
  <1>2. ASSUME NEW t \in Tasks, EvaluationStep(t) PROVE Held
    <2>1. pc[t] \in EvalPcs => sub[t] \in Posts
      BY <1>1 DEF Typed, Placed
    <2> QED BY <1>1, <1>2, <2>1
      DEF EvaluationStep, Admit, Refuse, MarkRead, MarkCompare, Compare, MarkSave, Evaluate, Save,
          SaveFailed, DropOutcome, RejectVerdict, Goto
  <1>3. ASSUME NEW p \in Posts,
               Receive(p) \/ CheckDuplicate(p) \/ Create(p) \/ CreateConflicts(p) \/ EnqueueRetry(p)
        PROVE  Held
    BY <1>1, <1>3 DEF Receive, CheckDuplicate, Create, CreateConflicts, EnqueueRetry, Goto
  <1>4. ASSUME NEW r \in Revs,
               \/ RevisionCompare(r) \/ RevisionMark(r) \/ RevisionInsert(r)
               \/ RevisionSave(r) \/ RevisionFail(r)
               \/ \E s \in Posts : RevisionRead(r, s) \/ RevisionRefused(r, s)
        PROVE  Held
    BY <1>1, <1>4 DEF RevisionCompare, Compare, RevisionMark, RevisionInsert, RevisionSave,
                      RevisionFail, RevisionRead, RevisionRefused, Goto
  <1>5. ASSUME NEW t \in Tasks, CallFails(t) PROVE Held
    BY <1>5 DEF CallFails
  <1>6. ASSUME \/ \E s \in Posts : TakeJob(s) \/ DelayOver(s) \/ Stalled(s)
               \/ Unlink \/ UnlinkFails \/ Acknowledge \/ Crash \/ Quiescent \/ UNCHANGED vars
        PROVE  Held
    BY <1>1, <1>6 DEF TakeJob, DelayOver, Stalled, Unlink, UnlinkFails, Acknowledge, Crash,
                      Quiescent, vars, Goto
  <1> QED BY <1>2, <1>3, <1>4, <1>5, <1>6 DEF Next, PostStep, RevStep, WorkerStep

\* A task is at the start of its handler without an entity.
LEMMA StartStep ==
  ASSUME Typed, [Next]_vars, NEW u \in Tasks, pc'[u] \in {"idle", "checkDup", "create"}
  PROVE  \/ snap'[u] = NoContent
         \/ snap'[u] = snap[u] /\ pc[u] \in {"idle", "checkDup", "create"}
  <1> USE TasksDisjoint DEF Tasks
  <1>1. /\ pc \in [Tasks -> Pcs] /\ sub \in [Tasks -> Posts \cup {NoSub}]
        /\ snap \in [Tasks -> Content]
    BY DEF Typed, TypeOK, EvaluationTypeOK
  <1> DEFINE Start == \/ snap'[u] = NoContent
                      \/ snap'[u] = snap[u] /\ pc[u] \in {"idle", "checkDup", "create"}
  <1>2. ASSUME NEW t \in Tasks, EvaluationStep(t) PROVE Start
    <2>1. CASE t = u
      BY <1>1, <1>2, <2>1
      DEF EvaluationStep, Admit, Refuse, MarkRead, MarkCompare, Compare, MarkSave, Evaluate, Save,
          SaveFailed, RejectVerdict, Goto, Thrown, Returned, OnError
    <2>2. CASE t # u
      BY <1>1, <1>2, <2>2
      DEF EvaluationStep, Admit, Refuse, MarkRead, MarkCompare, Compare, MarkSave, Evaluate, Save,
          SaveFailed, DropOutcome, RejectVerdict, Goto
    <2> QED BY <2>1, <2>2
  <1>3. ASSUME NEW p \in Posts,
               Receive(p) \/ CheckDuplicate(p) \/ Create(p) \/ CreateConflicts(p) \/ EnqueueRetry(p)
        PROVE  Start
    BY <1>1, <1>3 DEF Receive, CheckDuplicate, Create, CreateConflicts, EnqueueRetry, Goto
  <1>4. ASSUME NEW r \in Revs,
               \/ RevisionCompare(r) \/ RevisionMark(r) \/ RevisionInsert(r)
               \/ RevisionSave(r) \/ RevisionFail(r)
               \/ \E s \in Posts : RevisionRead(r, s) \/ RevisionRefused(r, s)
        PROVE  Start
    BY <1>1, <1>4 DEF RevisionCompare, Compare, RevisionMark, RevisionInsert, RevisionSave,
                      RevisionFail, RevisionRead, RevisionRefused, Goto
  <1>5. ASSUME NEW t \in Tasks, CallFails(t) PROVE Start
    BY <1>1, <1>5 DEF CallFails, OnError, Thrown
  <1>6. ASSUME \/ \E s \in Posts : TakeJob(s) \/ DelayOver(s) \/ Stalled(s)
               \/ Unlink \/ UnlinkFails \/ Acknowledge \/ Crash \/ Quiescent \/ UNCHANGED vars
        PROVE  Start
    BY <1>1, <1>6 DEF TakeJob, DelayOver, Stalled, Unlink, UnlinkFails, Acknowledge, Crash,
                      Quiescent, vars, Goto
  <1> QED BY <1>2, <1>3, <1>4, <1>5, <1>6 DEF Next, PostStep, RevStep, WorkerStep

\* A task whose result is saved has concluded its evaluation.
LEMMA SaveConcludes ==
  ASSUME Typed, NEW t \in Tasks, NEW s \in Posts, Writes(t, s), Save(t) \/ SaveFailed(t)
  PROVE  Concluded(t, s)'
  <1> USE TasksDisjoint DEF Tasks
  <1>1. /\ pc \in [Tasks -> Pcs] /\ logs[s] \in Seq(LogRow)
        /\ pc[t] \in EvalPcs /\ sub' = sub /\ sub[t] = s
    BY DEF Typed, TypeOK, StoreTypeOK, EvaluationTypeOK, Save, SaveFailed, Goto, DropOutcome, Writes
  <1>2. t \in Posts => t = s
    BY <1>1 DEF Typed, Placed
  <1>3. t \in Posts \cup Revs => pc'[t] \in PastEvaluation
    BY <1>1 DEF Save, SaveFailed, Goto, Returned, Thrown, PastEvaluation
  <1>4. ASSUME t = Worker PROVE HasLog(s, "RETRY")'
    <2>1. PICK st \in {"SUCCESS", "FAILED"} :
            /\ Log("RETRY", st) \in LogRow /\ Log("RETRY", st).action = "RETRY"
            /\ logs'[s] = Append(logs[s], Log("RETRY", st))
      BY <1>1, <1>4, WrittenRow
         DEF Save, SaveFailed, MarkSave, RevisionMark, Goto, ActionOf, Log, LogRow, Actions, Statuses
    <2>2. /\ Len(logs[s]) + 1 \in DOMAIN logs'[s]
          /\ logs'[s][Len(logs[s]) + 1] = Log("RETRY", st)
      BY <1>1, <2>1
    <2> QED BY <2>1, <2>2 DEF HasLog
  <1> QED BY <1>1, <1>2, <1>3, <1>4 DEF Concluded

LEMMA ContentStep ==
  ASSUME Typed, ContentInv, [Next]_vars
  PROVE  ContentInv'
  <1> USE ContentAssumption
  <1>1. ASSUME NEW s \in Posts, NEW t \in Tasks, result'[s] = t PROVE Concluded(t, s)'
    <2>1. ASSUME result[s] = t PROVE Concluded(t, s)'
      BY <2>1, ConcludedStays DEF ContentInv
    <2>2. ASSUME NEW u \in Tasks, Writes(u, s) PROVE Concluded(t, s)'
      <3>1. CASE Save(u) \/ SaveFailed(u)
        <4>1. t = u
          BY <1>1, <2>2, <3>1, WrittenRow
             DEF Save, SaveFailed, MarkSave, RevisionMark, Goto, Outcome
        <4> QED BY <2>2, <3>1, <4>1, SaveConcludes
      <3>2. CASE result'[s] = snap[u]
        <4>1. sub[u] = s
          BY <2>2 DEF Writes
        <4>2. Concluded(t, s)
          BY <1>1, <3>2, <4>1 DEF ContentInv
        <4> QED BY <4>2, ConcludedStays
      <3> QED BY <1>1, <2>1, <2>2, <3>1, <3>2, WrittenRow
    <2>3. Create(s) => result'[s] = result[s]
      BY DEF Create, CreatePending
    <2> QED BY <1>1, <2>1, <2>2, <2>3, RowStep DEF Unmoved
  <1>2. ASSUME NEW u \in Tasks, NEW t \in Tasks, sub'[u] \in Posts, snap'[u] = t
        PROVE  Concluded(t, sub[u])'
    <2>1. PICK s \in Posts : s = sub'[u]
      BY <1>2
    <2>2. \/ snap[u] = t /\ sub[u] = s
          \/ snap[u] = t /\ pc[u] \in {"idle", "create"}
          \/ result[s] = t
      BY <1>2, <2>1, SnapStep
    <2>3. Concluded(t, s)
      BY <2>2 DEF ContentInv
    <2>4. Concluded(t, s)'
      BY <2>3, ConcludedStays
    <2> QED BY <2>1, <2>4 DEF Concluded, HasLog
  <1>3. ASSUME NEW u \in Tasks, pc'[u] \in {"idle", "checkDup", "create"}
        PROVE  snap'[u] = NoContent
    BY <1>3, StartStep DEF ContentInv
  <1> QED BY <1>1, <1>2, <1>3 DEF ContentInv

LEMMA ContentAlways == Spec => []ContentInv
  <1>1. Init => ContentInv
    BY ContentAssumption DEF Init, EvaluationInit, StoreInit, NoLocals, ContentInv
  <1> QED BY <1>1, ContentStep, TypeCorrect, PTL DEF Spec, Typed

ShownIsClosed == \A s \in Posts, t \in Tasks : result[s] = t => ~Owns(t, s)

\* A concluded evaluation is not open: the consumer opens none for a
\* submission that has a RETRY log.
LEMMA ConcludedIsClosed == RetryInv /\ ContentInv => ShownIsClosed
  <1> SUFFICES ASSUME RetryInv, ContentInv, NEW s \in Posts, NEW t \in Tasks, result[s] = t
               PROVE  ~Owns(t, s)
    BY DEF ShownIsClosed
  <1>1. Concluded(t, s)
    BY DEF ContentInv
  <1> QED BY <1>1, TasksDisjoint DEF Concluded, PastEvaluation, Owns, RetryInv, Evaluating, Tasks

-----------------------------------------------------------------------------
(* The ledger's actions over the variables of the service                  *)

\* What a step does to the row of one submission only.
OnlyRow(s, st) ==
  /\ status' = [status EXCEPT ![s] = st]
  /\ \A q \in Posts : q # s => result'[q] = result[q]

\* What the ledger sees of the result columns.
Shown(q) == IF status[q] = "SUCCESS" /\ result[q] \in Tasks THEN result[q] ELSE NoContent

\* A function that changes at one argument only.
LEMMA OneEntry ==
  ASSUME NEW S, NEW f, NEW g, NEW s \in S, NEW v,
         f = [x \in S |-> f[x]], g = [x \in S |-> g[x]],
         g[s] = v, \A x \in S : x # s => g[x] = f[x]
  PROVE  g = [f EXCEPT ![s] = v]
  OBVIOUS

LEMMA RegisterMaps ==
  ASSUME status \in [Posts -> Statuses \cup {"none"}],
         NEW s \in Posts, OnlyRow(s, "PENDING"), status[s] = "none",
         \A u \in Tasks, q \in Posts : Owns(u, q)' <=> Owns(u, q)
  PROVE  Ledger!Register(s)
  <1>1. \A q \in Posts : {u \in Tasks : Owns(u, q)}' = {u \in Tasks : Owns(u, q)}
    OBVIOUS
  <1>2. \A q \in Posts : Shown(q)' = Shown(q)
    BY DEF OnlyRow, Shown
  <1> QED BY <1>1, <1>2 DEF OnlyRow, Shown, Ledger!Register

LEMMA BeginMaps ==
  ASSUME status \in [Posts -> Statuses \cup {"none"}],
         NEW t \in Tasks, NEW s \in Posts, OnlyRow(s, "EVALUATING"), status[s] # "none",
         \A u \in Tasks, q \in Posts :
           Owns(u, q)' <=> (Owns(u, q) \/ (u = t /\ q = s))
  PROVE  Ledger!Begin(t, s)
  <1>1. \A q \in Posts : {u \in Tasks : Owns(u, q)}' =
          IF q = s THEN {u \in Tasks : Owns(u, q)} \cup {t} ELSE {u \in Tasks : Owns(u, q)}
    OBVIOUS
  <1>2. \A q \in Posts : Shown(q)' = IF q = s THEN NoContent ELSE Shown(q)
    BY DEF OnlyRow, Shown
  <1> DEFINE open == [q \in Posts |-> {u \in Tasks : Owns(u, q)}]
             shown == [q \in Posts |-> Shown(q)]
  <1>3. open' = [open EXCEPT ![s] = @ \cup {t}]
    <2>1. open'[s] = open[s] \cup {t} /\ \A q \in Posts : q # s => open'[q] = open[q]
      BY <1>1
    <2>2. open = [q \in Posts |-> open[q]] /\ open' = [q \in Posts |-> open'[q]]
      OBVIOUS
    <2> HIDE DEF open
    <2> QED BY <2>1, <2>2, OneEntry
  <1>4. shown' = [shown EXCEPT ![s] = NoContent]
    BY <1>2
  <1>6. status' = [status EXCEPT ![s] = "EVALUATING"]
    BY DEF OnlyRow
  <1> QED BY <1>3, <1>4, <1>6 DEF Shown, Ledger!Begin

LEMMA BeginUnseenMaps ==
  ASSUME NEW t \in Tasks, NEW s \in Posts,
         UNCHANGED status, status[s] \in {"SUCCESS", "FAILED"},
         \A q \in Posts : q # s => result'[q] = result[q],
         \A u \in Tasks, q \in Posts :
           Owns(u, q)' <=> (Owns(u, q) \/ (u = t /\ q = s)),
         \A u \in Tasks : result'[s] = u => ~Owns(u, s)'
  PROVE  Ledger!BeginUnseen(t, s)
  <1>1. \A q \in Posts : {u \in Tasks : Owns(u, q)}' =
          IF q = s THEN {u \in Tasks : Owns(u, q)} \cup {t} ELSE {u \in Tasks : Owns(u, q)}
    OBVIOUS
  <1>2. \A q \in Posts : q # s => Shown(q)' = Shown(q)
    BY DEF Shown
  <1> DEFINE open == [q \in Posts |-> {u \in Tasks : Owns(u, q)}]
             shown == [q \in Posts |-> Shown(q)]
  <1>3. open' = [open EXCEPT ![s] = @ \cup {t}]
    <2>1. open'[s] = open[s] \cup {t} /\ \A q \in Posts : q # s => open'[q] = open[q]
      BY <1>1
    <2>2. open = [q \in Posts |-> open[q]] /\ open' = [q \in Posts |-> open'[q]]
      OBVIOUS
    <2> HIDE DEF open
    <2> QED BY <2>1, <2>2, OneEntry
  <1>4. shown' = [shown EXCEPT ![s] = Shown(s)']
    BY <1>2
  <1>5. Shown(s)' \in IF status[s] = "SUCCESS" THEN (Tasks \ open'[s]) \cup {NoContent}
                      ELSE {NoContent}
    BY DEF Shown
  <1> QED BY <1>3, <1>4, <1>5 DEF Shown, Ledger!BeginUnseen

LEMMA SucceedMaps ==
  ASSUME status \in [Posts -> Statuses \cup {"none"}],
         NEW t \in Tasks, NEW s \in Posts, OnlyRow(s, "SUCCESS"), result'[s] = t, Owns(t, s),
         \A u \in Tasks, q \in Posts :
           Owns(u, q)' <=> (Owns(u, q) /\ ~(u = t /\ q = s))
  PROVE  Ledger!Succeed(t, s)
  <1>1. \A q \in Posts : {u \in Tasks : Owns(u, q)}' =
          IF q = s THEN {u \in Tasks : Owns(u, q)} \ {t} ELSE {u \in Tasks : Owns(u, q)}
    OBVIOUS
  <1>2. \A q \in Posts : Shown(q)' = IF q = s THEN t ELSE Shown(q)
    BY DEF OnlyRow, Shown
  <1> DEFINE open == [q \in Posts |-> {u \in Tasks : Owns(u, q)}]
             shown == [q \in Posts |-> Shown(q)]
  <1>3. open' = [open EXCEPT ![s] = @ \ {t}]
    <2>1. open'[s] = open[s] \ {t} /\ \A q \in Posts : q # s => open'[q] = open[q]
      BY <1>1
    <2>2. open = [q \in Posts |-> open[q]] /\ open' = [q \in Posts |-> open'[q]]
      OBVIOUS
    <2> HIDE DEF open
    <2> QED BY <2>1, <2>2, OneEntry
  <1>4. shown' = [shown EXCEPT ![s] = t]
    BY <1>2
  <1>5. t \in open[s]
    OBVIOUS
  <1>6. status' = [status EXCEPT ![s] = "SUCCESS"]
    BY DEF OnlyRow
  <1> QED BY <1>3, <1>4, <1>5, <1>6 DEF Shown, Ledger!Succeed

LEMMA FailMaps ==
  ASSUME status \in [Posts -> Statuses \cup {"none"}],
         NEW t \in Tasks, NEW s \in Posts, OnlyRow(s, "FAILED"), Owns(t, s),
         \A u \in Tasks, q \in Posts :
           Owns(u, q)' <=> (Owns(u, q) /\ ~(u = t /\ q = s))
  PROVE  Ledger!Fail(t, s)
  <1>1. \A q \in Posts : {u \in Tasks : Owns(u, q)}' =
          IF q = s THEN {u \in Tasks : Owns(u, q)} \ {t} ELSE {u \in Tasks : Owns(u, q)}
    OBVIOUS
  <1>2. \A q \in Posts : Shown(q)' = IF q = s THEN NoContent ELSE Shown(q)
    BY DEF OnlyRow, Shown
  <1> DEFINE open == [q \in Posts |-> {u \in Tasks : Owns(u, q)}]
             shown == [q \in Posts |-> Shown(q)]
  <1>3. open' = [open EXCEPT ![s] = @ \ {t}]
    <2>1. open'[s] = open[s] \ {t} /\ \A q \in Posts : q # s => open'[q] = open[q]
      BY <1>1
    <2>2. open = [q \in Posts |-> open[q]] /\ open' = [q \in Posts |-> open'[q]]
      OBVIOUS
    <2> HIDE DEF open
    <2> QED BY <2>1, <2>2, OneEntry
  <1>4. shown' = [shown EXCEPT ![s] = NoContent]
    BY <1>2
  <1>5. t \in open[s]
    OBVIOUS
  <1>6. status' = [status EXCEPT ![s] = "FAILED"]
    BY DEF OnlyRow
  <1> QED BY <1>3, <1>4, <1>5, <1>6 DEF Shown, Ledger!Fail

LEMMA AbandonMaps ==
  ASSUME UNCHANGED <<status, result>>, NEW lost \in SUBSET Tasks,
         \A u \in Tasks, q \in Posts : Owns(u, q)' <=> (Owns(u, q) /\ u \notin lost)
  PROVE  Ledger!Abandon(lost)
  <1>1. \A q \in Posts : {u \in Tasks : Owns(u, q)}' = {u \in Tasks : Owns(u, q)} \ lost
    OBVIOUS
  <1> QED BY <1>1 DEF Shown, Ledger!Abandon

-----------------------------------------------------------------------------
(* Every step of the service is a step of the ledger                       *)

\* A step of task t does not change what the other tasks own.
LEMMA OthersOwn ==
  ASSUME pc \in [Tasks -> Pcs], NEW t \in Tasks, NEW u \in Tasks, u # t, NEW q,
         pc'[u] = pc[u], sub'[u] = sub[u]
  PROVE  Owns(u, q)' <=> Owns(u, q)
  BY DEF Owns

\* The steps of evaluateSubmission that write no row.
LEMMA QuietEvaluationMaps ==
  ASSUME Typed, NEW t \in Tasks,
         Admit(t) \/ Refuse(t) \/ MarkRead(t) \/ MarkCompare(t) \/ Evaluate(t) \/ RejectVerdict(t)
  PROVE  \E lost \in SUBSET Tasks : Ledger!Abandon(lost)
  <1> USE TasksDisjoint DEF Tasks
  <1>1. pc \in [Tasks -> Pcs] /\ pc[t] \in EvalPcs
    BY DEF Typed, TypeOK, EvaluationTypeOK, Admit, Refuse, MarkRead, MarkCompare, Compare, Evaluate,
           RejectVerdict, Goto
  <1>2. UNCHANGED <<status, result, sub>> /\ \A u \in Tasks : u # t => pc'[u] = pc[u]
    BY <1>1 DEF Admit, Refuse, MarkRead, MarkCompare, Compare, Evaluate, RejectVerdict, Goto
  <1> DEFINE lost == IF pc'[t] \in {"threw", "revFail", "unlinkErr"} THEN {t} ELSE {}
  <1>3. \A q \in Posts : Owns(t, q)' <=> (Owns(t, q) /\ t \notin lost)
    BY <1>1, <1>2 DEF Owns, Admit, Admissible, Refuse, Thrown, MarkRead, MarkCompare, Compare,
                      Evaluate, RejectVerdict, OnError, Goto
  <1>4. \A u \in Tasks, q \in Posts : Owns(u, q)' <=> (Owns(u, q) /\ u \notin lost)
    BY <1>1, <1>2, <1>3, OthersOwn
  <1> HIDE DEF lost
  <1>5. lost \in SUBSET Tasks
    BY DEF lost
  <1> QED BY <1>2, <1>4, <1>5, AbandonMaps

\* The invariant the refinement rests on.
LedgerInv == Typed /\ RetryInv /\ MarkInv /\ ContentInv

\* Marking begins an evaluation, unseen if save() leaves the status alone.
LEMMA MarkMaps ==
  ASSUME LedgerInv, LedgerInv', NEW t \in Tasks, NEW s \in Posts, Writes(t, s),
         MarkSave(t) \/ (t \in Revs /\ RevisionMark(t)),
         \A q \in Posts : q # s => status'[q] = status[q] /\ result'[q] = result[q],
         \A u \in Tasks, q \in Posts :
           Owns(u, q)' <=> (Owns(u, q) \/ (u = t /\ q = s))
  PROVE  Ledger!Begin(t, s) \/ Ledger!BeginUnseen(t, s)
  <1> USE DEF LedgerInv
  <1>1. /\ status \in [Posts -> Statuses \cup {"none"}]
        /\ status' \in [Posts -> Statuses \cup {"none"}]
    BY DEF Typed, TypeOK, StoreTypeOK
  <1>2. sub[t] = s /\ pc[t] \in {"markSave", "revMark"} /\ status[s] # "none"
    BY TasksDisjoint DEF Writes, MarkSave, RevisionMark, Goto, Typed, Placed, Exists
  <1>3. status'[s] = IF "status" \in columns[t] THEN "EVALUATING" ELSE status[s]
    BY <1>2, WrittenRow DEF Save, SaveFailed, Goto
  <1>4. CASE status'[s] = "EVALUATING"
    <2>1. OnlyRow(s, "EVALUATING")
      BY <1>1, <1>4 DEF OnlyRow
    <2> QED BY <1>1, <1>2, <2>1, BeginMaps
  <1>5. CASE status'[s] # "EVALUATING"
    <2>1. UNCHANGED status
      BY <1>1, <1>3, <1>5
    <2>2. status[s] \in {"SUCCESS", "FAILED"}
      BY <1>1, <1>2, <1>3, <1>5 DEF MarkInv, Begun, Statuses
    <2>3. \A u \in Tasks : result'[s] = u => ~Owns(u, s)'
      <3>1. ShownIsClosed'
        BY ConcludedIsClosed, PTL
      <3> QED BY <3>1 DEF ShownIsClosed
    <2> QED BY <2>1, <2>2, <2>3, BeginUnseenMaps
  <1> QED BY <1>4, <1>5

\* The steps of evaluateSubmission that write the row: a mark begins, saving
\* concludes an evaluation.
LEMMA WritingEvaluationMaps ==
  ASSUME LedgerInv, LedgerInv', NEW t \in Tasks, MarkSave(t) \/ Save(t) \/ SaveFailed(t)
  PROVE  \E s \in Posts : \/ Ledger!Begin(t, s) \/ Ledger!BeginUnseen(t, s)
                          \/ Ledger!Succeed(t, s) \/ Ledger!Fail(t, s)
  <1> USE TasksDisjoint DEF Tasks, LedgerInv
  <1>1. /\ pc \in [Tasks -> Pcs] /\ pc[t] \in EvalPcs /\ result \in [Posts -> Content]
        /\ status \in [Posts -> Statuses \cup {"none"}]
    BY DEF Typed, TypeOK, StoreTypeOK, EvaluationTypeOK, MarkSave, Save, SaveFailed, Goto
  <1> DEFINE s == sub[t]
  <1>2. s \in Posts /\ status[s] # "none"
    BY <1>1 DEF Typed, TypeOK, EvaluationTypeOK, Placed, Exists
  <1>3. sub' = sub /\ \A u \in Tasks : u # t => pc'[u] = pc[u]
    BY <1>1 DEF MarkSave, Save, SaveFailed, DropOutcome, Goto
  <1>4. CASE MarkSave(t)
    <2>1. /\ Writes(t, s)
          /\ \A q \in Posts : q # s => status'[q] = status[q] /\ result'[q] = result[q]
      BY <1>1, <1>2, <1>4 DEF Writes, MarkSave, MarkEvaluating, SaveEvaluating
    <2>2. \A q \in Posts : Owns(t, q)' <=> (Owns(t, q) \/ (t = t /\ q = s))
      BY <1>1, <1>3, <1>4 DEF Owns, MarkSave, Goto
    <2>3. \A u \in Tasks, q \in Posts : Owns(u, q)' <=> (Owns(u, q) \/ (u = t /\ q = s))
      BY <1>1, <1>3, <2>2, OthersOwn
    <2> HIDE DEF s
    <2> QED BY <1>2, <1>4, <2>1, <2>3, MarkMaps
  <1>5. CASE Save(t) \/ SaveFailed(t)
    <2>1. Owns(t, s) /\ \A q \in Posts : Owns(t, q)' <=> (Owns(t, q) /\ ~(t = t /\ q = s))
      BY <1>1, <1>3, <1>5 DEF Owns, Save, SaveFailed, Goto, Returned, Thrown
    <2>2. \A u \in Tasks, q \in Posts : Owns(u, q)' <=> (Owns(u, q) /\ ~(u = t /\ q = s))
      BY <1>1, <1>3, <2>1, OthersOwn
    <2>3. CASE Save(t)
      <3>1. OnlyRow(s, "SUCCESS") /\ result'[s] = t
        BY <1>1, <1>2, <2>3 DEF Save, SaveSubmissionResult, Outcome, OnlyRow
      <3> HIDE DEF s
      <3> QED BY <1>1, <1>2, <2>1, <2>2, <3>1, SucceedMaps
    <2>4. CASE SaveFailed(t)
      <3>1. OnlyRow(s, "FAILED")
        BY <1>1, <1>2, <2>4 DEF SaveFailed, SaveSubmissionResult, OnlyRow
      <3> HIDE DEF s
      <3> QED BY <1>1, <1>2, <2>1, <2>2, <3>1, FailMaps
    <2> QED BY <1>5, <2>3, <2>4
  <1> QED BY <1>4, <1>5

Quiet == \E lost \in SUBSET Tasks : Ledger!Abandon(lost)

\* A step that moves no task in or out of an evaluation changes nothing.
LEMMA IdleMaps ==
  ASSUME UNCHANGED <<status, result>>,
         \A u \in Tasks, q \in Posts : Owns(u, q)' <=> Owns(u, q)
  PROVE  Quiet
  <1>1. \A u \in Tasks, q \in Posts : Owns(u, q)' <=> (Owns(u, q) /\ u \notin {})
    OBVIOUS
  <1>2. {} \in SUBSET Tasks
    OBVIOUS
  <1>3. Ledger!Abandon({})
    BY <1>1, <1>2, AbandonMaps
  <1> QED BY <1>2, <1>3 DEF Quiet

LEMMA PostStepMaps ==
  ASSUME Typed, NEW p \in Posts,
         Receive(p) \/ CheckDuplicate(p) \/ Create(p) \/ CreateConflicts(p) \/ EnqueueRetry(p)
  PROVE  Ledger!Register(p) \/ Quiet
  <1> USE TasksDisjoint DEF Tasks
  <1>1. /\ pc \in [Tasks -> Pcs] /\ sub \in [Tasks -> Posts \cup {NoSub}]
        /\ status \in [Posts -> Statuses \cup {"none"}]
    BY DEF Typed, TypeOK, StoreTypeOK, EvaluationTypeOK
  <1>2. \A u \in Tasks : u # p => pc'[u] = pc[u] /\ sub'[u] = sub[u]
    BY <1>1 DEF Receive, CheckDuplicate, Create, CreateConflicts, EnqueueRetry, Goto
  <1>3. \A q \in Posts : Owns(p, q)' <=> Owns(p, q)
    BY <1>1 DEF Owns, Receive, CheckDuplicate, Create, CreateConflicts, EnqueueRetry, Goto
  <1>4. \A u \in Tasks, q \in Posts : Owns(u, q)' <=> Owns(u, q)
    BY <1>1, <1>2, <1>3, OthersOwn
  <1>5. CASE Create(p)
    <2>1. OnlyRow(p, "PENDING") /\ status[p] = "none"
      BY <1>1, <1>5 DEF Create, CreatePending, UniqueIndexAllows, Exists, OnlyRow
    <2> QED BY <1>1, <1>4, <2>1, RegisterMaps
  <1>6. CASE ~Create(p)
    <2>1. UNCHANGED <<status, result>>
      BY <1>6 DEF Receive, CheckDuplicate, CreateConflicts, EnqueueRetry
    <2> QED BY <1>4, <2>1, IdleMaps
  <1> QED BY <1>5, <1>6

LEMMA RevStepMaps ==
  ASSUME LedgerInv, LedgerInv', NEW r \in Revs,
         \/ RevisionCompare(r) \/ RevisionMark(r) \/ RevisionInsert(r)
         \/ RevisionSave(r) \/ RevisionFail(r)
         \/ \E s \in Posts : RevisionRead(r, s) \/ RevisionRefused(r, s)
  PROVE  (\E s \in Posts : Ledger!Begin(r, s) \/ Ledger!BeginUnseen(r, s)) \/ Quiet
  <1> USE TasksDisjoint DEF Tasks, LedgerInv
  <1>1. /\ pc \in [Tasks -> Pcs] /\ sub \in [Tasks -> Posts \cup {NoSub}]
        /\ status \in [Posts -> Statuses \cup {"none"}] /\ result \in [Posts -> Content]
    BY DEF Typed, TypeOK, StoreTypeOK, EvaluationTypeOK
  <1>2. \A u \in Tasks : u # r => pc'[u] = pc[u] /\ sub'[u] = sub[u]
    BY <1>1 DEF RevisionCompare, Compare, RevisionMark, RevisionInsert, RevisionSave, RevisionFail,
                RevisionRead, RevisionRefused, Goto
  <1>3. CASE RevisionMark(r)
    <2> DEFINE s == sub[r]
    <2>1. s \in Posts /\ status[s] # "none" /\ sub' = sub
      BY <1>1, <1>3 DEF Typed, Placed, Exists, RevisionMark, Goto
    <2>2. /\ Writes(r, s)
          /\ \A q \in Posts : q # s => status'[q] = status[q] /\ result'[q] = result[q]
      BY <1>1, <1>3, <2>1 DEF Writes, RevisionMark, MarkRevision, SaveEvaluating
    <2>3. \A q \in Posts : Owns(r, q)' <=> (Owns(r, q) \/ (r = r /\ q = s))
      BY <1>1, <1>3, <2>1 DEF Owns, RevisionMark, Goto
    <2>4. \A u \in Tasks, q \in Posts : Owns(u, q)' <=> (Owns(u, q) \/ (u = r /\ q = s))
      BY <1>1, <1>2, <2>3, OthersOwn
    <2> HIDE DEF s
    <2> QED BY <1>3, <2>1, <2>2, <2>4, MarkMaps
  <1>4. CASE ~RevisionMark(r)
    <2>1. UNCHANGED <<status, result>>
      BY <1>4 DEF RevisionCompare, Compare, RevisionInsert, InsertRevision, RevisionSave,
                  SaveRevisionResult, RevisionFail, FailRevision, RevisionRead, RevisionRefused
    <2>2. \A q \in Posts : Owns(r, q)' <=> Owns(r, q)
      BY <1>1, <1>4 DEF Owns, RevisionCompare, Compare, RevisionInsert, RevisionSave,
                        RevisionFail, RevisionRead, RevisionRefused, Goto
    <2>3. \A u \in Tasks, q \in Posts : Owns(u, q)' <=> Owns(u, q)
      BY <1>1, <1>2, <2>2, OthersOwn
    <2> QED BY <2>1, <2>3, IdleMaps
  <1> QED BY <1>3, <1>4

LEMMA EnvironmentMaps ==
  ASSUME Typed,
         \/ (\E t \in Tasks : CallFails(t)) \/ Crash \/ Quiescent \/ UNCHANGED vars
         \/ Unlink \/ UnlinkFails \/ Acknowledge
         \/ \E s \in Posts : TakeJob(s) \/ DelayOver(s) \/ Stalled(s)
  PROVE  Quiet
  <1> USE TasksDisjoint DEF Tasks
  <1>1. /\ pc \in [Tasks -> Pcs] /\ sub \in [Tasks -> Posts \cup {NoSub}]
        /\ pc[Worker] \in WorkerPcs \cup EvalPcs \cup {"idle"}
    BY DEF Typed, TypeOK, EvaluationTypeOK, Placed
  <1>2. UNCHANGED <<status, result>>
    BY DEF CallFails, Crash, Quiescent, vars, Unlink, UnlinkFails, Acknowledge, TakeJob, DelayOver,
           Stalled
  <1>3. ASSUME NEW t \in Tasks, CallFails(t) PROVE Quiet
    <2> DEFINE lost == IF pc'[t] = "saveFailed" THEN {} ELSE {t}
    <2>1. sub' = sub /\ \A u \in Tasks : u # t => pc'[u] = pc[u]
      BY <1>1, <1>3 DEF CallFails
    <2>2. \A q \in Posts : Owns(t, q)' <=> (Owns(t, q) /\ t \notin lost)
      BY <1>1, <1>3, <2>1 DEF Owns, CallFails, OnError, Thrown
    <2>3. \A u \in Tasks, q \in Posts : Owns(u, q)' <=> (Owns(u, q) /\ u \notin lost)
      BY <1>1, <2>1, <2>2, OthersOwn
    <2>4. lost \in SUBSET Tasks
      OBVIOUS
    <2> HIDE DEF lost
    <2> QED BY <1>2, <2>3, <2>4, AbandonMaps DEF Quiet
  <1>4. CASE Crash
    <2>1. \A u \in Tasks, q \in Posts : Owns(u, q)' <=> (Owns(u, q) /\ u \notin Tasks)
      BY <1>1, <1>4 DEF Owns, Crash
    <2> QED BY <1>2, <2>1, AbandonMaps DEF Quiet
  <1>5. CASE \/ Quiescent \/ UNCHANGED vars \/ Unlink \/ UnlinkFails \/ Acknowledge
             \/ \E s \in Posts : TakeJob(s) \/ DelayOver(s) \/ Stalled(s)
    <2>1. \A u \in Tasks : u # Worker => pc'[u] = pc[u] /\ sub'[u] = sub[u]
      BY <1>1, <1>5 DEF Quiescent, vars, Unlink, UnlinkFails, Acknowledge, TakeJob, DelayOver,
                        Stalled, Goto
    <2>2. \A q \in Posts : Owns(Worker, q)' <=> Owns(Worker, q)
      BY <1>1, <1>5 DEF Owns, Quiescent, vars, Unlink, UnlinkFails, Acknowledge, TakeJob, DelayOver,
                        Stalled, Goto
    <2>3. \A u \in Tasks, q \in Posts : Owns(u, q)' <=> Owns(u, q)
      BY <1>1, <2>1, <2>2, OthersOwn
    <2> QED BY <1>2, <2>3, IdleMaps
  <1> QED BY <1>3, <1>4, <1>5

LEMMA LedgerStep ==
  ASSUME LedgerInv, LedgerInv', [Next]_vars
  PROVE  Ledger!Next
  <1> USE DEF LedgerInv
  <1>1. ASSUME NEW t \in Tasks, EvaluationStep(t) PROVE Ledger!Next
    BY <1>1, QuietEvaluationMaps, WritingEvaluationMaps DEF EvaluationStep, Ledger!Next
  <1>2. ASSUME NEW p \in Posts,
               Receive(p) \/ CheckDuplicate(p) \/ Create(p) \/ CreateConflicts(p) \/ EnqueueRetry(p)
        PROVE  Ledger!Next
    BY <1>2, PostStepMaps DEF Quiet, Ledger!Next
  <1>3. ASSUME NEW r \in Revs,
               \/ RevisionCompare(r) \/ RevisionMark(r) \/ RevisionInsert(r)
               \/ RevisionSave(r) \/ RevisionFail(r)
               \/ \E s \in Posts : RevisionRead(r, s) \/ RevisionRefused(r, s)
        PROVE  Ledger!Next
    BY <1>3, RevStepMaps DEF Quiet, Ledger!Next, Tasks
  <1>4. ASSUME \/ (\E t \in Tasks : CallFails(t)) \/ Crash \/ Quiescent \/ UNCHANGED vars
               \/ Unlink \/ UnlinkFails \/ Acknowledge
               \/ \E s \in Posts : TakeJob(s) \/ DelayOver(s) \/ Stalled(s)
        PROVE  Ledger!Next
    BY <1>4, EnvironmentMaps DEF Quiet, Ledger!Next
  <1> QED BY <1>1, <1>2, <1>3, <1>4 DEF Next, PostStep, RevStep, WorkerStep, Tasks

\* Whatever requests overlap, fail or crash, a client sees a ledger: every
\* outcome comes from an evaluation that was marked before, in the row or only
\* in the log, and concludes once; a mark hides an outcome or leaves its status
\* and can bring back no verdict but one of a concluded evaluation
\* (markEvaluating and saveSubmissionResult, submissions.service.ts:215-287).
THEOREM ServiceImplementsLedger == Spec => LedgerSpec
  <1>1. Init => Ledger!Init
    <2> SUFFICES ASSUME Init PROVE Ledger!Init
      OBVIOUS
    <2>1. \A t \in Tasks : pc[t] = "idle"
      BY DEF Init, EvaluationInit
    <2>2. \A s \in Posts : {t \in Tasks : Owns(t, s)} = {}
      BY <2>1 DEF Owns
    <2> QED BY <2>2 DEF Init, EvaluationInit, StoreInit, Ledger!Init
  <1>2. LedgerInv /\ LedgerInv' /\ [Next]_vars => [Ledger!Next]_(Ledger!ledgerVars)
    BY LedgerStep
  <1>3. Spec => []LedgerInv
    BY TypeCorrect, RetryAlways, MarkAlways, ContentAlways, PTL DEF LedgerInv, Typed
  <1> QED BY <1>1, <1>2, <1>3, PTL DEF Spec, LedgerSpec, Ledger!Spec

-----------------------------------------------------------------------------
(* An EVALUATING submission has a task that will settle it                 *)

\* Only a failing call, a crash or a verdict that cannot be stored takes a
\* submission from its owner; otherwise the owner writes its outcome.
LEMMA OwnerStays ==
  ASSUME Typed, [Next]_vars, NEW t \in Tasks, NEW s \in Posts, Owns(t, s),
         ~Crash, \A u \in Tasks : ~CallFails(u) /\ ~RejectVerdict(u)
  PROVE  Owns(t, s)' \/ Save(t) \/ SaveFailed(t)
  <1> USE TasksDisjoint DEF Tasks
  <1>1. /\ pc \in [Tasks -> Pcs] /\ sub \in [Tasks -> Posts \cup {NoSub}]
        /\ pc[Worker] \in WorkerPcs \cup EvalPcs \cup {"idle"}
    BY DEF Typed, TypeOK, EvaluationTypeOK, Placed
  <1>2. ASSUME NEW u \in Tasks, EvaluationStep(u) PROVE Owns(t, s)' \/ Save(t) \/ SaveFailed(t)
    <2>1. CASE u = t
      BY <1>1, <1>2, <2>1 DEF EvaluationStep, Admit, Refuse, Admissible, MarkRead, MarkCompare,
                              Compare, MarkSave, Evaluate, Owns, Goto
    <2>2. CASE u # t
      <3>1. pc'[t] = pc[t] /\ sub'[t] = sub[t]
        BY <1>1, <1>2, <2>2 DEF EvaluationStep, Admit, Refuse, MarkRead, MarkCompare, Compare,
                                MarkSave, Evaluate, Save, SaveFailed, DropOutcome, RejectVerdict,
                                Goto
      <3> QED BY <1>1, <2>2, <3>1, OthersOwn
    <2> QED BY <2>1, <2>2
  <1>3. ASSUME NEW p \in Posts,
               Receive(p) \/ CheckDuplicate(p) \/ Create(p) \/ CreateConflicts(p) \/ EnqueueRetry(p)
        PROVE  Owns(t, s)'
    BY <1>1, <1>3 DEF Receive, CheckDuplicate, Create, CreateConflicts, EnqueueRetry, Goto, Owns
  <1>4. ASSUME NEW r \in Revs,
               \/ RevisionCompare(r) \/ RevisionMark(r) \/ RevisionInsert(r)
               \/ RevisionSave(r) \/ RevisionFail(r)
               \/ \E q \in Posts : RevisionRead(r, q) \/ RevisionRefused(r, q)
        PROVE  Owns(t, s)'
    BY <1>1, <1>4 DEF RevisionCompare, Compare, RevisionMark, RevisionInsert, RevisionSave,
                      RevisionFail, RevisionRead, RevisionRefused, Goto, Owns
  <1>5. ASSUME \/ Quiescent \/ UNCHANGED vars \/ Unlink \/ UnlinkFails \/ Acknowledge
               \/ \E q \in Posts : TakeJob(q) \/ DelayOver(q) \/ Stalled(q)
        PROVE  Owns(t, s)'
    BY <1>1, <1>5 DEF Quiescent, vars, Unlink, UnlinkFails, Acknowledge, TakeJob, DelayOver,
                      Stalled, Goto, Owns
  <1> QED BY <1>2, <1>3, <1>4, <1>5 DEF Next, PostStep, RevStep, WorkerStep

\* EvaluatingHasOwner is inductive once no task holds a verdict that the
\* score column rejects.
OwnerInv ==
  Calm => /\ \A t \in Tasks : verdict[t] # "unstorable"
          /\ \A s \in Posts : status[s] = "EVALUATING" => \E t \in Tasks : Owns(t, s)

LEMMA VerdictsStorable ==
  ASSUME Typed, [Next]_vars, "unstorable" \notin Verdicts,
         \A t \in Tasks : verdict[t] # "unstorable"
  PROVE  \A t \in Tasks : verdict'[t] # "unstorable"
  <1> USE TasksDisjoint DEF Tasks
  <1>1. verdict \in [Tasks -> VerdictKinds \cup {"none"}]
    BY DEF Typed, TypeOK, EvaluationTypeOK
  <1>2. ASSUME NEW u \in Tasks, EvaluationStep(u) PROVE \A t \in Tasks : verdict'[t] # "unstorable"
    BY <1>1, <1>2 DEF EvaluationStep, Admit, Refuse, MarkRead, MarkCompare, Compare, MarkSave,
                      Evaluate, Save, SaveFailed, DropOutcome, RejectVerdict
  <1> QED
    BY <1>1, <1>2
    DEF Next, vars, PostStep, RevStep, WorkerStep, Receive, CheckDuplicate, Create, CreateConflicts,
        EnqueueRetry, RevisionRead, RevisionRefused, RevisionCompare, Compare, RevisionMark,
        RevisionInsert, RevisionSave, RevisionFail, TakeJob, DelayOver, Stalled, Unlink,
        UnlinkFails, Acknowledge, CallFails, Crash, Quiescent

\* Whoever has marked a submission will write an outcome for it.
LEMMA MarkOwns ==
  ASSUME Typed, NEW t \in Tasks, NEW s \in Posts, Writes(t, s),
         MarkSave(t) \/ (t \in Revs /\ RevisionMark(t))
  PROVE  Owns(t, s)'
  BY DEF Writes, MarkSave, RevisionMark, Goto, Owns, Typed, TypeOK, EvaluationTypeOK

LEMMA OwnerStep ==
  ASSUME Typed, OwnerInv, [Next]_vars
  PROVE  OwnerInv'
  <1> SUFFICES ASSUME Calm' PROVE OwnerInv'
    BY DEF OwnerInv
  <1>1. Calm /\ ~Crash /\ \A u \in Tasks : ~CallFails(u)
    BY FaultsGrow DEF Calm
  <1>2. \A u \in Tasks : verdict[u] # "unstorable" /\ ~RejectVerdict(u)
    BY <1>1 DEF OwnerInv, RejectVerdict
  <1>3. \A t \in Tasks : verdict'[t] # "unstorable"
    BY <1>1, <1>2, VerdictsStorable DEF Calm
  <1>4. ASSUME NEW s \in Posts, status'[s] = "EVALUATING" PROVE \E t \in Tasks : Owns(t, s)'
    <2>1. CASE Unmoved(s)
      <3>1. PICK t \in Tasks : Owns(t, s)
        BY <1>1, <1>4, <2>1 DEF OwnerInv, Unmoved
      <3>2. CASE Save(t) \/ SaveFailed(t)
        BY <1>4, <3>1, <3>2, WrittenRow DEF Writes, Owns, MarkSave, RevisionMark, Save, SaveFailed,
                                            Goto
      <3> QED BY <1>1, <1>2, <3>1, <3>2, OwnerStays
    <2>2. CASE Create(s)
      BY <1>4, <2>2 DEF Create, CreatePending, Typed, TypeOK, StoreTypeOK
    <2>3. ASSUME NEW t \in Tasks, Writes(t, s) PROVE Owns(t, s)'
      <3>1. MarkSave(t) \/ (t \in Revs /\ RevisionMark(t))
        BY <1>4, <2>3, WrittenRow
      <3> QED BY <2>3, <3>1, MarkOwns
    <2> QED BY <2>1, <2>2, <2>3, RowStep
  <1> QED BY <1>3, <1>4 DEF OwnerInv

LEMMA OwnerAlways == Spec => []OwnerInv
  <1>1. Init => OwnerInv
    BY DEF Init, EvaluationInit, StoreInit, NoLocals, OwnerInv
  <1> QED BY <1>1, OwnerStep, TypeCorrect, PTL DEF Spec, Typed

\* While nothing fails no interleaving of the callers leaves a submission
\* EVALUATING with nobody to settle it, which would block revisions and
\* retries of it (revisions.service.ts:74, submissions.service.ts:137-143).
THEOREM EvaluatingIsOwned == Spec => []EvaluatingHasOwner
  <1>1. OwnerInv => EvaluatingHasOwner
    BY DEF OwnerInv, EvaluatingHasOwner
  <1> QED BY <1>1, OwnerAlways, PTL

-----------------------------------------------------------------------------
(* A SUCCESS shows its verdict                                             *)

VerdictOf(t, s) ==
  /\ result[s] = t
  /\ LastOutcome(s, Log(ActionOf(t), "SUCCESS"))
  /\ t \in Posts => t = s
  /\ t \in Revs => sub[t] = s /\ pc[t] # "idle"

\* SuccessShowsItsVerdict is inductive once it says that the revision shown
\* has begun: before its first step a request may choose any submission.
VerdictInv ==
  Calm => \A s \in Posts :
            status[s] = "SUCCESS" =>
              (\E t \in Tasks : Owns(t, s)) \/ (\E t \in Tasks : VerdictOf(t, s))

LEMMA SaveShows ==
  ASSUME Typed, NEW t \in Tasks, NEW s \in Posts, Writes(t, s), Save(t)
  PROVE  VerdictOf(t, s)'
  <1> USE TasksDisjoint DEF Tasks
  <1>1. /\ pc \in [Tasks -> Pcs] /\ logs[s] \in Seq(LogRow)
        /\ pc[t] = "save" /\ sub' = sub /\ sub[t] = s
    BY DEF Typed, TypeOK, StoreTypeOK, EvaluationTypeOK, Save, Goto, DropOutcome, Writes
  <1>2. t \in Posts => t = s
    BY <1>1 DEF Typed, Placed
  <1>3. pc'[t] # "idle"
    BY <1>1 DEF Save, Goto, Returned
  <1> DEFINE e == Log(ActionOf(t), "SUCCESS")
  <1>4. e \in LogRow /\ e.status # "EVALUATING" /\ e' = e
    BY DEF Log, LogRow, ActionOf, Actions, Statuses
  <1>5. result'[s] = t /\ logs'[s] = Append(logs[s], e)
    BY <1>1, WrittenRow DEF Save, SaveFailed, MarkSave, RevisionMark, Goto
  <1>6. LastOutcome(s, Log(ActionOf(t), "SUCCESS"))'
    BY <1>1, <1>4, <1>5, OutcomeIsLast
  <1> QED BY <1>1, <1>2, <1>3, <1>5, <1>6 DEF VerdictOf

LEMMA VerdictStep ==
  ASSUME Typed, OwnerInv, VerdictInv, [Next]_vars
  PROVE  VerdictInv'
  <1> SUFFICES ASSUME Calm', NEW s \in Posts, status'[s] = "SUCCESS"
               PROVE  (\E t \in Tasks : Owns(t, s)') \/ (\E t \in Tasks : VerdictOf(t, s)')
    BY DEF VerdictInv
  <1>1. Calm /\ ~Crash /\ \A u \in Tasks : ~CallFails(u)
    BY FaultsGrow DEF Calm
  <1>2. \A u \in Tasks : ~RejectVerdict(u)
    BY <1>1 DEF OwnerInv, RejectVerdict
  <1>3. CASE Unmoved(s)
    <2>1. CASE \E t \in Tasks : Owns(t, s)
      <3>1. PICK t \in Tasks : Owns(t, s)
        BY <2>1
      <3>2. CASE Save(t) \/ SaveFailed(t)
        <4>1. Writes(t, s)
          BY <3>1, <3>2 DEF Owns, Writes
        <4>2. ~SaveFailed(t)
          BY <4>1, WrittenRow DEF SaveFailed, Save, MarkSave, RevisionMark, Goto
        <4> QED BY <3>2, <4>1, <4>2, SaveShows
      <3> QED BY <1>1, <1>2, <3>1, <3>2, OwnerStays
    <2>2. ASSUME NEW t \in Tasks, VerdictOf(t, s) PROVE VerdictOf(t, s)'
      <3>1. t \in Revs => sub'[t] = sub[t] /\ pc'[t] # "idle"
        BY <2>2, RevisionStays DEF VerdictOf
      <3> QED BY <1>3, <2>2, <3>1 DEF Unmoved, VerdictOf, LastOutcome, Log, ActionOf
    <2> QED BY <1>1, <1>3, <2>1, <2>2 DEF VerdictInv, Unmoved
  <1>4. CASE Create(s)
    BY <1>4 DEF Create, CreatePending, Typed, TypeOK, StoreTypeOK
  <1>5. ASSUME NEW t \in Tasks, Writes(t, s) PROVE Owns(t, s)' \/ VerdictOf(t, s)'
    <2>1. CASE MarkSave(t) \/ (t \in Revs /\ RevisionMark(t))
      BY <1>5, <2>1, MarkOwns
    <2>2. CASE Save(t)
      BY <1>5, <2>2, SaveShows
    <2> QED BY <1>5, <2>1, <2>2, WrittenRow
  <1> QED BY <1>3, <1>4, <1>5, RowStep

LEMMA VerdictAlways == Spec => []VerdictInv
  <1>1. Init => VerdictInv
    BY DEF Init, EvaluationInit, StoreInit, VerdictInv
  <1> QED BY <1>1, VerdictStep, OwnerAlways, TypeCorrect, PTL DEF Spec, Typed

\* While nothing fails, and whatever stale entities markEvaluating and
\* markRevision save, a SUCCESS submission that no task evaluates any more
\* shows the verdict of the evaluation its last outcome log is of
\* (submissions.service.ts:215-287): a mark that overlooked an outcome is
\* followed by an outcome of its own.
THEOREM VerdictShown == Spec => []SuccessShowsItsVerdict
  <1>1. VerdictInv => SuccessShowsItsVerdict
    BY DEF VerdictInv, VerdictOf, SuccessShowsItsVerdict
  <1> QED BY <1>1, VerdictAlways, PTL
=============================================================================
