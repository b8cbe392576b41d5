---------------------------- MODULE ResponsesProofs ----------------------------
(***************************************************************************)
(* What the clients are told is what is in the tables, for every set of    *)
(* requests and every number of faults, crashes and stalls.  The answers   *)
(* only read the service's state: theorems of Spec hold of ResponsesSpec.  *)
(***************************************************************************)
EXTENDS Responses, EssayResultProofs

USE DEF storeVars, localVars, queueVars, faultVars
USE DEF Pcs, InFlight, PostPcs, RevPcs, EvalPcs, WorkerPcs, Over

LEMMA ServesTheService == ResponsesSpec => Spec
  <1>1. [ResponsesNext]_responseVars => [Next]_vars
    BY DEF ResponsesNext, responseVars
  <1> QED BY <1>1, PTL DEF ResponsesSpec, ResponsesInit, Spec

-----------------------------------------------------------------------------
(* "ok" and "failed"                                                       *)

LEMMA PostFlow ==
  ASSUME Typed, [Next]_vars, NEW p \in Posts
  PROVE  /\ pc'[p] = "returned" => pc[p] = "returned" \/ Save(p)
         /\ pc[p] = "returned" => pc'[p] = "returned"
  <1> USE TasksDisjoint DEF Tasks
  <1>1. pc \in [Tasks -> Pcs]
    BY DEF Typed, TypeOK, EvaluationTypeOK
  <1> DEFINE Flow == /\ pc'[p] = "returned" => pc[p] = "returned" \/ Save(p)
                     /\ pc[p] = "returned" => pc'[p] = "returned"
  <1>2. ASSUME NEW t \in Tasks, EvaluationStep(t) PROVE Flow
    BY <1>1, <1>2 DEF EvaluationStep, Admit, Refuse, MarkRead, MarkCompare, Compare, MarkSave,
                      Evaluate, Save, SaveFailed, RejectVerdict, Goto, Thrown, Returned, OnError
  <1>3. ASSUME NEW q \in Posts,
               Receive(q) \/ CheckDuplicate(q) \/ Create(q) \/ CreateConflicts(q) \/ EnqueueRetry(q)
        PROVE  Flow
    BY <1>1, <1>3 DEF Receive, CheckDuplicate, Create, CreateConflicts, EnqueueRetry, Goto
  <1>4. ASSUME NEW t \in Tasks, CallFails(t) PROVE Flow
    BY <1>1, <1>4 DEF CallFails, OnError, Thrown
  <1>5. CASE Crash
    BY <1>1, <1>5 DEF Crash
  <1>6. ASSUME \/ \E r \in Revs :
                    \/ RevisionCompare(r) \/ RevisionMark(r) \/ RevisionInsert(r)
                    \/ RevisionSave(r) \/ RevisionFail(r)
                    \/ \E s \in Posts : RevisionRead(r, s) \/ RevisionRefused(r, s)
               \/ \E s \in Posts : TakeJob(s) \/ DelayOver(s) \/ Stalled(s)
               \/ Unlink \/ UnlinkFails \/ Acknowledge \/ Quiescent \/ UNCHANGED vars
        PROVE  pc'[p] = pc[p]
    BY <1>1, <1>6 DEF RevisionCompare, Compare, RevisionMark, RevisionInsert, RevisionSave,
                      RevisionFail, RevisionRead, RevisionRefused, TakeJob, DelayOver, Stalled,
                      Unlink, UnlinkFails, Acknowledge, Quiescent, vars, Goto
  <1> QED BY <1>2, <1>3, <1>4, <1>5, <1>6 DEF Next, PostStep, RevStep, WorkerStep

\* Only the save of the POST request itself logs its success.
LEMMA SuccessIsSaved ==
  ASSUME Typed, [Next]_vars, NEW p \in Posts, ~Initially(p, "SUCCESS"), Initially(p, "SUCCESS")'
  PROVE  Save(p)
  <1> USE TasksDisjoint DEF Tasks
  <1>1. logs \in [Posts -> Seq(LogRow)] /\ pc \in [Tasks -> Pcs]
    BY DEF Typed, TypeOK, StoreTypeOK, EvaluationTypeOK
  <1>2. ASSUME NEW e, logs'[p] = Append(logs[p], e), e # Log("INITIAL", "SUCCESS") PROVE FALSE
    BY <1>1, <1>2 DEF Initially, Log
  <1>3. ~Unmoved(p)
    BY DEF Unmoved, Initially, Log
  <1>4. CASE Create(p)
    <2>1. logs'[p] = Append(logs[p], Log("INITIAL", "PENDING"))
      BY <1>1, <1>4 DEF Create, CreatePending
    <2> QED BY <1>2, <2>1 DEF Log
  <1>5. ASSUME NEW t \in Tasks, Writes(t, p) PROVE Save(p)
    <2>1. CASE MarkSave(t) \/ (t \in Revs /\ RevisionMark(t))
      <3>1. PICK a \in Actions : logs'[p] = Append(logs[p], Log(a, "EVALUATING"))
        BY <1>1, <1>5, <2>1 DEF MarkSave, MarkEvaluating, RevisionMark, MarkRevision,
                                SaveEvaluating, Writes, Actions
      <3> QED BY <1>2, <3>1 DEF Log
    <2>2. CASE SaveFailed(t)
      <3>1. logs'[p] = Append(logs[p], Log(ActionOf(t), "FAILED"))
        BY <1>1, <1>5, <2>2 DEF SaveFailed, SaveSubmissionResult, Writes
      <3> QED BY <1>2, <3>1 DEF Log
    <2>3. CASE Save(t)
      <3>1. logs'[p] = Append(logs[p], Log(ActionOf(t), "SUCCESS"))
        BY <1>1, <1>5, <2>3 DEF Save, SaveSubmissionResult, Writes
      <3>2. ActionOf(t) = "INITIAL"
        BY <1>2, <3>1 DEF Log
      <3>3. t \in Posts /\ pc[t] = "save"
        BY <2>3, <3>2 DEF ActionOf, Save, Goto
      <3>4. t = p
        BY <1>5, <3>3 DEF Typed, Placed, Writes
      <3> QED BY <2>3, <3>4
    <2> QED BY <1>5, <2>1, <2>2, <2>3 DEF Writes
  <1> QED BY <1>3, <1>4, <1>5, RowStep

\* A handler returns in the step that stores the outcome it answers with.
AnswerInv ==
  /\ \A p \in Posts : pc[p] = "returned" <=> Initially(p, "SUCCESS")
  /\ \A r \in Revs : pc[r] = "returned" <=> revStatus[r] = "SUCCESS"

LEMMA AnswerStep ==
  ASSUME Typed, AnswerInv, [Next]_vars
  PROVE  AnswerInv'
  <1> USE TasksDisjoint DEF Tasks
  <1>1. pc \in [Tasks -> Pcs] /\ logs \in [Posts -> Seq(LogRow)]
    BY DEF Typed, TypeOK, StoreTypeOK, EvaluationTypeOK
  <1>2. ASSUME NEW p \in Posts PROVE pc'[p] = "returned" <=> Initially(p, "SUCCESS")'
    <2>1. CASE Save(p)
      <3>1. sub[p] = p /\ pc'[p] = "returned"
        BY <1>1, <2>1 DEF Save, Goto, Returned, Typed, Placed
      <3>2. logs'[p] = Append(logs[p], Log("INITIAL", "SUCCESS"))
        BY <1>1, <2>1, <3>1 DEF Save, SaveSubmissionResult, ActionOf
      <3>3. Log("INITIAL", "SUCCESS") \in LogRow
        BY DEF Log, LogRow, Actions, Statuses
      <3>4. /\ Len(logs[p]) + 1 \in DOMAIN logs'[p]
            /\ logs'[p][Len(logs[p]) + 1] = Log("INITIAL", "SUCCESS")
        BY <1>1, <3>2, <3>3
      <3> QED BY <3>1, <3>4 DEF Initially, Log
    <2>2. CASE ~Save(p)
      <3>1. pc'[p] = "returned" <=> pc[p] = "returned"
        BY <2>2, PostFlow
      <3>2. Initially(p, "SUCCESS")' => Initially(p, "SUCCESS")
        BY <2>2, SuccessIsSaved
      <3>3. Initially(p, "SUCCESS") => Initially(p, "SUCCESS")'
        BY LogStays DEF Initially, Carries, Log
      <3> QED BY <3>1, <3>2, <3>3 DEF AnswerInv
    <2> QED BY <2>1, <2>2
  <1>3. ASSUME NEW r \in Revs PROVE pc'[r] = "returned" <=> revStatus'[r] = "SUCCESS"
    <2>1. CASE RevisionSave(r)
      BY <1>1, <2>1, RevisionRowStep DEF RevisionSave, RevisionInsert, RevisionFail, Goto,
             SaveRevisionResult, Typed, TypeOK, StoreTypeOK
    <2>2. CASE ~RevisionSave(r)
      <3>1. pc'[r] = "returned" <=> pc[r] = "returned"
        BY <2>2, RevFlow
      <3>2. pc[r] = "returned" => ~RevisionInsert(r) /\ ~RevisionFail(r)
        BY DEF RevisionInsert, RevisionFail, Goto
      <3> QED BY <2>2, <3>1, <3>2, RevisionRowStep DEF AnswerInv
    <2> QED BY <2>1, <2>2
  <1> QED BY <1>2, <1>3 DEF AnswerInv

LEMMA AnswerAlways == Spec => []AnswerInv
  <1>1. Init => AnswerInv
    BY DEF Init, EvaluationInit, StoreInit, AnswerInv, Initially, Tasks
  <1> QED BY <1>1, AnswerStep, TypeCorrect, PTL DEF Spec, Typed

\* "ok" is answered exactly to the requests whose success is stored, whatever
\* fails between the transactions of a handler (submissions.service.ts:163).
THEOREM AnswersAreStored == ResponsesSpec => []AnswersMatchTables
  <1>1. AnswerInv => AnswersMatchTables
    <2> SUFFICES ASSUME AnswerInv PROVE AnswersMatchTables
      OBVIOUS
    <2>1. ASSUME NEW t PROVE /\ Answer(t).result = "ok" <=> pc[t] = "returned"
      BY DEF Answer, Ok, NoData
    <2>2. \A r \in Revs : GetRevisionDetail(r).status = revStatus[r]
      BY DEF GetRevisionDetail, RevisionDetailItem
    <2> QED BY <2>1, <2>2 DEF AnswerInv, AnswersMatchTables
  <1> QED BY <1>1, AnswerAlways, ServesTheService, PTL

-----------------------------------------------------------------------------
(* What "ok" answered stays                                                *)

LEMMA RevisionMarks ==
  ASSUME Typed, NEW r \in Revs, RevisionMark(r)
  PROVE  HasLog(sub[r], "REVISION")' /\ sub'[r] = sub[r] /\ sub[r] \in Posts
  <1> USE TasksDisjoint DEF Tasks
  <1> DEFINE s == sub[r]
  <1>1. s \in Posts /\ sub' = sub /\ logs \in [Posts -> Seq(LogRow)]
    BY DEF RevisionMark, Goto, Typed, TypeOK, StoreTypeOK, EvaluationTypeOK, Placed
  <1>2. Log("REVISION", "EVALUATING") \in LogRow
    BY DEF Log, LogRow, Actions, Statuses
  <1>3. logs'[s] = Append(logs[s], Log("REVISION", "EVALUATING"))
    BY <1>1 DEF RevisionMark, MarkRevision, SaveEvaluating
  <1> HIDE DEF s
  <1>4. /\ Len(logs[s]) + 1 \in DOMAIN logs'[s]
        /\ logs'[s][Len(logs[s]) + 1].action = "REVISION"
    BY <1>1, <1>2, <1>3 DEF Log
  <1>5. HasLog(s, "REVISION")'
    BY <1>1, <1>4 DEF HasLog, s
  <1> QED BY <1>1, <1>5 DEF s

LEMMA ActionStays ==
  ASSUME Typed, [Next]_vars, NEW s \in Posts, HasLog(s, "REVISION")
  PROVE  HasLog(s, "REVISION")'
  <1>1. PICK i \in DOMAIN logs[s] : logs[s][i].action = "REVISION"
    BY DEF HasLog
  <1>2. Carries(s, logs[s][i])
    BY <1>1 DEF Carries
  <1>3. logs[s] \in Seq(LogRow)
    BY DEF Typed, TypeOK, StoreTypeOK
  <1>4. \/ logs'[s] = logs[s]
        \/ \E e \in LogRow : logs'[s] = Append(logs[s], e)
    BY StepLogs DEF Logged
  <1>5. i \in DOMAIN logs'[s] /\ logs'[s][i] = logs[s][i]
    BY <1>1, <1>3, <1>4
  <1> QED BY <1>1, <1>5 DEF HasLog

\* A request that was answered "ok" has left evaluateSubmission, its retry was
\* never queued, and a revision logs REVISION before it writes anything else.
OkInv ==
  /\ \A r \in Revs : pc[r] \in {"revInsert"} \cup EvalPcs => HasLog(sub[r], "REVISION")
  /\ \A p \in Posts : pc[p] = "returned" /\ ~HasLog(p, "REVISION") =>
       status[p] = "SUCCESS" /\ result[p] = p

LEMMA OkStep ==
  ASSUME Typed, NoAutomaticOverlap, OkInv, [Next]_vars
  PROVE  OkInv'
  <1> USE TasksDisjoint DEF Tasks
  <1>1. pc \in [Tasks -> Pcs] /\ sub \in [Tasks -> Posts \cup {NoSub}]
    BY DEF Typed, TypeOK, EvaluationTypeOK
  <1>2. ASSUME NEW r \in Revs, pc'[r] \in {"revInsert"} \cup EvalPcs
        PROVE  HasLog(sub[r], "REVISION")'
    <2>1. CASE RevisionMark(r)
      BY <2>1, RevisionMarks DEF HasLog
    <2>2. CASE pc[r] \in {"revInsert"} \cup EvalPcs
      <3>1. PICK s \in Posts : sub[r] = s
        BY <1>1, <2>2 DEF Typed, Placed
      <3>2. HasLog(s, "REVISION") /\ sub'[r] = s
        BY <2>2, <3>1, RevisionStays DEF OkInv
      <3>3. HasLog(s, "REVISION")'
        BY <3>2, ActionStays
      <3> QED BY <3>2, <3>3 DEF HasLog
    <2> QED BY <1>2, <2>1, <2>2, RevFlow
  <1>3. ASSUME NEW p \in Posts, pc'[p] = "returned", ~HasLog(p, "REVISION")'
        PROVE  status'[p] = "SUCCESS" /\ result'[p] = p
    <2>1. CASE Save(p)
      <3>1. Writes(p, p)
        BY <2>1 DEF Writes, Save, Goto, Typed, Placed
      <3> QED BY <2>1, <3>1, WrittenRow DEF Save, MarkSave, SaveFailed, Goto
    <2>2. CASE pc[p] = "returned"
      <3>1. ~HasLog(p, "REVISION") /\ status[p] = "SUCCESS" /\ result[p] = p
        BY <1>3, <2>2, ActionStays DEF OkInv
      <3>2. ~Create(p)
        BY <2>2 DEF Create, Goto
      <3>3. ASSUME NEW t \in Tasks, Writes(t, p) PROVE FALSE
        <4>1. CASE t \in Posts
          <5>1. pc[t] \in EvalPcs
            BY <3>3, <4>1 DEF Writes, MarkSave, Save, SaveFailed, Goto
          <5> QED BY <2>2, <3>3, <4>1, <5>1 DEF Writes, Typed, Placed
        <4>2. CASE t = Worker
          BY <2>2, <3>3, <4>2 DEF Writes, NoAutomaticOverlap
        <4>3. CASE t \in Revs /\ RevisionMark(t)
          <5>1. HasLog(sub[t], "REVISION")' /\ sub'[t] = sub[t] /\ sub[t] = p
            BY <3>3, <4>3, RevisionMarks DEF Writes
          <5> QED BY <1>3, <5>1 DEF HasLog
        <4>4. CASE t \in Revs /\ ~RevisionMark(t)
          <5>1. pc[t] \in EvalPcs
            BY <3>3, <4>4 DEF Writes, MarkSave, Save, SaveFailed, Goto
          <5> QED BY <3>1, <3>3, <4>4, <5>1 DEF Writes, OkInv
        <4> QED BY <4>1, <4>2, <4>3, <4>4
      <3> QED BY <3>1, <3>2, <3>3, RowStep DEF Unmoved
    <2> QED BY <1>3, <2>1, <2>2, PostFlow
  <1> QED BY <1>2, <1>3 DEF OkInv

\* The answer of POST /v1/submissions is what the list and the page show
\* until a revision is asked for: evaluateSubmission refuses the retry of a
\* submission that succeeded (submissions.service.ts:137-143).
THEOREM OkAnswerKept == ResponsesSpec => []OkAnswerStays
  <1>1. Init => OkInv
    BY TasksDisjoint DEF Init, EvaluationInit, StoreInit, OkInv, Tasks
  <1>2. OkInv => OkAnswerStays
    <2> SUFFICES ASSUME OkInv, NEW p \in Posts, Answer(p).result = "ok", ~HasLog(p, "REVISION")
                 PROVE  /\ GetSubmissionDetail(p).status = Answer(p).data.status
                        /\ GetSubmissionDetail(p).evaluation = Answer(p).data.evaluation
                        /\ \E item \in GetSubmissionsResponse :
                             item.id = p /\ item.score = Answer(p).data.evaluation
      BY DEF OkAnswerStays
    <2>1. pc[p] = "returned"
      BY DEF Answer
    <2>2. Answer(p).data.status = "SUCCESS" /\ Answer(p).data.evaluation = p
      BY <2>1 DEF Answer, Ok, ToDto
    <2>3. status[p] = "SUCCESS" /\ result[p] = p
      BY <2>1 DEF OkInv
    <2>4. SubmissionListItem(p) \in GetSubmissionsResponse
      BY <2>3 DEF GetSubmissionsResponse, Exists
    <2>5. SubmissionListItem(p).id = p /\ SubmissionListItem(p).score = p
      BY <2>3 DEF SubmissionListItem
    <2> QED BY <2>2, <2>3, <2>4, <2>5 DEF GetSubmissionDetail, SubmissionDetailItem
  <1> QED BY <1>1, <1>2, OkStep, ServesTheService, RetryAfterPost, TypeCorrect, PTL DEF Spec, Typed

-----------------------------------------------------------------------------
(* The page of a submission and its revisions                              *)

\* While no call fails, the catch block is entered with a score of zero or with
\* one that cannot be stored: the result it saves is nobody's verdict.
CatchInv ==
  faults = 0 => \A t \in Tasks : pc[t] = "saveFailed" => verdict[t] \in {"zero", "unstorable"}

LEMMA CatchStep ==
  ASSUME Typed, CatchInv, [Next]_vars
  PROVE  CatchInv'
  <1> USE TasksDisjoint DEF Tasks
  <1> SUFFICES ASSUME faults' = 0, NEW t \in Tasks, pc'[t] = "saveFailed"
               PROVE  verdict'[t] \in {"zero", "unstorable"}
    BY DEF CatchInv
  <1>1. pc \in [Tasks -> Pcs] /\ verdict \in [Tasks -> VerdictKinds \cup {"none"}]
    BY DEF Typed, TypeOK, EvaluationTypeOK
  <1>2. faults = 0 /\ ~UnlinkFails /\ \A u \in Tasks : ~CallFails(u)
    BY FaultsGrow
  <1>3. pc[t] = "saveFailed" => verdict[t] \in {"zero", "unstorable"}
    BY <1>2 DEF CatchInv
  <1>4. ASSUME NEW u \in Tasks, EvaluationStep(u) PROVE verdict'[t] \in {"zero", "unstorable"}
    <2>1. CASE Evaluate(u)
      BY <1>1, <1>3, <2>1, VerdictsAssumption DEF Evaluate, Goto, VerdictKinds
    <2>2. CASE RejectVerdict(u)
      BY <1>1, <1>3, <2>2 DEF RejectVerdict
    <2>3. CASE ~Evaluate(u) /\ ~RejectVerdict(u)
      BY <1>1, <1>3, <1>4, <2>3
      DEF EvaluationStep, Admit, Refuse, MarkRead, MarkCompare, Compare, MarkSave, Save,
          SaveFailed, DropOutcome, Goto, Thrown, Returned
    <2> QED BY <2>1, <2>2, <2>3
  <1>5. ASSUME NEW p \in Posts,
               Receive(p) \/ CheckDuplicate(p) \/ Create(p) \/ CreateConflicts(p) \/ EnqueueRetry(p)
        PROVE  verdict'[t] \in {"zero", "unstorable"}
    BY <1>1, <1>3, <1>5 DEF Receive, CheckDuplicate, Create, CreateConflicts, EnqueueRetry, Goto
  <1>6. ASSUME NEW r \in Revs,
               \/ RevisionCompare(r) \/ RevisionMark(r) \/ RevisionInsert(r)
               \/ RevisionSave(r) \/ RevisionFail(r)
               \/ \E s \in Posts : RevisionRead(r, s) \/ RevisionRefused(r, s)
        PROVE  verdict'[t] \in {"zero", "unstorable"}
    BY <1>1, <1>3, <1>6 DEF RevisionCompare, Compare, RevisionMark, RevisionInsert, RevisionSave,
                            RevisionFail, RevisionRead, RevisionRefused, Goto
  <1>7. ASSUME \/ \E s \in Posts : TakeJob(s) \/ DelayOver(s) \/ Stalled(s)
               \/ Unlink \/ Acknowledge \/ Crash \/ Quiescent \/ UNCHANGED vars
        PROVE  verdict'[t] \in {"zero", "unstorable"}
    BY <1>1, <1>3, <1>7 DEF TakeJob, DelayOver, Stalled, Unlink, Acknowledge, Crash, Quiescent,
                            vars, Goto
  <1> QED BY <1>2, <1>4, <1>5, <1>6, <1>7 DEF Next, PostStep, RevStep, WorkerStep

\* A row, and an entity that a task read before, hold the verdict of a revision
\* from the evaluation's save on; while no call fails the revision's own row
\* follows.
Saved(r) == pc[r] \in {"revSave", "returned", "crashed"}

PageInv ==
  faults = 0 =>
    \A r \in Revs : (\E s \in Posts : result[s] = r) \/ (\E u \in Tasks : snap[u] = r) => Saved(r)

LEMMA PageStep ==
  ASSUME Typed, CatchInv, PageInv, [Next]_vars
  PROVE  PageInv'
  <1> USE TasksDisjoint DEF Tasks
  <1> SUFFICES ASSUME faults' = 0, NEW r \in Revs,
                      (\E s \in Posts : result'[s] = r) \/ (\E u \in Tasks : snap'[u] = r)
               PROVE  Saved(r)'
    BY DEF PageInv
  <1>1. faults = 0 /\ \A u \in Tasks : ~CallFails(u)
    BY FaultsGrow
  <1>2. Saved(r) => Saved(r)'
    <2>1. ~(faults' > 0)
      OBVIOUS
    <2> QED BY <2>1, RevFlow DEF Saved
  <1>3. pc \in [Tasks -> Pcs]
    BY DEF Typed, TypeOK, EvaluationTypeOK
  <1>4. r # NoContent /\ r # EmptyContent
    BY ContentAssumption
  <1>5. ASSUME NEW s \in Posts, result'[s] = r PROVE Saved(r)'
    <2>1. CASE Unmoved(s)
      BY <1>1, <1>2, <1>5, <2>1 DEF PageInv, Unmoved
    <2>2. CASE Create(s)
      <3>1. result'[s] \in {result[s], NoContent}
        BY <2>2 DEF Create, CreatePending, Typed, TypeOK, StoreTypeOK
      <3> QED BY <1>1, <1>2, <1>4, <1>5, <3>1 DEF PageInv
    <2>3. ASSUME NEW t \in Tasks, Writes(t, s) PROVE Saved(r)'
      <3>1. CASE result'[s] \in {result[s], snap[t]}
        BY <1>1, <1>2, <1>5, <3>1 DEF PageInv
      <3>2. CASE SaveFailed(t) /\ result'[s] = Outcome(t)
        BY <1>1, <1>4, <1>5, <3>2 DEF CatchInv, SaveFailed, Outcome, Goto
      <3>3. CASE Save(t) /\ result'[s] = t
        BY <1>3, <1>5, <3>3 DEF Save, Goto, Returned, Saved
      <3> QED BY <2>3, <3>1, <3>2, <3>3, WrittenRow
    <2> QED BY <2>1, <2>2, <2>3, RowStep
  <1>6. ASSUME NEW u \in Tasks, snap'[u] = r PROVE Saved(r)'
    BY <1>1, <1>2, <1>4, <1>6, SnapStep DEF PageInv
  <1> QED BY <1>5, <1>6

\* A page that shows the verdict of a revision lists this revision as
\* SUCCESS once its request is over, unless a call failed between the two
\* transactions (revisions.service.ts:94-101).
THEOREM PageIsCoherent == ResponsesSpec => []PageAgreesWithRevisions
  <1>1. Init => CatchInv /\ PageInv
    BY TasksDisjoint, ContentAssumption
       DEF Init, EvaluationInit, StoreInit, NoLocals, CatchInv, PageInv, Tasks
  <1>2. PageInv /\ AnswerInv /\ RevisionInv => PageAgreesWithRevisions
    <2> SUFFICES ASSUME PageInv, AnswerInv, RevisionInv, faults = 0, NEW s \in Posts,
                        NEW item \in GetSubmissionDetail(s).revisions,
                        GetSubmissionDetail(s).status = "SUCCESS",
                        GetSubmissionDetail(s).evaluation = item.id,
                        Answer(item.id).result # "none"
                 PROVE  item.status = "SUCCESS" /\ item.score = item.id
      BY DEF PageAgreesWithRevisions
    <2>1. PICK r \in Revs : item = RevisionListItem(r)
      BY DEF GetSubmissionDetail, SubmissionDetailItem, RevisionRows
    <2>2. item.id = r /\ item.status = revStatus[r] /\ item.score = revResult[r]
      BY <2>1 DEF RevisionListItem
    <2>3. status[s] = "SUCCESS" /\ result[s] = r
      BY <2>2 DEF GetSubmissionDetail, SubmissionDetailItem
    <2>4. pc[r] \in {"revSave", "returned", "crashed"}
      BY <2>3 DEF PageInv, Saved
    <2>5. pc[r] \in {"returned", "threw"}
      BY <2>2 DEF Answer
    <2> QED BY <2>2, <2>4, <2>5 DEF AnswerInv, RevisionInv
  <1> QED BY <1>1, <1>2, CatchStep, PageStep, AnswerAlways, RevisionAlways, ServesTheService, TypeCorrect, PTL
          DEF Spec, Typed
=============================================================================
