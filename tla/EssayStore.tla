----------------------------- MODULE EssayStore -----------------------------
(***************************************************************************)
(* The PostgreSQL tables of the essay service and the transactions the     *)
(* services run on them: submissions, submission_logs, submission_media    *)
(* and revisions.                                                          *)
(*                                                                         *)
(* A submission is named after the POST request that creates it, a         *)
(* revision row after the request that asks for it.  An evaluation result  *)
(* (score, feedback, highlights, highlighted text) is named after the task *)
(* whose OpenAI call produced it, which takes the results of different     *)
(* tasks to differ in every column.  Every operator below that primes      *)
(* variables is the statements with which one transaction ends, from its   *)
(* first write (and the lock that takes on the row) to its commit.         *)
(***************************************************************************)
EXTENDS Naturals, Sequences

CONSTANTS
  Posts,         \* POST /v1/submissions requests, and the rows they create
  Revs,          \* POST /v1/revisions requests, and the rows they create
  Worker,        \* the BullMQ consumer
  Slots,         \* (student, componentType) pairs
  SlotOf,        \* the pair each POST request is for
  VideoPosts,    \* the POST requests that carry a video file
  NoSub, NoContent, EmptyContent

Tasks == Posts \cup Revs \cup {Worker}

\* What the result columns of a row can hold: NULLs, the zero result of a
\* failed evaluation, or the verdict a task obtained.
Content == Tasks \cup {NoContent, EmptyContent}

ASSUME TasksDisjoint ==
  /\ Posts \cap Revs = {}
  /\ Worker \notin Posts \cup Revs
  /\ NoSub \notin Posts
ASSUME SlotsAssumption == SlotOf \in [Posts -> Slots] /\ VideoPosts \subseteq Posts
ASSUME ContentAssumption ==
  NoContent # EmptyContent /\ NoContent \notin Tasks /\ EmptyContent \notin Tasks

Statuses == {"PENDING", "EVALUATING", "SUCCESS", "FAILED"}
Actions == {"INITIAL", "RETRY", "REVISION"}
LogRow == [action : Actions, status : Statuses]

VARIABLES
  status,      \* submissions.status, "none" before the row exists
  result,      \* submissions.score, feedback, highlights, highlight_submit_text
  logs,        \* submission_logs of the evaluation actions, as committed
  mediaLogs,   \* statuses of the MEDIA_UPLOAD logs; a SUCCESS has a media row
  revStatus,   \* revisions.status, "none" before the row exists
  revResult    \* the result columns of the revisions row

storeVars == <<status, result, logs, mediaLogs, revStatus, revResult>>

StoreTypeOK ==
  /\ status \in [Posts -> Statuses \cup {"none"}]
  /\ result \in [Posts -> Content]
  /\ logs \in [Posts -> Seq(LogRow)]
  /\ mediaLogs \in [Posts -> Seq({"SUCCESS", "FAILED"})]
  /\ revStatus \in [Revs -> {"none", "EVALUATING", "SUCCESS", "FAILED"}]
  /\ revResult \in [Revs -> Content]

StoreInit ==
  /\ status = [s \in Posts |-> "none"]
  /\ result = [s \in Posts |-> NoContent]
  /\ logs = [s \in Posts |-> <<>>]
  /\ mediaLogs = [s \in Posts |-> <<>>]
  /\ revStatus = [r \in Revs |-> "none"]
  /\ revResult = [r \in Revs |-> NoContent]

-----------------------------------------------------------------------------
Exists(s) == status[s] # "none"

Log(action, st) == [action |-> action, status |-> st]

HasLog(s, action) == \E i \in DOMAIN logs[s] : logs[s][i].action = action

\* isDuplicateSubmission: a plain SELECT, outside any transaction.
IsDuplicate(p) == \E s \in Posts : Exists(s) /\ SlotOf[s] = SlotOf[p]

\* Variant: the table without its unique index.
UniqueIndexAllows_Missing(p) == TRUE

\* uq_submissions_student_component: what the INSERT itself enforces.
UniqueIndexAllows(p) == \A s \in Posts : Exists(s) => SlotOf[s] # SlotOf[p]

\* Variant: the row starts with a status the schema does not know.
CreatePending_Untyped(p) ==
  /\ UniqueIndexAllows(p)
  /\ status' = [status EXCEPT ![p] = "INITIAL"]
  /\ logs' = [logs EXCEPT ![p] = Append(@, Log("INITIAL", "INITIAL"))]
  /\ UNCHANGED <<result, mediaLogs, revStatus, revResult>>

CreatePending(p) ==
  /\ UniqueIndexAllows(p)
  /\ status' = [status EXCEPT ![p] = "PENDING"]
  /\ logs' = [logs EXCEPT ![p] = Append(@, Log("INITIAL", "PENDING"))]
  /\ UNCHANGED <<result, mediaLogs, revStatus, revResult>>

\* repository.save(entity) of an entity read earlier, its status now set to
\* EVALUATING, SELECTs the row again and compares: the columns that differ.
Columns == {"status", "result"}
Changed(s, content) ==
  {c \in Columns : IF c = "status" THEN status[s] # "EVALUATING" ELSE result[s] # content}

\* Then it UPDATEs those columns and no others; if none differed there is no
\* UPDATE, whatever has become of the row meanwhile.
SaveEvaluating(s, content, columns, action) ==
  /\ status' = IF "status" \in columns THEN [status EXCEPT ![s] = "EVALUATING"] ELSE status
  /\ result' = IF "result" \in columns THEN [result EXCEPT ![s] = content] ELSE result
  /\ logs' = [logs EXCEPT ![s] = Append(@, Log(action, "EVALUATING"))]
  /\ UNCHANGED <<mediaLogs, revStatus, revResult>>

\* markEvaluating logs INITIAL_SUBMISSION whatever request it serves.
MarkEvaluating(s, content, columns) == SaveEvaluating(s, content, columns, "INITIAL")

MarkRevision(s, content, columns) == SaveEvaluating(s, content, columns, "REVISION")

\* Variant: only a success is logged.
SaveSubmissionResult_NoFailedLog(s, action, st, content, media) ==
  /\ status' = [status EXCEPT ![s] = st]
  /\ result' = [result EXCEPT ![s] = content]
  /\ logs' = IF st = "SUCCESS" THEN [logs EXCEPT ![s] = Append(@, Log(action, st))] ELSE logs
  /\ mediaLogs' = IF media = "none" THEN mediaLogs
                  ELSE [mediaLogs EXCEPT ![s] = Append(@, media)]
  /\ UNCHANGED <<revStatus, revResult>>

\* Variant: the result columns are written only while they are NULL.
SaveSubmissionResult_KeepOld(s, action, st, content, media) ==
  /\ status' = [status EXCEPT ![s] = st]
  /\ result' = IF result[s] = NoContent THEN [result EXCEPT ![s] = content] ELSE result
  /\ logs' = [logs EXCEPT ![s] = Append(@, Log(action, st))]
  /\ mediaLogs' = IF media = "none" THEN mediaLogs
                  ELSE [mediaLogs EXCEPT ![s] = Append(@, media)]
  /\ UNCHANGED <<revStatus, revResult>>

\* media is "none" when no video was processed: no MEDIA_UPLOAD log then.
SaveSubmissionResult(s, action, st, content, media) ==
  /\ status' = [status EXCEPT ![s] = st]
  /\ result' = [result EXCEPT ![s] = content]
  /\ logs' = [logs EXCEPT ![s] = Append(@, Log(action, st))]
  /\ mediaLogs' = IF media = "none" THEN mediaLogs
                  ELSE [mediaLogs EXCEPT ![s] = Append(@, media)]
  /\ UNCHANGED <<revStatus, revResult>>

InsertRevision(r, content) ==
  /\ revStatus' = [revStatus EXCEPT ![r] = "EVALUATING"]
  /\ revResult' = [revResult EXCEPT ![r] = content]
  /\ UNCHANGED <<status, result, logs, mediaLogs>>

SaveRevisionResult(r, content) ==
  /\ revStatus' = [revStatus EXCEPT ![r] = "SUCCESS"]
  /\ revResult' = [revResult EXCEPT ![r] = content]
  /\ UNCHANGED <<status, result, logs, mediaLogs>>

FailRevision(r) ==
  /\ revStatus' = [revStatus EXCEPT ![r] = "FAILED"]
  /\ UNCHANGED <<status, result, logs, mediaLogs, revResult>>
=============================================================================
