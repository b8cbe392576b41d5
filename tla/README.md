# Verification of the essay evaluation service

TLA+ models of the NestJS service in `src/`: students submit an essay
(optionally with a video), OpenAI scores it, a failed evaluation is retried
once from a BullMQ queue, and the student may ask for manual revisions.  Three
callers (the POST handler, the queue consumer and the revision handler) run the
same `evaluateSubmission` over the same row, with nothing but single
transactions between them.  That shared procedure is the core of this project.

File names below are relative to the repository; `service.ts` is
`src/app/submissions/service/submissions.service.ts`.

## 1. Inventory

| Component | State | Operations | Hard behaviour | What makes it correct |
|---|---|---|---|---|
| Tables (`*.entity.ts`, migration) | `submissions`, `submission_logs`, `submission_media`, `revisions`, unique index (student, component) | `createPending`, `markEvaluating`, `markRevision`, `saveSubmissionResult`, revision insert and updates | whole entities saved after they became stale, compared first with a row that changes once more before the UPDATE; two transactions where one is meant | one submission per component; a row has the status of its last outcome, and its result once nobody evaluates it |
| Evaluation (`evaluateSubmission`, evaluator, `openai.service.ts`) | the loaded entity, the domain object | admit or refuse, read and compare the row, mark, upload and evaluate in parallel, save, catch block | three callers on one row, every await a point of interleaving; the save of the failure can fail too | no submission stays EVALUATING while nothing fails; SUCCESS shows a verdict for this submission |
| POST /v1/submissions | one call | duplicate check, create, evaluate, queue on failure | check then insert; crash between outcome and queue | the outcome precedes the queueing; every call is answered |
| POST /v1/revisions | one call, one `revisions` row | check, mark, insert, evaluate, save or fail | check then mark; the insert is outside the `try` | a SUCCESS row shows its own verdict |
| Retry queue (producer, consumer, options) | one job per submission in Redis | add with delay, take, settle, recover stalled | redelivery after a crash, job given up without running `finally`, an unlink that fails | one retry; its video exists when it starts and is gone after it |
| Media (`submission-media-uploader.ts`, `ffmpeg.processor.ts`, blob storage, multer) | uploaded file, `tmp/muted.mp4`, `tmp/audio.mp3` | split, upload two blobs, unlink | the two outputs have one name for all requests | the stored pair belongs to the submission |
| Graceful shutdown (`shutdown.config.ts`) | flag, counter of requests | count, refuse with 503, poll, time out, close | `finish` never fires for an aborted client | nobody is dropped before the ten seconds |
| Statistics (`stats.service.ts`, `stats.scheduler.ts`) | `stats_daily`, `stats_weekly`, `stats_monthly` rows | count the logs of a day, week or month | requests in flight at midnight, a `where` that replaces another, a period computed twice | the counts add up |
| Listing (`offset-pagination.util.ts`) | none | page and filter | rows inserted between two pages | no row skipped without a reason |
| Highlighting (`submission.ts:119`) | none | wrap each highlight in `<b>` | one highlight inside another | the text without tags is the submitted text |
| Auth, students | `students` rows, signed tokens | sign up, sign in, guard | no unique name; insert, then sign, then answer; a shutdown between them | a signin is about an account of its name |
| Responses, interceptors, exception filter | the answer, the log line | map an outcome or an exception to the envelope | an answer built from an entity read before the outcome; a page over two tables written by two transactions | what is answered is what the tables hold |
| Logging, configuration, wiring | none | - | none | - |

How they interact: the controllers call the services (awaited calls); the
services share the tables and nothing else; the POST handler calls the
producer, which writes Redis; the BullMQ worker, in the same process, calls
`runEvaluationJob`; the uploaded file is passed by its path, through the job,
from the POST to the consumer, which deletes it.

The hazards, each with the line where it bites and the properties that watch
it, are in `PROJECT.json`.

## 2. Modules

| Module | Models | Correspondence |
|---|---|---|
| `EssayStore` | the tables | one variable per table (`status` and `result` are two column groups of `submissions`); one operator per committed transaction, from its first write to its commit |
| `RetryQueue` | BullMQ as the producer and consumer use it | `job[s]` is the state of job `submission-<s>`; `Enqueue` is the producer, `Take` / `Settle` the worker, `Promote` the delay, `RecoverStalled` BullMQ's stalled check |
| `Evaluation` | `evaluateSubmission`, step by step | one action per stretch of code between two awaits, with `pc[t]` naming the await task `t` is at; `CallFails` is any of those awaits rejecting |
| `EssayService` | the three callers, `Init`, `Next`, `Spec`, `FairSpec` | composes the store, the evaluation and the queue (`Q == INSTANCE RetryQueue`); adds `Crash`, the timers and the clients |
| `EvaluationLedger` | what a client may rely on (abstract) | implemented by `EssayService`, see `EssayProperties!LedgerSpec` |
| `EssayProperties` | the properties that hold | |
| `EssayClaims` | statements of comments and tests that do not hold | |
| `MediaPipeline` | `SubmissionMediaUploader.upload` for any number of requests at once | one action per ffmpeg, stream and unlink step; `path[k]` is the inode behind `tmp/muted.mp4` or `tmp/audio.mp3` |
| `GracefulShutdown` | the middleware, the signal handler, the two timers, the exit | one action per callback; `req[r]` is where a request is |
| `EvaluationStats` | `StatsService` over the rows the services write | one action per query or insert of an aggregation; `logs`, `revisions` and `rows` are the tables |
| `Paging` | a client reading a listing to its end | one action per query of a page (`getOffsetPaginatedResult`), the rows change between them |
| `Highlight` | `Submission.generateHighlightSubmitText` | the fold over the sorted highlights, one `Apply` per highlight |
| `Responses` | the four GET endpoints, the answers of the two POST endpoints, envelope and filter | extends the essay specification; an answer is an operator over the tables, `entity[r]` the object `revisionSubmission` holds on to |
| `HttpServer` | guard, multer, handler, token, interceptors, filter, and the students table | extends `GracefulShutdown`: `stage[r]` is where a request is in the pipeline, `req[r]` what the middleware knows of it |
| `MCEssay`, `MCResponses`, `MCMedia`, `MCHttp`, `MCStats`, `MCPaging`, `MCHighlight` | instances for TLC | |
| `EssayProofs`, `EssayResultProofs`, `ResponsesProofs` | theorems about the essay specification, its ledger and its answers | |
| `HttpProofs` | theorems about the shutdown, alone and in the server | |
| `MediaProofs` | theorems about `MediaPipeline` | |
| `StatsProofs` | theorems about `EvaluationStats` | |
| `PagingProofs` | theorems about `Paging` | |
| `HighlightProofs` | theorems about `Highlight` | |

`EssayStore` to `EssayClaims` and `Responses` are one specification,
`GracefulShutdown` and `HttpServer` a second.  The other four stand for
themselves: `MediaPipeline` is what `Evaluation` sees as the outcome of an upload
(`UploadOutcomes`), the rest share only rows with it.  `HttpServer` composes the
pipeline with the shutdown; an essay handler in it returns or throws, and
`EssayService` is what it does.  An operator whose name
ends in `_Something` is a variant of the definition after it, with a plausible
mistake; `PROJECT.json` names the property that notices it.

How the state corresponds to the code:

* A submission is named after the POST request that creates it, so `status[p]`
  is the row request `p` inserted, `"none"` before.
* A result (score, feedback, highlights, highlighted text) is named after the
  task whose OpenAI call produced it.  `EmptyContent` is the zero result that
  `applyEvaluationFailed` saves, `NoContent` the NULLs of a new row.  This is
  all the properties need: whose verdict is it.
* `logs[s]` are the rows of the actions INITIAL_SUBMISSION, RETRY_SUBMISSION and
  REVISION_SUBMISSION in the order of their commits (see below); MEDIA_UPLOAD rows are in
  `mediaLogs[s]`.
* `snap[t]` is the entity a task has read and will save later (in
  `markEvaluating` and in `revisionSubmission`); `columns[t]` are the columns its
  `save()` found to differ and will UPDATE.
* `verdict[t]`: `"good"` is storable, `"zero"` a failed OpenAI call,
  `"unstorable"` a score that `Evaluation.fromJson` accepts (any number) and
  the `int` column rejects.
* `upload[t]` is the media outcome the domain object carries; `files` the
  uploaded videos on disk.  The consumer's `unlink` removes one (`Unlink`) or fails
  and is logged (`UnlinkFails`): the job settles either way.

Abstractions of the evaluation, all of them:

* TypeORM's `save(entity)` reads the row again, compares, and UPDATEs the columns
  that differ, or nothing.  The entity's read (`MarkRead`, `RevisionRead`), the
  comparison (`MarkCompare`, `RevisionCompare`) and the UPDATE with its commit
  (`MarkSave`, `RevisionMark`) are three steps, and other transactions commit
  between any two of them (READ COMMITTED).  From the UPDATE to the commit the row
  is locked, so these are one step; with nothing to UPDATE there is no lock, and
  nothing but the log is left to write.  The four result columns are compared as
  one: two verdicts are taken to differ in each of them.
* `logs[s]` is in the order of the commits.  For outcomes that is the order of
  the ids too, because the row is locked by then; a mark that updates nothing may
  have a smaller id than an outcome that committed before it, so no property
  depends on where a mark stands.
* A failing call rolls its transaction back.  A commit whose acknowledgement is
  lost is not modelled, nor is a failing first read of `revisionSubmission` or
  of the two duplicate checks' first call, which change nothing.
* One worker with BullMQ's default concurrency of 1 and one process, as
  `docker-compose.yml` runs it; a restart is a `Crash` after which the worker is
  idle.  Rows, jobs and files survive it.
* The stalled check never takes a job the living worker is running: the worker
  renews its lock.  The event loop is assumed not to be blocked for the 30 s
  that would break this.
* `removeOnComplete` (a day) is not modelled: a completed job stays known.
* Two uploads stored under one name are not modelled: `multer.storage.ts` puts
  a millisecond timestamp in the name.

And of the other modules:

* `Responses`: a GET answers from the tables as they are at one moment, although
  the code reads some of them with two queries.  Identity, status and verdict of
  an item are kept; names, texts, dates and the media URLs are not.  (The POST
  answers `mediaUrl` as `{videoUrl, audioUrl, meta}` and the GET as
  `{video, audio}`; `media.ts:15` swaps the two URLs it stores.  Both are left
  out.)  The POST of a revision answers with the entity it inserted, so its
  answer says EVALUATING whatever the outcome was.  The services build the items
  of one revision as literals; the constructor and the `of` of
  `RevisionDetailItem` (`revisions-response.dto.ts:167`) are not called.
* `HttpServer`: a request has one guard, one file and one handler; the pipes are
  part of the handler step, for what they reject is answered as a throwing
  handler is.  Rows of `students` are only inserted, so a row is its position.
  The signature of a token is external: a token is the id it was signed for, and
  0 one that is missing, expired or forged.  Exceptions of the guard are answered
  by the filter but never reach the logging interceptor.

* `MediaPipeline`: a file is at most `MaxParts` parts, and a part is named after
  the upload that wrote it last.  ffmpeg opens its two outputs one after the
  other and truncates them (fluent-ffmpeg passes `-y`); a file that is open keeps
  its bytes after its path is unlinked, as on any Unix.  `met` and `faulty` are
  history: which uploads were under way together, which had a failing call.
* `GracefulShutdown`: `app.close()` is external and takes as long as it takes.
  A request may arrive on a connection that is open already, before and after
  the signal.  `finish` is emitted only for a client that is still there.
* `EvaluationStats`: the rows come from an environment with one action per
  transaction of the services, in the order each request makes them; a revision may
  begin on any submission that exists, overlap with its evaluation or with another
  revision, and end FAILED although its evaluation succeeded.  The retry, which
  writes rows of the same statuses, is left out.  `logs` is a set of records (the
  queries only count), in which no request writes two alike.  A row is dated by the start of its transaction,
  as `now()` is in PostgreSQL, so a transaction that commits after midnight may
  write a row of the day before; none is assumed to be open for the whole minute
  before 00:01, when the scheduler runs.  (No module registers `StatsScheduler`;
  the model runs the aggregations as if one did, also twice for one period.)  A
  second insert for a period fails, on the unique `period_start`.  Days are days
  of one time zone; that `created_dt` is rounded to a second only moves where a
  day begins.  `WeekDays` (7 in the code), Mondays and months are parameters.
* `Paging`: the queries of a page run outside a transaction.  Rows with the same
  `created_dt` come in any order, another in each query; `createdDt` is the only
  field `sort-validator.ts` lets through.  The filter on the component never
  changes for a row and is left out.
* `Highlight`: the alphabet is a few characters.  Special characters of regular
  expressions are escaped by the code and match themselves, as letters do; a
  highlight with a `$` sequence, which `String.replace` would interpret, is left
  out.

## 3. Runs

| Run | Instance | Question |
|---|---|---|
| `Submissions` | 3 POSTs, 2 of them for one component, 2 with video, all verdicts, 2 crashes, 1 failing call | `TypeOK`; is there one submission per component although both pass the check; is the video of every job there when it first starts, also when the consumer is busy with another |
| `Retry` | 1 POST with video, 1 revision, all verdicts, 1 failing call (the unlink may be it), 2 crashes, with the answers of `Responses`, under fairness | everything about retries (`RetriedAtMostOnce`, `QueuedOnlyAfterFailure`, `FailedPostIsQueued`, `NoAutomaticOverlap`, `VideoDeletedAfterRetry`), `StatusIsLastOutcome`, what revisions and clients show of it all (`RevisionRowMatchesLog`, `AnswersMatchTables`), the refinement `LedgerSpec`, and the liveness properties `EveryPostAnswered`, `EveryRetryEnds` and, as long as nothing fails, `EverySubmissionSettles` and `EveryRevisionSettles` |
| `Revisions` | 1 POST, 2 revisions and the retry, no failing call, with the answers of `Responses` | overlapping evaluations (`SuccessShowsItsVerdict`, `EvaluatingHasOwner`) and what clients see of them (`OkAnswerStays`, `PageAgreesWithRevisions`) |
| `Media` | 2 uploads, one of 3 parts and one of 1, files left behind, any call failing, under fairness | what gets into the blobs (`AloneStoresItsOwn`, `MixesOverlappingOnly`), what stays on disk (`SuccessLeavesNoFile`), why an upload fails (`AloneFailsOnFaultOnly`), that it ends (`EveryUploadEnds`) |
| `Shutdown` | a signup, a signin of the same name and an upload, 1 student in the table, `Timeout` = 10 as in the code, under fairness of the timers | in the whole pipeline: `HttpTypeOK`, `CounterIsUnfinished`, `DrainedDropsNobody`, `CutOffOnlyAfterTimeout`, `WaitEnds`; which account a token is about (`SigninSeesSignups`) |
| `Stats` | 3 days, a week of 2 days that ends before day 3, months that begin on days -2, 0 and 3, 1 submission with video, 1 revision | which stored counts are final (`SubmissionCountsAreFinal`, `RevisionTotalsAreFinal`), which are not (`RevisionOutcomesOnlyGrow`), how days add up to a week (`WeekAddsUp`) |
| `Paging` | 3 rows, pages of 1 and 2, 3 seconds, both orders, with and without a status filter | what a client misses (`MissesNothing`) and what it sees twice (`RepeatsBounded`) |
| `Highlight` | all texts of up to 4 characters over 3 letters, up to 2 highlights of up to 2 characters with blanks and capitals | `TextSurvives`, `HighlightsAreBold` |
| `ClaimQueued` | no failing call | violated: with an unstorable score, the failure itself cannot be saved and the request is not queued |
| `ClaimRevisionGuard` | no failing call | violated: the submission became EVALUATING between a revision's check and its mark |
| `ClaimQueueSkips` | no failing call | violated: the retry runs although a manual revision is logged |
| `ClaimTotalSubmissions` | as `Stats` | violated: the total of a day counts every log row of a request |

The bounds are `MaxFaults` (failing calls), `MaxCrashes` and the sizes of the
constant sets; `MaxStalls = 1` is BullMQ's default and not a bound.  Why they are
enough:

* The evaluation touches one row, so one submission with its three kinds of
  callers has every interleaving of the procedure; a second revision adds the
  case of two callers of one kind, and as what is asked of it is about a service in
  which nothing fails, `Revisions` has no failing call.  Submissions meet only at the unique index
  (two for one slot) and at the consumer (two jobs): `Submissions` has both.
* Two crashes are what it takes to deliver a job twice and then give it up.
* A failing call in `save` followed by a failing call in `saveFailed` is also
  reached by one unstorable verdict.  One failing call reaches every other error
  path.
* Two uploads are what it takes for one to truncate, mix into or unlink a file of
  the other, and with two lengths each is once the longer one: a truncation that
  leaves an old tail would show.  The leftover file is one more predecessor.
* Three days with a week of two and a month that ends with it have every day in
  three kinds of period, two midnights for a transaction to lie across, and a
  period that is over and one that is not.
* Three rows and pages of one and two have a last page that is full and one that
  is not, and an insertion before, inside and after the page.
* Two highlights have every relation two highlights can have: apart, nested,
  overlapping, equal, empty.
* A signup and a signin of one name, with a namesake in the table, have the
  lookup before, between and after the insert, its signature and its answer; the
  upload has every stage a request can be in when the signal comes.
* Symmetry is used on the two revisions in `Revisions` and on the rows in
  `Paging`: safety properties, no definition names one of them.

No cfg disables deadlock checking: in each module a stuttering action
(`Quiescent`, `Exited`, `Returned`) stands for the end of the work it models,
and every other dead end would be reported.

### Fairness

`FairSpec` assumes weak fairness of each handler (every awaited database, OpenAI
or Redis call returns or throws, and Node runs the continuation), of the
consumer's steps, of taking a waiting job, of the delay timer and of the stalled
check.  Nothing is assumed of clients (`Receive`, `RevisionRead`), of failing
calls or of crashes.  Each is a process of its own, so fairness is per process;
no strong fairness is needed, since a handler's step is never disabled by
another task, only refused.

`Media` assumes weak fairness of each upload's own steps: ffmpeg, the streams and
unlink come to an end, in success or failure.  `Shutdown` assumes it of the two
timers only, of no handler and of no client: that is what the ten seconds are
for.

### What the runs say about the code

A mark can be lost.  If `save()` finds the row EVALUATING, by another evaluation,
its UPDATE leaves the status out, and when that evaluation concludes first the row
says SUCCESS although a new evaluation has begun, and the newest log says
EVALUATING.  If the entity is older than the result in the row, its old result
columns are written back besides: until the new evaluation concludes, a SUCCESS row
shows an older verdict, or NULLs, and for good if that evaluation is lost in a
crash.  What holds nevertheless is stated by three properties.  A row that is not
EVALUATING has the status of its last outcome, whatever fails
(`StatusIsLastOutcome`); while nothing fails it shows the verdict of that outcome
once nobody evaluates it any more, because a mark that overlooked an outcome is
followed by an outcome of its own (`SuccessShowsItsVerdict`); and in the ledger such
an evaluation begins unseen, which may change the verdict shown and never the status
(`LedgerSpec`).

`EvaluatingHasOwner` and `EverySubmissionSettles` need their premise: after a crash,
a failing insert of the revision row or a score that cannot be stored, a submission
stays EVALUATING for good, because every caller refuses it and nothing in the code
repairs it.  `VideoDeletedAfterRetry` needs its own: an `unlink` that fails is
logged and nothing more, and the `finally` block does not run for a job that BullMQ
gives up; both leave the video on disk.
`FailedPostIsQueued` and `QueuedOnlyAfterFailure` together place the
Redis call after the FAILED outcome: a crash or a failing Redis call in between
loses the retry and never the outcome.

`MixesOverlappingOnly` is as far as the shared output paths let one go: a blob
may hold parts of another student's video, if both were being processed at one
time, and is a request's own whenever it was alone (`AloneStoresItsOwn`).  The
two halves of `DrainedDropsNobody` and `CutOffOnlyAfterTimeout` say that the exit
is clean or late; an aborted client makes it late, for its `finish` never comes.
In the whole pipeline an account may well be inserted whose owner is told that
signing up failed (`SignFails`); `SigninSeesSignups` is what is left of the identity of a
student, whose name is not unique: a signin finds the newest namesake, never one
older than the account its client knew of.

`AnswersMatchTables` places the answer in the step that stores the outcome: "ok"
is never said of an evaluation whose save failed.  `OkAnswerStays` needs that no
job exists for a POST that succeeded.  `PageAgreesWithRevisions` needs that
nothing fails: after a failing call between the two commits of a revision, a
submission shows a verdict that its own list of revisions calls FAILED.
`RevisionOutcomesOnlyGrow` is weaker than what is stated of submissions, because
a revision is counted by the day it began and the status it has when counted.
`MissesNothing` needs that no row leaves the filter while a client reads: an
evaluation that ends moves the rows after it one place up.

## 4. Proofs

The theorems hold for all sets of requests, slots, videos and uploads, all texts and
verdicts, and all values of the bounds, from the named assumptions on the constants:
the names are distinct, `SlotOf`, `NameOf` and `Length` are functions, the bounds are
natural numbers (of `Paging` the page sizes and the clock positive ones), texts and
highlights are strings, the requests of the server, the manual revisions and the rows
of a listing are finitely many, and two months begin no later than the calendar.
Every safety and action property that a passing run checks is stated by one of them.  Each is one step of
induction, `Init => Inv` and `Inv /\ [Next]_vars => Inv'` with one step per
action, closed by PTL.  In each family the types come first (`Typed`) and are used
by all others; what follows names the strengthening that makes the property
inductive, and why it is needed.

The essay service:

| Theorem (module) | Property | Inductive invariant |
|---|---|---|
| `TypeCorrect` (`EssayProofs`) | `TypeOK` | `Typed == TypeOK /\ Placed`. `Placed` says that each task is at a step of its own handler and knows an existing submission where the step reads one; without it `status[sub[t]]` could be anything |
| `OnePerComponent` (`EssayProofs`) | `OneSubmissionPerComponent` | itself: only `CreatePending` creates a row, and the index is part of it; the check before it is not used |
| `StatusFollowsOutcomes` (`EssayProofs`) | `StatusIsLastOutcome` | itself: an outcome sets the status and appends the log that says so, a mark appends an EVALUATING log and sets that status or none |
| `OneRetry` (`EssayProofs`) | `RetriedAtMostOnce` | `RetryInv`: while the worker is past its admission, the submission has no RETRY log; only the worker writes one, and only as it leaves |
| `FailureBeforeQueue`, `RetryAfterPost` (`EssayProofs`) | `QueuedOnlyAfterFailure`, `NoAutomaticOverlap` | `QueueInv`: a POST at `enqueue` has logged INITIAL / FAILED; a submission has a job only once its POST has thrown or crashed, and the worker only works on submissions with an active job |
| `VerdictShown` (`EssayResultProofs`) | `SuccessShowsItsVerdict` | `VerdictInv`: a SUCCESS row has an evaluation that will still write it, or shows the verdict of its last outcome; a mark that disturbs the second makes the first true. It adds that the revision shown has begun: before its first step a request may choose any submission, and `sub[t]` would move under the row |
| `FailureIsQueued` (`EssayResultProofs`) | `FailedPostIsQueued` | `FailureInv`: a POST that has logged its failure is at `enqueue`, has queued, or was stopped by a failing call or a crash |
| `RowMatchesLog` (`EssayResultProofs`) | `RevisionRowMatchesLog` | `RevisionInv` extends it to requests at `revSave`: their evaluation is logged although their own row is not written yet |
| `VideoKept`, `VideoDeleted` (`EssayProofs`) | `VideoKeptForRetry`, `VideoDeletedAfterRetry` | `VideoInv`: the consumer holds an active job; past its `finally` the file is gone, if no call failed; a file that is gone belongs to a job that was started |
| `EvaluatingIsOwned` (`EssayResultProofs`) | `EvaluatingHasOwner` | `OwnerInv` adds that no task holds a verdict the column rejects |
| `ServiceImplementsLedger` (`EssayResultProofs`) | `LedgerSpec` | the refinement below |
| `AnswersAreStored` (`ResponsesProofs`) | `AnswersMatchTables` | `AnswerInv`: a handler has returned exactly when its SUCCESS is stored, in both directions and for both handlers |
| `OkAnswerKept` (`ResponsesProofs`) | `OkAnswerStays` | `OkInv`: a revision that can write has logged REVISION, and (with `NoAutomaticOverlap`) no retry runs for a POST that returned |
| `PageIsCoherent` (`ResponsesProofs`) | `PageAgreesWithRevisions` | `PageInv`: while no call failed, a revision whose verdict is in a row, or in an entity that a mark may write back, is at `revSave`, has returned or has crashed. It rests on `CatchInv`: then the catch block saves nobody's verdict |

`ServiceImplementsLedger` is the step simulation of `EvaluationLedger` under the
mapping `Ledger` of `EssayProperties`, the instance the run `Retry` checks: each
transaction on a submission is a step of the ledger for that submission, each
crash or failing call that leaves one without its task is `Abandon`, and every
other step stutters.  It is proved action by action from `LedgerInv`, which says
more than the types because a mark may update some columns only: one that leaves the
status out finds a row that has begun (`MarkInv`: it is never PENDING again), and
what it writes back is the verdict of an evaluation that is over for good, so that
the ledger's unseen begin may show it (`ContentInv`; for the retry this needs
`RetryInv`, that there is only one).

The server and its shutdown:

| Theorem (module) | Property | Inductive invariant |
|---|---|---|
| `CounterExact` (`HttpProofs`) | `CounterIsUnfinished` | a request that is let in joins the unfinished ones, one whose response finishes leaves them: cardinalities of a set with one element more or less |
| `DrainSafe`, `CutOffLate` (`HttpProofs`) | `DrainedDropsNobody`, `CutOffOnlyAfterTimeout` | `Phased`: the flag is up from the signal on, so the unfinished requests, none when the counter is 0, stay none; what ended the wait is the counter or a clock that shows `Timeout` |
| `PipelineImplementsShutdown` (`HttpProofs`) | - | `HttpSpec => Spec`: each step of the pipeline is a step of the middleware and the timers or leaves them alone, so that the three theorems above hold of the whole server (`HttpCounterExact`, `HttpDrainSafe`, `HttpCutOffLate`) |
| `HttpTypeCorrect` (`HttpProofs`) | `HttpTypeOK` | the table of students only grows, so that the ids in `user` and `known` stay in it |
| `SigninFindsItsAccount` (`HttpProofs`) | `SigninSeesSignups` | `AccountInv`: from its lookup on, a signin is about a row of its name that is not older than the one its client knew of |

The uploads:

| Theorem (module) | Property | Inductive invariant |
|---|---|---|
| `MediaTyped` (`MediaProofs`) | - | the types, and that a step has the files open that it writes or reads |
| `MixesOnlyOverlapping` (`MediaProofs`) | `MixesOverlappingOnly` | `MixInv`: uploads that are active have met; once an upload has opened an output, the file at the path holds only bytes of uploads it has met, because opening truncates |
| `AloneStores`, `AloneFails` (`MediaProofs`) | `AloneStoresItsOwn`, `AloneFailsOnFaultOnly` | `AloneInv`: what an upload that met nobody has reached at each step, down to the parts written and sent; no other upload acts while it is active, by `MixInv` |
| `SuccessCleans` (`MediaProofs`) | `SuccessLeavesNoFile` | `LeftInv`: once somebody has removed a path, only an upload that failed or is still at work leaves a file there |

The statistics:

| Theorem (module) | Property | Inductive invariant |
|---|---|---|
| `StatsTyped` (`StatsProofs`) | - | the types, and that a row of `revisions` has a day once it has a status |
| `SubmissionCountsFinal`, `RevisionTotalsFinal`, `OutcomesGrow` (`StatsProofs`) | `SubmissionCountsAreFinal`, `RevisionTotalsAreFinal`, `RevisionOutcomesOnlyGrow` | `StatsInv`: every stored row, and the aggregation under way, are about a period that is `Past` (it ended before any transaction that is or will be under way began), and what was read of it is `Final` or `Fair`.  It rests on `PeriodIsOver` (what `getPeriodRange` returns ends before today, for every calendar), on `LogsStay` and `RevisionsStay` (no step changes what is counted in a past period, and outcomes are only added) |
| `WeeksAddUp` (`StatsProofs`) | `WeekAddsUp` | `OneRowEach`: one row is stored of a period, so that "the rows of a week's days" are the daily aggregates themselves. By `StatsInv` each of them is the count of its day, by `AllDays` as many different days of a week as it has are all of them, and a sum of counts over disjoint days is the count of their union (`DaysAddUp`) |

The listing:

| Theorem (module) | Property | Inductive invariant |
|---|---|---|
| `PagingTyped` (`PagingProofs`) | - | the types, and that a client asks for no more pages than the table has rows |
| `ReadersMissNothing` (`PagingProofs`) | `MissesNothing` | `NoneMissed`: every row that was listed from the start has been shown, is on the page under way, or has a rank past the pages read, and in the last case that page is full, so that the reading goes on. An inserted row never lowers the rank of another, so that nothing unread slips in front of the edge |
| `InsertionsRepeatFew` (`PagingProofs`) | `RepeatsBounded` | `FewRepeated` counts with the rows that are repeated those that are going to be: shown, but of a rank behind the edge of the last page read. An insertion pushes at most one row over the edge, and a page repeats only rows that were counted |

Both rest on what a page is (`PageByRank`: the rows of the ranks from `Skip` on,
whatever the order), which is where ties of `created_dt` would break them; `Sure`
and `Quiet`, the conditions of the two properties, say for which readings they hold.

The highlighting:

| Theorem (module) | Property | Inductive invariant |
|---|---|---|
| `HighlightTyped` (`HighlightProofs`) | - | itself, for any highlights: trimming and replacing give strings |
| `TextIsKept`, `EveryMatchIsBold` (`HighlightProofs`) | `TextSurvives`, `HighlightsAreBold` | `HighlightInv`: the text so far is a *marking* of the submitted one (`SoFar`) with opening tags only where an applied highlight matches and closing tags only where a match ends; only matches are bold, and every match of an applied highlight that crosses no other; and the applied highlights are no shorter than the others (`LongestFirst`) |

A marking of a text is its characters in order, with tags between them that are
balanced; the set of markings, each with the set of characters it shows in bold, is
the smallest one closed under writing a character or a tag in front (`Marked`).  A
browser shows a marking as its text (`ShowsMarking`), and `ReplaceAll` makes of a
marking another one, with more tags (`ReplaceMarks`): a match lies in a run without
tags, because a plain highlight has none of their characters, so that it is a match
in the submitted text (`MatchRuns`).  Conversely a match in the text is found in the
marking if no tag is inside it (`MatchStays`), and that is what the order is for: a
tag of a highlight at least as long could only be inside if the two crossed
(`ApartIsAlone`).  The two recursive functions are computed from the end of the
string, so that their unfolding and all of this is induction on positions, the last
first (`Downward`), over sets, which the provers can instantiate.

Only model-checked: liveness (`EveryPostAnswered`, `EveryRetryEnds`,
`EverySubmissionSettles`, `EveryRevisionSettles`, `EveryUploadEnds`, `WaitEnds`),
which is out of the prover's reach.  What the runs that expect a violation state is
false of the code, as their counterexamples show.

## 5. Where it stands

Done: the essay service with its queue, its answers and its abstract ledger; the
uploads; the server with its accounts and its shutdown; the aggregations, the
listing and the highlighting.  Every safety and action property of a
passing run is proved.

What a next step could take, in this order:

1. Composition of `MediaPipeline` with `Evaluation`, so that what a submission's
   media rows name is the blob its own video gave.
2. A clock: the delay of `60 * 60 * 3600` ms (`submission.producer.ts:18`) against
   the hour its comment speaks of, and the signed URLs that expire after one
   (`blob-storage.service.ts:49`).

### Not modelled

* Logging, configuration, Swagger, Bull Board and module wiring: declarations
  without state.  `LoggingInterceptor` is in `HttpServer` as far as it says which
  requests leave a line.
* The start of the server, and how long `app.close()` takes after the exit is
  decided: the framework's.
* The expiry of signed URLs, the metadata of a video, the directory multer
  creates: no property is about them.
* The clock times of `StatsScheduler`: no module registers it.
* The component filter of a listing, which never changes for a row.
* A commit that succeeds without its acknowledgement, a second process, an event
  loop that is blocked for longer than BullMQ's lock: see section 2.
