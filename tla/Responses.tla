------------------------------ MODULE Responses ------------------------------
(***************************************************************************)
(* What the clients of the essay endpoints are told.  A GET answers from   *)
(* one SELECT: the item and page operators below read the tables as they   *)
(* are at that moment.  A POST answers when its handler ends: with the     *)
(* domain object it evaluated, with the revision entity it inserted before *)
(* the evaluation, or with the filter's "failed".                          *)
(***************************************************************************)
EXTENDS EssayProperties

VARIABLE entity   \* the result columns of each revision entity, as inserted:
                  \* a member of Content

responseVars == <<vars, entity>>

\* save() returns the entity it was given; update(), later, does not touch it.
KeepEntity ==
  entity' = [r \in Revs |-> IF pc[r] = "revInsert" /\ pc'[r] = "load" THEN snap[r]
                            ELSE entity[r]]

ResponsesInit == Init /\ entity = [r \in Revs |-> NoContent]
ResponsesNext == Next /\ KeepEntity
ResponsesSpec == ResponsesInit /\ [][ResponsesNext]_responseVars
ResponsesFairSpec == ResponsesSpec /\ Fairness

-----------------------------------------------------------------------------
(* GET /v1/submissions, /v1/submissions/:id, /v1/revisions, /v1/revisions/:id *)

SubmissionListItem(s) ==
  [id |-> s, slot |-> SlotOf[s], status |-> status[s], score |-> result[s]]

GetSubmissionsResponse == {SubmissionListItem(s) : s \in {q \in Posts : Exists(q)}}

RevisionListItem(r) ==
  [id |-> r, submissionId |-> sub[r], status |-> revStatus[r], score |-> revResult[r]]

RevisionRows == {r \in Revs : revStatus[r] # "none"}

GetRevisionsResponse == {RevisionListItem(r) : r \in RevisionRows}

\* Several media rows may belong to a submission; the page shows one of them.
HasMediaRow(s) == \E i \in DOMAIN mediaLogs[s] : mediaLogs[s][i] = "SUCCESS"

SubmissionDetailItem(s, revisions) ==
  [id |-> s, slot |-> SlotOf[s], status |-> status[s], evaluation |-> result[s],
   mediaUrl |-> HasMediaRow(s), revisions |-> revisions]

GetSubmissionDetail(s) ==
  SubmissionDetailItem(s, {RevisionListItem(r) : r \in {q \in RevisionRows : sub[q] = s}})

RevisionDetailItem(r, st, content) ==
  [id |-> r, submissionId |-> sub[r], status |-> st, evaluation |-> content]

GetRevisionDetail(r) == RevisionDetailItem(r, revStatus[r], revResult[r])

-----------------------------------------------------------------------------
(* POST /v1/submissions and POST /v1/revisions                             *)

Ok(data) == [result |-> "ok", data |-> data]
NoData == [id |-> NoSub]

\* Submission.toDto of the object whose evaluation was just saved.
ToDto(p) ==
  [id |-> p, slot |-> SlotOf[p], status |-> "SUCCESS", evaluation |-> p]

\* The interceptors and the exception filter: a handler that returned is
\* answered "ok" with its data, one that threw "failed", with HTTP status 200.
Answer(t) ==
  CASE pc[t] = "returned" -> Ok(IF t \in Posts THEN ToDto(t)
                                ELSE RevisionDetailItem(t, "EVALUATING", entity[t]))
    [] pc[t] = "threw" -> [result |-> "failed", data |-> NoData]
    [] OTHER -> [result |-> "none", data |-> NoData]

Initially(p, st) == \E i \in DOMAIN logs[p] : logs[p][i] = Log("INITIAL", st)

-----------------------------------------------------------------------------
(* Properties                                                              *)

\* "ok" and "failed" tell what is in the tables: a submission that was
\* answered "ok" has its SUCCESS outcome logged and one answered "failed" has
\* none; a revision is answered "ok" exactly when its page shows its verdict,
\* although the answer itself still says EVALUATING.
AnswersMatchTables ==
  /\ \A p \in Posts : Answer(p).result # "none" =>
       (Answer(p).result = "ok" <=> Initially(p, "SUCCESS"))
  /\ \A r \in Revs : Answer(r).result # "none" =>
       (Answer(r).result = "ok" <=> GetRevisionDetail(r).status = "SUCCESS")

\* What POST /v1/submissions answered stays what the list and the page show
\* until somebody asks for a revision: no retry replaces it.
OkAnswerStays ==
  \A p \in Posts :
    Answer(p).result = "ok" /\ ~HasLog(p, "REVISION") =>
      /\ GetSubmissionDetail(p).status = Answer(p).data.status
      /\ GetSubmissionDetail(p).evaluation = Answer(p).data.evaluation
      /\ \E item \in GetSubmissionsResponse :
           item.id = p /\ item.score = Answer(p).data.evaluation

\* The two tables of one page agree, although they are written in two
\* transactions: while no call fails, a submission that shows the verdict of
\* a revision lists this revision as SUCCESS once its request is over.
PageAgreesWithRevisions ==
  faults = 0 =>
    \A s \in Posts : \A item \in GetSubmissionDetail(s).revisions :
      /\ GetSubmissionDetail(s).status = "SUCCESS"
      /\ GetSubmissionDetail(s).evaluation = item.id
      /\ Answer(item.id).result # "none"
      => item.status = "SUCCESS" /\ item.score = item.id
=============================================================================
