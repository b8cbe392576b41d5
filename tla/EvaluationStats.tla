--------------------------- MODULE EvaluationStats ---------------------------
(***************************************************************************)
(* StatsService: the evaluations of a past day, week or month, counted     *)
(* from submission_logs and revisions and stored under the first day of    *)
(* the period.  An aggregation starts on the days its scheduler names, not *)
(* before 00:01, and maybe twice; each of its reads and its insert is a    *)
(* step, between which the services go on, midnight passes or a call fails.*)
(*                                                                         *)
(* The rows that are counted come from the services, one action for each   *)
(* of their transactions: a submission is evaluated by its POST and by the *)
(* revisions requested of it, which may overlap with that and with each    *)
(* other.  A row is dated by the beginning of its transaction, which may   *)
(* lie before midnight and its end after; no transaction lasts longer than *)
(* the first minute of a day.  The retry, left out, writes rows of the     *)
(* same statuses, and the queries tell nothing else apart.                 *)
(***************************************************************************)
EXTENDS Integers, FiniteSets, FiniteSetsExt

CONSTANTS
  LastDay,       \* bound: the last day of the calendar
  WeekDays,      \* days of a week, 7 in the code
  Mondays,       \* the days on which the weekly statistics are collected
  MonthStarts,   \* the days on which a month begins
  Subs,          \* the submissions, and the POST requests that create them
  Videos,        \* those with a video
  Revs           \* the manual revisions, and the requests for them

ASSUME CalendarAssumption ==
  LastDay \in Nat /\ WeekDays \in Nat \ {0} /\ Mondays \subseteq Nat /\ MonthStarts \subseteq 1 - LastDay .. LastDay
ASSUME TwoMonthsAssumption == \E m, n \in MonthStarts : m < n /\ n <= 1
ASSUME RevsAssumption == IsFiniteSet(Revs) /\ Subs \cap Revs = {} /\ Videos \subseteq Subs

Days == 1 .. LastDay
Outcomes == {"SUCCESS", "FAILED"}
Requests == Subs \cup Revs
Stages == {"none", "PENDING", "marked", "inserted", "EVALUATING", "over"} \cup Outcomes
Statuses == {"PENDING", "EVALUATING"} \cup Outcomes
Kinds == {"daily", "weekly", "monthly"}

VARIABLES
  today,
  settled,     \* the first minute of today has passed
  stage,       \* how far the services are with each request
  logs,        \* the rows of submission_logs; no request writes two alike
  revisions,   \* revisions: the day a row was created, and its status
  rows,        \* the rows of stats_daily, stats_weekly and stats_monthly
  agg          \* the aggregation under way

serviceVars == <<stage, logs, revisions>>
calendar == <<today, settled>>
vars == <<calendar, serviceVars, rows, agg>>

Counts == [total : Nat, success : Nat, failed : Nat]
NoCounts == [total |-> 0, success |-> 0, failed |-> 0]
Idle == [pc |-> "idle", kind |-> "daily", first |-> 0, last |-> 0,
         submissions |-> NoCounts, revisions |-> NoCounts]

PeriodStarts == 1 - LastDay - WeekDays .. LastDay
Row == [kind : Kinds, first : PeriodStarts, submissions : Counts, revisions : Counts]

TypeOK ==
  /\ today \in Days /\ settled \in BOOLEAN
  /\ stage \in [Requests -> Stages]
  /\ logs \subseteq [request : Requests, day : Days, action : {"INITIAL", "REVISION", "MEDIA"},
                    status : Statuses]
  /\ revisions \in [Revs -> [day : {0} \cup Days, status : {"none"} \cup Statuses]]
  /\ rows \subseteq Row
  /\ agg \in [pc : {"idle", "revisions", "save"}, kind : Kinds,
              first : PeriodStarts, last : PeriodStarts,
              submissions : Counts, revisions : Counts]

Init ==
  /\ today = 1 /\ settled = TRUE
  /\ stage = [q \in Requests |-> "none"]
  /\ logs = {}
  /\ revisions = [r \in Revs |-> [day |-> 0, status |-> "none"]]
  /\ rows = {}
  /\ agg = Idle

-----------------------------------------------------------------------------
(* What the services write                                                 *)

\* What the beginning of a transaction that ends now may be dated.
Stamps == {today} \cup (IF settled THEN {} ELSE {today - 1})

Logged(q, action, st, day) ==
  [request |-> q, day |-> day, action |-> action, status |-> st]

\* The MEDIA_UPLOAD row that follows an outcome, if there was a video.
MediaRows(q, media, day) == IF q \in Videos THEN {Logged(q, "MEDIA", media, day)} ELSE {}

\* A transaction of a request, begun after those it made before, with the
\* rows that it logs.
Writes(q, from, to, day, new) ==
  /\ stage[q] = from
  /\ \A l \in logs : l.request = q => l.day <= day
  /\ stage' = [stage EXCEPT ![q] = to]
  /\ logs' = logs \cup new
  /\ UNCHANGED <<calendar, rows, agg>>

\* createPending
Submit(s, day) ==
  /\ Writes(s, "none", "PENDING", day, {Logged(s, "INITIAL", "PENDING", day)})
  /\ UNCHANGED revisions

\* markEvaluating, which logs the same action for a revision
Begin(q, day) ==
  /\ \E from \in {"PENDING", "inserted"} :
       Writes(q, from, "EVALUATING", day, {Logged(q, "INITIAL", "EVALUATING", day)})
  /\ UNCHANGED revisions

\* saveSubmissionResult
End(q, st, media, day) ==
  /\ Writes(q, "EVALUATING", st, day,
            {Logged(q, IF q \in Subs THEN "INITIAL" ELSE "REVISION", st, day)}
            \cup MediaRows(q, media, day))
  /\ UNCHANGED revisions

\* markRevision.  What was read before was any submission that was not
\* EVALUATING then; what it has become since is not asked.
Mark(r, s, day) ==
  /\ stage[s] # "none"
  /\ \A l \in logs : l.request = s /\ l.status = "PENDING" => l.day <= day
  /\ Writes(r, "none", "marked", day, {Logged(r, "REVISION", "EVALUATING", day)})
  /\ UNCHANGED revisions

Insert(r, day) ==
  /\ revisions[r].status = "none"
  /\ Writes(r, "marked", "inserted", day, {})
  /\ revisions' = [revisions EXCEPT ![r] = [day |-> day, status |-> "EVALUATING"]]

\* The outcome of a revision's row: SUCCESS after that of its evaluation,
\* FAILED whenever a call after the insertion throws, the one that would have
\* stored SUCCESS included.
EndRevision(r, st) ==
  /\ revisions[r].status = "EVALUATING"
  /\ st = "SUCCESS" => stage[r] = "SUCCESS"
  /\ stage' = [stage EXCEPT ![r] = "over"]
  /\ revisions' = [revisions EXCEPT ![r].status = st]
  /\ UNCHANGED <<calendar, logs, rows, agg>>

Midnight ==
  /\ today < LastDay /\ settled
  /\ today' = today + 1 /\ settled' = FALSE
  /\ UNCHANGED <<serviceVars, rows, agg>>

\* 00:01, when every transaction that began yesterday has ended.
Minute ==
  /\ ~settled
  /\ settled' = TRUE
  /\ UNCHANGED <<today, serviceVars, rows, agg>>

-----------------------------------------------------------------------------
(* getPeriodRange                                                          *)

MonthStart(d) == CHOOSE m \in MonthStarts :
                   m <= d /\ \A n \in MonthStarts : n <= d => n <= m

\* Variant: the week starts seven days before its last day.
PeriodRange_Week(kind) ==
  CASE kind = "daily" -> [first |-> today - 1, last |-> today - 1]
    [] kind = "weekly" -> [first |-> today - 1 - WeekDays, last |-> today - 1]
    [] kind = "monthly" -> [first |-> MonthStart(MonthStart(today) - 1),
                            last |-> MonthStart(today) - 1]

PeriodRange(kind) ==
  CASE kind = "daily" -> [first |-> today - 1, last |-> today - 1]
    [] kind = "weekly" -> [first |-> today - WeekDays, last |-> today - 1]
    [] kind = "monthly" -> [first |-> MonthStart(MonthStart(today) - 1),
                            last |-> MonthStart(today) - 1]

-----------------------------------------------------------------------------
(* The queries                                                             *)

LogsWith(first, last, S) ==
  Cardinality({l \in logs : l.day \in first .. last /\ l.status \in S})

\* The filter on the action is replaced by the one on createdDt: rows of every
\* action and status are in the total.
SubmissionCounts(first, last) ==
  [total |-> LogsWith(first, last, Statuses),
   success |-> LogsWith(first, last, {"SUCCESS"}),
   failed |-> LogsWith(first, last, {"FAILED"})]

RevisionsWith(first, last, S) ==
  Cardinality({r \in Revs : revisions[r].day \in first .. last /\ revisions[r].day # 0
                            /\ revisions[r].status \in S})

\* Variant: a revision that has not failed counts as a success.
RevisionCounts_NotFailed(first, last) ==
  [total |-> RevisionsWith(first, last, Statuses),
   success |-> RevisionsWith(first, last, Statuses \ {"FAILED"}),
   failed |-> RevisionsWith(first, last, {"FAILED"})]

RevisionCounts(first, last) ==
  [total |-> RevisionsWith(first, last, Statuses),
   success |-> RevisionsWith(first, last, {"SUCCESS"}),
   failed |-> RevisionsWith(first, last, {"FAILED"})]

-----------------------------------------------------------------------------
(* aggregateDaily, aggregateWeekly, aggregateMonthly                       *)

\* Variant: at midnight sharp, as the comments of the service have it.
Scheduled_AtMidnight(kind) ==
  /\ kind = "weekly" => today \in Mondays
  /\ kind = "monthly" => today \in MonthStarts

\* At 00:01 every day, at 00:03 on Mondays, at 00:05 on the first of a month.
Scheduled(kind) ==
  /\ settled
  /\ kind = "weekly" => today \in Mondays
  /\ kind = "monthly" => today \in MonthStarts

ReadSubmissions(kind) ==
  LET p == PeriodRange(kind) IN
  /\ agg.pc = "idle" /\ Scheduled(kind)
  /\ agg' = [Idle EXCEPT !.pc = "revisions", !.kind = kind,
                         !.first = p.first, !.last = p.last,
                         !.submissions = SubmissionCounts(p.first, p.last)]
  /\ UNCHANGED <<calendar, serviceVars, rows>>

\* Variant: the period is computed anew for the second query.
ReadRevisions_Anew ==
  LET p == PeriodRange(agg.kind) IN
  /\ agg.pc = "revisions"
  /\ agg' = [agg EXCEPT !.pc = "save", !.revisions = RevisionCounts(p.first, p.last)]
  /\ UNCHANGED <<calendar, serviceVars, rows>>

ReadRevisions ==
  /\ agg.pc = "revisions"
  /\ agg' = [agg EXCEPT !.pc = "save", !.revisions = RevisionCounts(agg.first, agg.last)]
  /\ UNCHANGED <<calendar, serviceVars, rows>>

\* The entity has no id, so save inserts; period_start is unique, so a second
\* row of a period is rejected.
Save ==
  /\ agg.pc = "save"
  /\ rows' = IF \E r \in rows : r.kind = agg.kind /\ r.first = agg.first THEN rows
             ELSE rows \cup {[kind |-> agg.kind, first |-> agg.first,
                             submissions |-> agg.submissions,
                             revisions |-> agg.revisions]}
  /\ agg' = Idle
  /\ UNCHANGED <<calendar, serviceVars>>

\* A query or the insert throws.
AggregationFails ==
  /\ agg.pc # "idle"
  /\ agg' = Idle
  /\ UNCHANGED <<calendar, serviceVars, rows>>

-----------------------------------------------------------------------------
Service ==
  \/ \E day \in Stamps :
       \/ \E s \in Subs : Submit(s, day)
       \/ \E q \in Requests : \/ Begin(q, day)
                             \/ \E st, media \in Outcomes : End(q, st, media, day)
       \/ \E r \in Revs : Insert(r, day) \/ \E s \in Subs : Mark(r, s, day)
  \/ \E r \in Revs, st \in Outcomes : EndRevision(r, st)

Aggregation ==
  \/ \E kind \in Kinds : ReadSubmissions(kind)
  \/ ReadRevisions \/ Save \/ AggregationFails

Next == Service \/ Midnight \/ Minute \/ Aggregation

Spec == Init /\ [][Next]_vars

-----------------------------------------------------------------------------
(* Properties                                                              *)

LastOf(kind, p) ==
  CASE kind = "daily" -> p
    [] kind = "weekly" -> p + WeekDays - 1
    [] kind = "monthly" -> (CHOOSE m \in MonthStarts :
                              m > p /\ \A n \in MonthStarts : n > p => n >= m) - 1

SubmissionsNow(r) == SubmissionCounts(r.first, LastOf(r.kind, r.first))
RevisionsNow(r) == RevisionCounts(r.first, LastOf(r.kind, r.first))

\* The counts of submissions stored for a period are what the same period
\* counts at any later time: no row is added to it after it was counted, not
\* even by a transaction that was under way at midnight.
SubmissionCountsAreFinal == \A r \in rows : r.submissions = SubmissionsNow(r)

\* So is the number of revisions stored for a period.
RevisionTotalsAreFinal == \A r \in rows : r.revisions.total = RevisionsNow(r).total

\* The outcomes stored for the revisions of a period may miss those that were
\* not known yet, and never count one that is not so later.
RevisionOutcomesOnlyGrow ==
  \A r \in rows : /\ r.revisions.success <= RevisionsNow(r).success
                  /\ r.revisions.failed <= RevisionsNow(r).failed

\* The counts of submissions of a week are the sums of those of its days,
\* whenever each was computed, if no day is missing.
WeekAddsUp ==
  \A w \in rows : w.kind = "weekly" =>
    LET days == {r \in rows : r.kind = "daily" /\ r.first \in w.first .. w.first + WeekDays - 1}
    IN  Cardinality(days) = WeekDays =>
          \A c \in {"total", "success", "failed"} :
            w.submissions[c] = MapThenSumSet(LAMBDA r : r.submissions[c], days)

\* The comment of the column (daily-stats.entity.ts:10): the number of requests
\* to evaluate an essay; each writes one PENDING row.
TotalCountsRequests ==
  \A r \in rows : r.kind = "daily" =>
    r.submissions.total = LogsWith(r.first, r.first, {"PENDING"})
=============================================================================
